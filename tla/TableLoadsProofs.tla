-------------------------- MODULE TableLoadsProofs --------------------------
(***************************************************************************)
(* Proofs about TableLoads: what an application sees at the address of a    *)
(* table, for every number of tables, applications, load buffers and        *)
(* validation results.                                                      *)
(***************************************************************************)
EXTENDS TableLoads, FiniteSetTheorems, TLAPS

(* How the ground and the applications must share the work for the paths    *)
(* without a lock to be safe: the ground waits for the outcome of a command *)
(* and no table is loaded by both.  Any application may take the address of *)
(* any table, at any time.                                                  *)
Coordinated == Careful /\ Reloads \cap GroundLoads = {}

(* The files the ground loads have the data their headers promise: a short  *)
(* or a long one leaves the Validated flag of an earlier image.             *)
WholeFiles ==
  \A t \in GroundLoads : \A s \in SourcesOf[t] : s.form \in {"full", "partial"}

-----------------------------------------------------------------------------
(* The inductive invariant: what a task in the middle of a call relies on,  *)
(* what a registry record promises and what a user's descriptor promises.   *)

(* The owner is inside CFE_TBL_Load: the first load is in the active        *)
(* buffer, any other in the working buffer of the load in progress.         *)
Loading(x, t) ==
  /\ t \in Tables /\ x = OwnerOf[t] /\ loc[x].src \in SourcesOf[t]
  /\ IF reg[t].TableLoadedOnce
       THEN /\ t \in Reloads /\ reg[t].LoadInProgress # None /\ ~reg[t].LoadPending
            /\ loc[x].working = Working(t)
       ELSE loc[x].working = Active(t)

(* Nobody relies on the image of a single buffered table.                  *)
Unread(t) == t \in DoubleBuffered \/
  \A h \in UsersOf(t) : held[h] \in {NULL, Overtaken}

AppOK(x) ==
  LET t == loc[x].t IN
  /\ pc[x] \notin {"read", "fault"}
  /\ pc[x] \in {"lock", "index"} =>
       <<x, t>> \in Readers /\ desc[<<x, t>>].LockFlag /\ held[<<x, t>>] = NULL
  /\ pc[x] = "index" =>
       loc[x].idx \in {0, 1} /\ (t \notin DoubleBuffered => loc[x].idx = 0)
  /\ pc[x] \in {"write", "finish"} => Loading(x, t)
  /\ pc[x] = "finish" /\ loc[x].src.form # "short" =>
       image[loc[x].working] = loc[x].src.image
  /\ pc[x] = "update" =>
       /\ t \in Tables /\ x = OwnerOf[t]
       /\ reg[t].LoadPending /\ reg[t].LoadInProgress # None /\ Unread(t)
  /\ pc[x] = "validate" =>
       /\ t \in Tables /\ x = OwnerOf[t] /\ loc[x].idx \in {0, 1}
       /\ loc[x].idx = 1 => reg[t].ValidateInactiveIndex # None
       /\ loc[x].idx = 0 => reg[t].ValidateActiveIndex # None
       /\ loc[x].idx = 1 /\ loc[x].ok => image[Working(t)] \in Valid

(* Table Services is inside CFE_TBL_LoadCmd.                               *)
ReadOK ==
  LET t == loc[TBL].t IN
  /\ pc[TBL] \in {"idle", "read"}
  /\ pc[TBL] = "read" =>
       /\ t \in GroundLoads /\ loc[TBL].src \in SourcesOf[t]
       /\ reg[t].TableLoadedOnce /\ reg[t].LoadInProgress # None
       /\ ~reg[t].LoadPending
       /\ reg[t].ValidateActiveIndex = None /\ reg[t].ValidateInactiveIndex = None
       /\ loc[TBL].working = Working(t)

RegOK(t) ==
  /\ reg[t].LoadInProgress \in
       IF t \in DoubleBuffered THEN {None, 1 - reg[t].ActiveBufferIndex}
                               ELSE Loads \cup {None}
  /\ ~reg[t].TableLoadedOnce =>
       /\ reg[t].LoadInProgress = None
       /\ reg[t].ValidateActiveIndex = None /\ reg[t].ValidateInactiveIndex = None
  /\ reg[t].LoadPending =>
       /\ reg[t].LoadInProgress # None
       /\ reg[t].ValidateActiveIndex = None /\ reg[t].ValidateInactiveIndex = None
  /\ t \notin GroundLoads =>
       reg[t].ValidateActiveIndex = None /\ reg[t].ValidateInactiveIndex = None
  /\ reg[t].ValidateActiveIndex = None \/ reg[t].ValidateInactiveIndex = None
  /\ reg[t].ValidateInactiveIndex # None =>
       t \in DoubleBuffered \/ reg[t].LoadInProgress # None

(* The image of a load that may be activated, or is, has been validated.    *)
ImagesOK(t) ==
  /\ reg[t].TableLoadedOnce => image[Active(t)] \in Valid
  /\ reg[t].LoadPending => image[Working(t)] \in Valid
  /\ t \in GroundLoads /\ reg[t].LoadInProgress # None
       /\ ~(pc[TBL] = "read" /\ loc[TBL].t = t) /\ validated[Working(t)]
     => image[Working(t)] \in Valid

DescOK(h) ==
  LET t == h[2] IN
  /\ desc[h].LockFlag => h \in Readers
  /\ t \notin DoubleBuffered => desc[h].BufferIndex = 0
  /\ held[h] # NULL => desc[h].LockFlag
  /\ held[h] \notin {NULL, Overtaken} =>
       /\ reg[t].TableLoadedOnce
       /\ held[h] = image[<<t, desc[h].BufferIndex>>]
       /\ desc[h].Updated \/ desc[h].BufferIndex = reg[t].ActiveBufferIndex
       /\ reg[t].LoadInProgress # None =>
            desc[h].BufferIndex = reg[t].ActiveBufferIndex

LoadsOK ==
  /\ \A i \in Loads : taken[i] <=>
       \E t \in Tables \ DoubleBuffered : reg[t].LoadInProgress = i
  /\ \A t, u \in Tables \ DoubleBuffered :
       reg[t].LoadInProgress # None /\ reg[t].LoadInProgress = reg[u].LoadInProgress
         => t = u

Refers(t, i) == reg[t].ValidateActiveIndex = i \/ reg[t].ValidateInactiveIndex = i

ResultsOK ==
  /\ \A i \in Slots : results[i] = "pending" <=> \E t \in Tables : Refers(t, i)
  /\ \A i \in Slots : \A t, u \in Tables : Refers(t, i) /\ Refers(u, i) => t = u

TasksOK == (\A a \in Apps : AppOK(a)) /\ ReadOK

LoadInv ==
  /\ TypeOK /\ TasksOK /\ LoadsOK /\ ResultsOK
  /\ \A t \in Tables : RegOK(t)
  /\ \A h \in Access : DescOK(h)

ImageInv == \A t \in Checked : ImagesOK(t)

-----------------------------------------------------------------------------
(* No other task moves and no other table is touched by a step of task x    *)
(* on table t.                                                              *)
Others(x, t) ==
  /\ \A y \in Tasks \ {x} : pc'[y] = pc[y] /\ loc'[y] = loc[y]
  /\ \A u \in Tables \ {t} :
       /\ reg'[u] = reg[u]
       /\ image'[<<u, 0>>] = image[<<u, 0>>] /\ image'[<<u, 1>>] = image[<<u, 1>>]
       /\ reg[u].LoadInProgress # None =>
            /\ image'[Working(u)] = image[Working(u)]
            /\ validated'[Working(u)] = validated[Working(u)]
  /\ \A h \in Access : h[2] # t => desc'[h] = desc[h] /\ held'[h] = held[h]

(* What a record of each kind holds.                                        *)
LEMMA RegFields ==
  ASSUME TypeOK, NEW t \in Tables
  PROVE  /\ reg[t] \in RegistryRec
         /\ reg[t].ActiveBufferIndex \in {0, 1}
         /\ reg[t].LoadInProgress \in Loads \cup {0, 1, None}
         /\ reg[t].LoadPending \in BOOLEAN /\ reg[t].TableLoadedOnce \in BOOLEAN
         /\ reg[t].ValidateActiveIndex \in Slots \cup {None}
         /\ reg[t].ValidateInactiveIndex \in Slots \cup {None}
  BY DEF TypeOK, RegistryRec

(* Assignments to the fields of a registry record.                          *)
LEMMA RegSet ==
  ASSUME TypeOK, NEW t \in Tables, NEW r \in RegistryRec, reg' = [reg EXCEPT ![t] = r]
  PROVE  /\ reg' \in [Tables -> RegistryRec] /\ reg'[t] = r
         /\ \A u \in Tables \ {t} : reg'[u] = reg[u]
  BY DEF TypeOK

(* A table is in its active buffer, and in its working buffer while it is   *)
(* loaded.                                                                  *)
LEMMA TableBuffers ==
  ASSUME TypeOK, NEW t \in Tables, RegOK(t)
  PROVE  /\ Active(t) \in {<<t, 0>>, <<t, 1>>} /\ Active(t) \in Buffers
         /\ t \in DoubleBuffered => Working(t) \in {<<t, 0>>, <<t, 1>>}
         /\ Working(t) # Active(t)
         /\ reg[t].LoadInProgress # None \/ t \in DoubleBuffered => Working(t) \in Buffers
         /\ Working(t) \in Buffers => reg[t].LoadInProgress # None \/ t \in DoubleBuffered
         /\ <<t, 0>> \in Buffers /\ <<t, 1>> \in Buffers
<1>1. reg[t].ActiveBufferIndex \in {0, 1}
  BY RegFields
<1>2. Active(t) \in {<<t, 0>>, <<t, 1>>} /\ Inactive(t) \in {<<t, 0>>, <<t, 1>>}
      /\ Inactive(t) # Active(t)
  BY <1>1 DEF Active, Inactive
<1>3. <<t, 0>> \in Buffers /\ <<t, 1>> \in Buffers
  BY DEF Buffers
<1>4. ASSUME t \notin DoubleBuffered
      PROVE  Working(t) = LoadBuff(reg[t].LoadInProgress)
             /\ reg[t].LoadInProgress \in Loads \cup {None}
  BY <1>4 DEF Working, RegOK
<1>5. None \notin Loads
  BY TableAssumption DEF None, Loads
<1>6. ASSUME NEW i, LoadBuff(i) \in Buffers PROVE i \in Loads
  BY <1>6, TableAssumption DEF Buffers, LoadBuff
<1>7. ASSUME NEW i \in Loads PROVE LoadBuff(i) \in Buffers
  BY DEF Buffers
<1>8. \A i : LoadBuff(i) \notin {<<t, 0>>, <<t, 1>>}
  BY TableAssumption DEF LoadBuff
<1> QED
  BY <1>2, <1>3, <1>4, <1>5, <1>6, <1>7, <1>8 DEF Working

(* The buffers of two tables differ.                                        *)
LEMMA BuffersApart ==
  ASSUME TypeOK, LoadsOK, NEW t \in Tables, NEW u \in Tables, t # u,
         RegOK(t), RegOK(u), reg[u].LoadInProgress # None
  PROVE  /\ Working(u) \notin {<<t, 0>>, <<t, 1>>}
         /\ reg[t].LoadInProgress # None => Working(u) # Working(t)
         /\ \A i \in Loads : ~taken[i] => Working(u) # LoadBuff(i)
<1>1. \A i : LoadBuff(i) \notin {<<t, 0>>, <<t, 1>>, <<u, 0>>, <<u, 1>>}
  BY TableAssumption DEF LoadBuff
<1>2. \A i, j : LoadBuff(i) = LoadBuff(j) => i = j
  BY DEF LoadBuff
<1>3. ASSUME u \in DoubleBuffered PROVE Working(u) \in {<<u, 0>>, <<u, 1>>}
  BY <1>3, TableBuffers
<1>4. ASSUME t \in DoubleBuffered PROVE Working(t) \in {<<t, 0>>, <<t, 1>>}
  BY <1>4, TableBuffers
<1>5. ASSUME u \notin DoubleBuffered PROVE Working(u) = LoadBuff(reg[u].LoadInProgress)
  BY <1>5 DEF Working
<1>6. ASSUME t \notin DoubleBuffered PROVE Working(t) = LoadBuff(reg[t].LoadInProgress)
  BY <1>6 DEF Working
<1>7. {<<u, 0>>, <<u, 1>>} \cap {<<t, 0>>, <<t, 1>>} = {}
  OBVIOUS
<1>8. ASSUME t \notin DoubleBuffered, u \notin DoubleBuffered
      PROVE  reg[t].LoadInProgress # reg[u].LoadInProgress
  BY <1>8 DEF LoadsOK
<1>9. ASSUME u \notin DoubleBuffered, NEW i \in Loads, ~taken[i]
      PROVE  reg[u].LoadInProgress # i
  BY <1>9 DEF LoadsOK
<1> QED
  BY <1>1, <1>2, <1>3, <1>4, <1>5, <1>6, <1>7, <1>8, <1>9

(* What a step of task x on table t leaves true of the other tables, of     *)
(* their users, and of the tasks that are busy with them or with nothing.   *)
LEMMA OtherTables ==
  ASSUME LoadInv, NEW x \in Tasks, NEW t \in Tables, Others(x, t)
  PROVE  /\ \A u \in Tables \ {t} : RegOK(u)'
         /\ \A h \in Access : h[2] # t => DescOK(h)'
         /\ \A y \in Apps \ {x} : loc[y].t # t \/ pc[y] = "idle" => AppOK(y)'
         /\ x # TBL /\ (loc[TBL].t # t \/ pc[TBL] = "idle") => ReadOK'
<1> USE DEF Others
<1>1. ASSUME NEW u \in Tables \ {t} PROVE RegOK(u)'
  <2>1. RegOK(u) /\ reg'[u] = reg[u]
    BY <1>1 DEF LoadInv
  <2> QED
    BY <2>1 DEF RegOK
<1>2. ASSUME NEW u \in Tables \ {t}
      PROVE  Active(u)' = Active(u) /\ Working(u)' = Working(u)
  BY <1>2 DEF Active, Working, Inactive
<1>3. ASSUME NEW u \in Tables \ {t}, NEW k \in {0, 1}
      PROVE  image'[<<u, k>>] = image[<<u, k>>]
  BY <1>3
<1>4. ASSUME NEW h \in Access, h[2] # t PROVE DescOK(h)'
  <2>1. h[2] \in Tables \ {t} /\ DescOK(h)
    BY <1>4, TableAssumption DEF LoadInv
  <2>2. desc[h].BufferIndex \in {0, 1}
    BY DEF LoadInv, TypeOK, AccessDescriptor
  <2>3. image'[<<h[2], desc[h].BufferIndex>>] = image[<<h[2], desc[h].BufferIndex>>]
    BY <1>3, <2>1, <2>2
  <2>4. desc'[h] = desc[h] /\ held'[h] = held[h] /\ reg'[h[2]] = reg[h[2]]
    BY <1>4, <2>1
  <2> QED
    BY <2>1, <2>3, <2>4 DEF DescOK
<1>5. ASSUME NEW u \in Tables \ {t}, u \in DoubleBuffered \/ reg[u].LoadInProgress # None
      PROVE  image'[Working(u)] = image[Working(u)]
  BY <1>3, <1>5, TableBuffers DEF LoadInv
<1>6. ASSUME NEW u \in Tables \ {t} PROVE image'[Active(u)] = image[Active(u)]
  BY <1>3, <1>6, TableBuffers DEF LoadInv
<1>7. ASSUME NEW u \in Tables \ {t} PROVE Unread(u)' = Unread(u)
  BY <1>7, TableAssumption DEF Unread, UsersOf
<1>8. ASSUME NEW y \in Apps \ {x}, loc[y].t # t \/ pc[y] = "idle" PROVE AppOK(y)'
  <2>1. pc'[y] = pc[y] /\ loc'[y] = loc[y] /\ AppOK(y)
    BY DEF LoadInv, TasksOK, Tasks
  <2>2. CASE pc[y] = "idle"
    BY <2>1, <2>2 DEF AppOK
  <2>3. CASE pc[y] # "idle" /\ loc[y].t # t
    <3> PICK u : u = loc[y].t
      OBVIOUS
    <3>1. pc[y] \in {"lock", "index"} => <<y, u>> \in Readers
      BY <2>1 DEF AppOK
    <3>2. u \in Tables
      BY <2>1, <2>3, <3>1, TableAssumption DEF AppOK, Loading, LoadInv, TypeOK, Steps, Tasks
    <3>3. <<y, u>> \in Readers => desc'[<<y, u>>] = desc[<<y, u>>] /\ held'[<<y, u>>] = held[<<y, u>>]
      BY <2>3, TableAssumption
    <3>4. pc[y] \in {"write", "finish"} => Loading(y, u)'
      <4>1. reg'[u] = reg[u]
        BY <2>3, <3>2
      <4> QED
        BY <1>2, <2>1, <2>3, <3>2, <4>1 DEF AppOK, Loading
    <3>5. pc[y] = "finish" => image'[loc[y].working] = image[loc[y].working]
      BY <1>5, <1>6, <2>1, <2>3, <3>2 DEF AppOK, Loading
    <3>6. pc[y] = "validate" /\ loc[y].idx = 1 =>
            image'[Working(u)'] = image[Working(u)]
      <4>1. RegOK(u)
        BY <3>2 DEF LoadInv
      <4> QED
        BY <1>2, <1>5, <2>1, <2>3, <3>2, <4>1 DEF AppOK, RegOK
    <3>7. reg'[u] = reg[u] /\ Unread(u)' = Unread(u)
      BY <1>7, <2>3, <3>2
    <3> QED
      BY <2>1, <3>1, <3>2, <3>3, <3>4, <3>5, <3>6, <3>7 DEF AppOK
  <2> QED
    BY <1>8, <2>2, <2>3
<1>9. ASSUME x # TBL, loc[TBL].t # t \/ pc[TBL] = "idle" PROVE ReadOK'
  <2>1. pc'[TBL] = pc[TBL] /\ loc'[TBL] = loc[TBL] /\ ReadOK
    BY <1>9 DEF LoadInv, TasksOK, Tasks
  <2>2. CASE pc[TBL] = "idle"
    BY <2>1, <2>2 DEF ReadOK
  <2>3. CASE pc[TBL] # "idle" /\ loc[TBL].t # t
    <3> PICK u : u = loc[TBL].t
      OBVIOUS
    <3>1. u \in Tables \ {t}
      BY <2>1, <2>3, TableAssumption DEF ReadOK
    <3> QED
      BY <1>2, <2>1, <3>1 DEF ReadOK
  <2> QED
    BY <1>9, <2>2, <2>3
<1> QED
  BY <1>1, <1>4, <1>8, <1>9

(* What is left to show of a step of task x on table t.                     *)
LEMMA StepOn ==
  ASSUME LoadInv, NEW x \in Tasks, NEW t \in Tables, Others(x, t),
         TypeOK', LoadsOK', ResultsOK', RegOK(t)',
         \A h \in Access : h[2] = t => DescOK(h)',
         \A y \in Apps : y = x \/ (loc[y].t = t /\ pc[y] # "idle") => AppOK(y)',
         x = TBL \/ (pc[TBL] # "idle" /\ loc[TBL].t = t) => ReadOK'
  PROVE  LoadInv'
<1>1. \A u \in Tables : RegOK(u)'
  BY OtherTables
<1>2. \A h \in Access : DescOK(h)'
  BY OtherTables
<1>3. \A y \in Apps : AppOK(y)'
  BY OtherTables
<1>4. ReadOK'
  BY OtherTables
<1> QED
  BY <1>1, <1>2, <1>3, <1>4 DEF LoadInv, TasksOK

(* An address in use is locked, so a table without a lock is not in use.    *)
LEMMA NotLockedUnread ==
  ASSUME LoadInv, NEW t \in Tables, NotLocked(t)
  PROVE  Unread(t)
<1>1. ASSUME NEW h \in UsersOf(t), ~desc[h].LockFlag PROVE held[h] = NULL
  BY <1>1 DEF LoadInv, DescOK, UsersOf
<1> QED
  BY <1>1 DEF NotLocked, Unread

(* A call for an address changes the caller's descriptor only.              *)
LEMMA ReaderStep ==
  ASSUME LoadInv, Coordinated, NEW a \in Apps, NEW t \in Tables, <<a, t>> \in Access,
         UNCHANGED <<reg, image, validated, taken, results>>,
         \A y \in Tasks \ {a} : pc'[y] = pc[y] /\ loc'[y] = loc[y],
         \A h \in Access \ {<<a, t>>} : desc'[h] = desc[h] /\ held'[h] = held[h],
         AboutToCopy(t) => held'[<<a, t>>] \in {NULL, Overtaken},
         TypeOK', DescOK(<<a, t>>)', AppOK(a)'
  PROVE  LoadInv'
<1>1. Others(a, t)
  BY DEF Others
<1>2. LoadsOK' /\ ResultsOK' /\ RegOK(t)'
  <2>1. LoadsOK /\ ResultsOK /\ RegOK(t)
    BY DEF LoadInv
  <2> QED
    BY <2>1 DEF LoadsOK, ResultsOK, RegOK, Refers
<1>3. Active(t)' = Active(t) /\ Working(t)' = Working(t)
  BY DEF Active, Working, Inactive
<1>4. ASSUME NEW h \in Access, h # <<a, t>> PROVE DescOK(h)'
  <2>1. DescOK(h) /\ desc'[h] = desc[h] /\ held'[h] = held[h]
    BY <1>4 DEF LoadInv
  <2> QED
    BY <2>1 DEF DescOK
<1>5. ASSUME NEW y \in Apps \ {a}, loc[y].t = t PROVE AppOK(y)'
  <2>1. pc'[y] = pc[y] /\ loc'[y] = loc[y] /\ AppOK(y)
    BY DEF LoadInv, TasksOK, Tasks
  <2>2. <<y, t>> \in Readers =>
          desc'[<<y, t>>] = desc[<<y, t>>] /\ held'[<<y, t>>] = held[<<y, t>>]
    BY TableAssumption
  <2>3. pc[y] = "update" /\ Unread(t) => Unread(t)'
    BY <1>5 DEF Unread, UsersOf, AboutToCopy
  <2>4. pc[y] \in {"write", "finish"} => Loading(y, t)'
    BY <1>3, <1>5, <2>1 DEF AppOK, Loading
  <2> QED
    BY <1>3, <1>5, <2>1, <2>2, <2>3, <2>4 DEF AppOK
<1>6. ReadOK'
  <2>1. pc'[TBL] = pc[TBL] /\ loc'[TBL] = loc[TBL] /\ ReadOK
    BY TableAssumption DEF LoadInv, TasksOK, Tasks
  <2> QED
    BY <2>1 DEF ReadOK, Working, Inactive
<1>7. a \in Tasks
  BY DEF Tasks
<1> QED
  BY <1>1, <1>2, <1>4, <1>5, <1>6, <1>7, StepOn

(* A task goes on to a step with the locals l.                              *)
LEMMA GoLemma ==
  ASSUME TypeOK, NEW x \in Tasks, NEW step \in Steps, NEW l \in Locals, Go(x, step, l)
  PROVE  /\ pc' \in [Tasks -> Steps] /\ loc' \in [Tasks -> Locals]
         /\ pc'[x] = step /\ loc'[x] = l
         /\ \A y \in Tasks \ {x} : pc'[y] = pc[y] /\ loc'[y] = loc[y]
  BY DEF Go, TypeOK

LEMMA NoLocLemma ==
  /\ NoLoc \in Locals
  /\ \A t \in Tables : LET l == [NoLoc EXCEPT !.t = t] IN l \in Locals /\ l.t = t
  BY DEF NoLoc, Locals

LEMMA DoneLemma ==
  ASSUME TypeOK, NEW x \in Tasks, Done(x)
  PROVE  /\ pc' \in [Tasks -> Steps] /\ loc' \in [Tasks -> Locals]
         /\ pc'[x] = "idle"
         /\ \A y \in Tasks \ {x} : pc'[y] = pc[y] /\ loc'[y] = loc[y]
<1>1. "idle" \in Steps
  BY DEF Steps
<1>2. NoLoc \in Locals
  BY NoLocLemma
<1>3. Go(x, "idle", NoLoc)
  BY DEF Done
<1> QED
  BY <1>1, <1>2, <1>3, GoLemma

-----------------------------------------------------------------------------
(* The calls that take and release an address.                              *)
LEMMA GetAddressInv ==
  ASSUME LoadInv, Coordinated, NEW a \in Apps, NEW t \in Tables, GetAddress(a, t)
  PROVE  LoadInv'
<1> DEFINE l == [NoLoc EXCEPT !.t = t]
<1>1. l \in Locals /\ l.t = t
  BY NoLocLemma
<1> HIDE DEF l
<1>2. Go(a, "lock", l) /\ a \in Tasks /\ "lock" \in Steps
  BY DEF GetAddress, l, Tasks, Steps
<1>3. <<a, t>> \in Readers /\ <<a, t>> \in Access /\ ~desc[<<a, t>>].LockFlag
  BY TableAssumption DEF GetAddress
<1>4. /\ desc' \in [Access -> AccessDescriptor]
      /\ desc'[<<a, t>>].LockFlag
      /\ desc'[<<a, t>>].BufferIndex = desc[<<a, t>>].BufferIndex
      /\ \A h \in Access \ {<<a, t>>} : desc'[h] = desc[h]
  BY <1>3 DEF GetAddress, LoadInv, TypeOK, AccessDescriptor
<1>5. TypeOK /\ DescOK(<<a, t>>)
  BY <1>3 DEF LoadInv
<1>6. /\ pc' \in [Tasks -> Steps] /\ loc' \in [Tasks -> Locals]
      /\ pc'[a] = "lock" /\ loc'[a] = l
      /\ \A y \in Tasks \ {a} : pc'[y] = pc[y] /\ loc'[y] = loc[y]
  BY <1>1, <1>2, <1>5, GoLemma
<1>7. UNCHANGED <<reg, image, validated, taken, held, results>>
  BY DEF GetAddress
<1>8. TypeOK'
  BY <1>4, <1>5, <1>6, <1>7 DEF TypeOK
<1>9. held[<<a, t>>] = NULL
  BY <1>3, <1>5 DEF DescOK
<1>10. DescOK(<<a, t>>)'
  BY <1>3, <1>4, <1>5, <1>7, <1>9 DEF DescOK
<1>11. AppOK(a)'
  BY <1>1, <1>3, <1>4, <1>6, <1>7, <1>9 DEF AppOK
<1> QED
  BY <1>3, <1>4, <1>6, <1>7, <1>8, <1>9, <1>10, <1>11, ReaderStep

LEMMA GetAddressIndexInv ==
  ASSUME LoadInv, Coordinated, NEW a \in Apps, GetAddressIndex(a)
  PROVE  LoadInv'
<1> PICK t : t = loc[a].t
  OBVIOUS
<1> DEFINE l == [loc[a] EXCEPT !.idx = reg[t].ActiveBufferIndex]
<1>1. a \in Tasks /\ TypeOK /\ AppOK(a) /\ pc[a] = "lock" /\ "index" \in Steps
  BY DEF GetAddressIndex, LoadInv, TasksOK, Tasks, Steps
<1>2. <<a, t>> \in Readers /\ <<a, t>> \in Access /\ t \in Tables
  BY <1>1, TableAssumption DEF AppOK
<1>3. l \in Locals /\ l.t = t /\ l.idx = reg[t].ActiveBufferIndex
  <2>1. reg[t].ActiveBufferIndex \in {0, 1}
    BY <1>1, <1>2, RegFields
  <2>2. loc[a] \in Locals
    BY <1>1 DEF TypeOK
  <2> QED
    BY <2>1, <2>2 DEF Locals
<1>4. Go(a, "index", l) /\ UNCHANGED <<reg, image, validated, taken, desc, held, results>>
  BY DEF GetAddressIndex
<1> HIDE DEF l
<1>5. /\ pc' \in [Tasks -> Steps] /\ loc' \in [Tasks -> Locals]
      /\ pc'[a] = "index" /\ loc'[a] = l
      /\ \A y \in Tasks \ {a} : pc'[y] = pc[y] /\ loc'[y] = loc[y]
  BY <1>1, <1>3, <1>4, GoLemma
<1>6. TypeOK'
  BY <1>1, <1>4, <1>5 DEF TypeOK
<1>7. DescOK(<<a, t>>)'
  <2>1. DescOK(<<a, t>>)
    BY <1>2 DEF LoadInv
  <2> QED
    BY <1>4, <2>1 DEF DescOK
<1>8. AppOK(a)'
  <2>1. t \notin DoubleBuffered => l.idx = 0
    BY <1>1, <1>2, <1>3 DEF TypeOK
  <2>2. l.idx \in {0, 1}
    BY <1>1, <1>2, <1>3, RegFields
  <2> QED
    BY <1>1, <1>2, <1>3, <1>4, <1>5, <2>1, <2>2 DEF AppOK
<1>9. held'[<<a, t>>] = NULL
  BY <1>1, <1>4 DEF AppOK
<1> QED
  BY <1>2, <1>4, <1>5, <1>6, <1>7, <1>8, <1>9, ReaderStep

LEMMA GetAddressStoreInv ==
  ASSUME LoadInv, Coordinated, NEW a \in Apps, GetAddressStore(a)
  PROVE  LoadInv'
<1> PICK t, i : t = loc[a].t /\ i = loc[a].idx
  OBVIOUS
<1>1. a \in Tasks /\ TypeOK /\ AppOK(a) /\ pc[a] = "index"
  BY DEF GetAddressStore, LoadInv, TasksOK, Tasks
<1>2. /\ <<a, t>> \in Readers /\ <<a, t>> \in Access /\ t \in Tables
      /\ desc[<<a, t>>].LockFlag /\ i \in {0, 1}
      /\ t \notin DoubleBuffered => i = 0
  BY <1>1, TableAssumption, RegFields DEF AppOK
<1>3. Taken(a, t, i)
  BY DEF GetAddressStore
<1>4. /\ desc' \in [Access -> AccessDescriptor]
      /\ desc'[<<a, t>>].LockFlag /\ desc'[<<a, t>>].BufferIndex = i
      /\ \A h \in Access \ {<<a, t>>} : desc'[h] = desc[h]
  <2> DEFINE h == <<a, t>>
             d == [desc[h] EXCEPT !.BufferIndex = i, !.Updated = FALSE]
  <2>1. desc[h] \in AccessDescriptor
    BY <1>1, <1>2 DEF TypeOK
  <2>2. d \in AccessDescriptor /\ d.LockFlag /\ d.BufferIndex = i
    BY <1>2, <2>1 DEF AccessDescriptor
  <2>3. desc' = [desc EXCEPT ![h].BufferIndex = i, ![h].Updated = FALSE]
    BY <1>3 DEF Taken
  <2>4. desc' = [desc EXCEPT ![h] = d]
    BY <1>1, <1>2, <2>3 DEF TypeOK
  <2> HIDE DEF d
  <2> QED
    BY <1>1, <1>2, <2>2, <2>4 DEF TypeOK
<1>5. PICK v : /\ held' = [held EXCEPT ![<<a, t>>] = v]
               /\ v = IF ~reg[t].TableLoadedOnce THEN NULL
                      ELSE IF i # reg[t].ActiveBufferIndex \/ AboutToCopy(t)
                      THEN Overtaken ELSE image[<<t, i>>]
  BY <1>3 DEF Taken
<1>6. v \in Images \cup {NULL, Overtaken}
  BY <1>1, <1>2, <1>5 DEF TypeOK, Buffers
<1>7. /\ held' \in [Access -> Images \cup {NULL, Overtaken}] /\ held'[<<a, t>>] = v
      /\ \A h \in Access \ {<<a, t>>} : held'[h] = held[h]
  BY <1>1, <1>2, <1>5, <1>6 DEF TypeOK
<1>8. UNCHANGED <<reg, image, validated, taken, results>> /\ Done(a)
  BY <1>3 DEF Taken
<1>9. /\ pc' \in [Tasks -> Steps] /\ loc' \in [Tasks -> Locals] /\ pc'[a] = "idle"
      /\ \A y \in Tasks \ {a} : pc'[y] = pc[y] /\ loc'[y] = loc[y]
  BY <1>1, <1>8, DoneLemma
<1>10. TypeOK'
  BY <1>1, <1>4, <1>7, <1>8, <1>9 DEF TypeOK
<1>11. AboutToCopy(t) => held'[<<a, t>>] \in {NULL, Overtaken}
  BY <1>5, <1>7
<1>12. DescOK(<<a, t>>)'
  BY <1>2, <1>4, <1>5, <1>7, <1>8 DEF DescOK
<1>13. AppOK(a)'
  BY <1>9 DEF AppOK
<1> QED
  BY <1>2, <1>4, <1>7, <1>8, <1>9, <1>10, <1>11, <1>12, <1>13, ReaderStep

LEMMA ReleaseAddressInv ==
  ASSUME LoadInv, Coordinated, NEW a \in Apps, NEW t \in Tables, ReleaseAddress(a, t)
  PROVE  LoadInv'
<1>1. TypeOK /\ AppOK(a) /\ pc[a] = "idle" /\ <<a, t>> \in Access
  BY TableAssumption DEF ReleaseAddress, LoadInv, TasksOK
<1>2. /\ desc' \in [Access -> AccessDescriptor]
      /\ ~desc'[<<a, t>>].LockFlag
      /\ desc'[<<a, t>>].BufferIndex = desc[<<a, t>>].BufferIndex
      /\ \A h \in Access \ {<<a, t>>} : desc'[h] = desc[h]
  BY <1>1 DEF ReleaseAddress, TypeOK, AccessDescriptor
<1>3. /\ held' \in [Access -> Images \cup {NULL, Overtaken}] /\ held'[<<a, t>>] = NULL
      /\ \A h \in Access \ {<<a, t>>} : held'[h] = held[h]
  BY <1>1 DEF ReleaseAddress, TypeOK
<1>4. UNCHANGED <<reg, image, validated, taken, results, pc, loc>>
  BY DEF ReleaseAddress
<1>5. TypeOK'
  BY <1>1, <1>2, <1>3, <1>4 DEF TypeOK
<1>6. DescOK(<<a, t>>)'
  <2>1. DescOK(<<a, t>>)
    BY <1>1 DEF LoadInv
  <2> QED
    BY <1>2, <1>3, <1>4, <2>1 DEF DescOK
<1>7. AppOK(a)'
  BY <1>1, <1>4 DEF AppOK
<1> QED
  BY <1>1, <1>2, <1>3, <1>4, <1>5, <1>6, <1>7, ReaderStep

(* CFE_TBL_Modified only sets Updated flags.                                *)
LEMMA ModifiedInv ==
  ASSUME LoadInv, NEW a \in Apps, NEW t \in Tables, Modified(a, t)
  PROVE  LoadInv'
<1>1. UNCHANGED <<reg, image, validated, taken, held, results, pc, loc>>
  BY DEF Modified
<1>2. \A h \in Access : /\ desc'[h] \in AccessDescriptor
                        /\ desc'[h].LockFlag = desc[h].LockFlag
                        /\ desc'[h].BufferIndex = desc[h].BufferIndex
                        /\ desc[h].Updated => desc'[h].Updated
  BY DEF Modified, LoadInv, TypeOK, AccessDescriptor
<1>3. desc' \in [Access -> AccessDescriptor]
  BY <1>2 DEF Modified
<1>4. TypeOK'
  BY <1>1, <1>3 DEF TypeOK, LoadInv
<1>5. LoadsOK' /\ ResultsOK' /\ \A u \in Tables : RegOK(u)'
  <2>1. LoadsOK /\ ResultsOK /\ \A u \in Tables : RegOK(u)
    BY DEF LoadInv
  <2>2. LoadsOK' /\ ResultsOK'
    BY <1>1, <2>1 DEF LoadsOK, ResultsOK, Refers
  <2> QED
    BY <1>1, <2>1, <2>2 DEF RegOK
<1>6. ASSUME NEW h \in Access PROVE DescOK(h)'
  <2>1. DescOK(h)
    BY DEF LoadInv
  <2> QED
    BY <1>1, <1>2, <2>1 DEF DescOK
<1>7. ASSUME NEW y \in Apps PROVE AppOK(y)'
  <2>1. AppOK(y)
    BY DEF LoadInv, TasksOK
  <2>2. \A u : Active(u)' = Active(u) /\ Working(u)' = Working(u)
    BY <1>1 DEF Active, Working, Inactive
  <2>3. \A u : Unread(u) => Unread(u)'
    BY <1>1 DEF Unread, UsersOf
  <2>4. \A u : Loading(y, u) => Loading(y, u)'
    BY <1>1, <2>2 DEF Loading
  <2>5. \A h \in Readers : desc[h].LockFlag => desc'[h].LockFlag
    BY <1>2, TableAssumption
  <2> QED
    BY <1>1, <2>1, <2>2, <2>3, <2>4, <2>5 DEF AppOK
<1>8. ReadOK'
  <2>1. ReadOK
    BY DEF LoadInv, TasksOK
  <2> QED
    BY <1>1, <2>1 DEF ReadOK, Working, Inactive
<1> QED
  BY <1>4, <1>5, <1>6, <1>7, <1>8 DEF LoadInv, TasksOK

-----------------------------------------------------------------------------
(* Loads, updates and validations.                                          *)

(* A step that only moves task x.                                           *)
LEMMA QuietStep ==
  ASSUME LoadInv, NEW x \in Tasks,
         UNCHANGED <<reg, image, validated, taken, desc, held, results>>,
         pc' \in [Tasks -> Steps], loc' \in [Tasks -> Locals],
         \A y \in Tasks \ {x} : pc'[y] = pc[y] /\ loc'[y] = loc[y],
         x \in Apps => AppOK(x)', x = TBL => ReadOK'
  PROVE  LoadInv'
<1>1. TypeOK'
  BY DEF TypeOK, LoadInv
<1>2. LoadsOK' /\ ResultsOK'
  BY DEF LoadsOK, ResultsOK, Refers, LoadInv
<1>3. ASSUME NEW u \in Tables PROVE RegOK(u)'
  <2>1. RegOK(u)
    BY DEF LoadInv
  <2> QED
    BY <2>1 DEF RegOK
<1>4. ASSUME NEW h \in Access PROVE DescOK(h)'
  <2>1. DescOK(h)
    BY DEF LoadInv
  <2> QED
    BY <2>1 DEF DescOK
<1>5. \A u : Active(u)' = Active(u) /\ Working(u)' = Working(u) /\ Unread(u)' = Unread(u)
  BY DEF Active, Working, Inactive, Unread, UsersOf
<1>6. ASSUME NEW y \in Apps PROVE AppOK(y)'
  <2>1. CASE y = x
    BY <2>1
  <2>2. CASE y # x
    <3>1. AppOK(y) /\ pc'[y] = pc[y] /\ loc'[y] = loc[y]
      BY <2>2 DEF LoadInv, TasksOK, Tasks
    <3>2. \A u : Loading(y, u) => Loading(y, u)'
      BY <1>5, <3>1 DEF Loading
    <3> QED
      BY <1>5, <3>1, <3>2 DEF AppOK
  <2> QED
    BY <2>1, <2>2
<1>7. ReadOK'
  <2>1. CASE x = TBL
    BY <2>1
  <2>2. CASE x # TBL
    <3>1. ReadOK /\ pc'[TBL] = pc[TBL] /\ loc'[TBL] = loc[TBL]
      BY <2>2 DEF LoadInv, TasksOK, Tasks
    <3> QED
      BY <1>5, <3>1 DEF ReadOK
  <2> QED
    BY <2>1, <2>2
<1> QED
  BY <1>1, <1>2, <1>3, <1>4, <1>6, <1>7 DEF LoadInv, TasksOK

(* The part of GetWorkingBuffer that starts a load of t into the buffer b.  *)
Takes(t, i, b) ==
  /\ b = IF t \in DoubleBuffered THEN <<t, i>> ELSE LoadBuff(i)
  /\ IF t \in DoubleBuffered
       THEN /\ i = 1 - reg[t].ActiveBufferIndex /\ ~InactiveInUse(t)
            /\ UNCHANGED taken
       ELSE /\ i \in Loads /\ ~taken[i]
            /\ taken' = [taken EXCEPT ![i] = TRUE]
  /\ reg' = [reg EXCEPT ![t].LoadInProgress = i]
  /\ image' = [image EXCEPT ![b] = image[Active(t)]]

(* A step that starts a load of table t into the buffer b.                  *)
LEMMA TakeBuffer ==
  ASSUME LoadInv, Coordinated, NEW x \in Tasks, NEW t \in Tables, NEW i, NEW b,
         reg[t].LoadInProgress = None, reg[t].TableLoadedOnce,
         reg[t].ValidateActiveIndex = None, reg[t].ValidateInactiveIndex = None,
         Takes(t, i, b),
         UNCHANGED <<validated, desc, held, results>>,
         pc' \in [Tasks -> Steps], loc' \in [Tasks -> Locals],
         \A y \in Tasks \ {x} : pc'[y] = pc[y] /\ loc'[y] = loc[y],
         loc'[x].t = t /\ loc'[x].working = b /\ loc'[x].src \in SourcesOf[t],
         \/ pc'[x] = "write" /\ x = OwnerOf[t] /\ t \in Reloads /\ x \in Apps
         \/ pc'[x] = "read" /\ x = TBL /\ t \in GroundLoads
  PROVE  /\ LoadInv' /\ Others(x, t) /\ Working(t)' = b /\ b \in Buffers
         /\ image'[Active(t)] = image[Active(t)] /\ Active(t)' = Active(t)
         /\ reg'[t].LoadInProgress # None /\ ~reg'[t].LoadPending
<1>1. /\ TypeOK /\ LoadsOK /\ ResultsOK /\ \A u \in Tables : RegOK(u)
      /\ \A h \in Access : DescOK(h)
  BY DEF LoadInv
<1>a. /\ b = IF t \in DoubleBuffered THEN <<t, i>> ELSE LoadBuff(i)
      /\ IF t \in DoubleBuffered
           THEN i = 1 - reg[t].ActiveBufferIndex /\ ~InactiveInUse(t)
           ELSE i \in Loads /\ ~taken[i]
  BY DEF Takes
<1>2. i # None /\ i \in Loads \cup {0, 1} /\ None \notin Loads
      /\ reg[t].ActiveBufferIndex \in {0, 1}
  BY <1>1, <1>a, RegFields, TableAssumption DEF None, Loads
<1>3. /\ reg' \in [Tables -> RegistryRec]
      /\ reg'[t].LoadInProgress = i
      /\ reg'[t].ActiveBufferIndex = reg[t].ActiveBufferIndex
      /\ reg'[t].LoadPending = reg[t].LoadPending
      /\ reg'[t].TableLoadedOnce = reg[t].TableLoadedOnce
      /\ reg'[t].ValidateActiveIndex = reg[t].ValidateActiveIndex
      /\ reg'[t].ValidateInactiveIndex = reg[t].ValidateInactiveIndex
      /\ \A u \in Tables \ {t} : reg'[u] = reg[u]
  <2>1. i \in Loads \cup {0, 1, None}
    BY <1>2
  <2> QED
    <3> DEFINE r == [reg[t] EXCEPT !.LoadInProgress = i]
    <3>1. reg[t] \in RegistryRec /\ TypeOK
      BY <1>1, RegFields
    <3>2. /\ r \in RegistryRec /\ r.LoadInProgress = i
          /\ r.ActiveBufferIndex = reg[t].ActiveBufferIndex
          /\ r.LoadPending = reg[t].LoadPending
          /\ r.TableLoadedOnce = reg[t].TableLoadedOnce
          /\ r.ValidateActiveIndex = reg[t].ValidateActiveIndex
          /\ r.ValidateInactiveIndex = reg[t].ValidateInactiveIndex
      BY <2>1, <3>1 DEF RegistryRec
    <3>3. reg' = [reg EXCEPT ![t] = r]
      BY DEF Takes
    <3> HIDE DEF r
    <3>4. reg'[t] = r /\ reg' \in [Tables -> RegistryRec]
          /\ \A u \in Tables \ {t} : reg'[u] = reg[u]
      BY <3>1, <3>2, <3>3, RegSet
    <3> QED
      BY <3>2, <3>4
<1>4. reg' \in [Tables -> RegistryRec]
  BY <1>3
<1>5. RegOK(t)' /\ reg[t].LoadPending = FALSE
  <2>1. RegOK(t) /\ reg[t].LoadPending = FALSE
    BY <1>1, RegFields DEF RegOK
  <2>2. i \in IF t \in DoubleBuffered THEN {None, 1 - reg[t].ActiveBufferIndex}
                                      ELSE Loads \cup {None}
    BY <1>a
  <2> QED
    BY <1>2, <1>3, <2>1, <2>2 DEF RegOK
<1>6. b \in Buffers /\ Active(t) \in Buffers /\ b # Active(t) /\ Working(t)' = b
      /\ Active(t)' = Active(t)
  <2>1. Active(t) = <<t, reg[t].ActiveBufferIndex>> /\ Active(t)' = Active(t)
    BY <1>3 DEF Active
  <2>2. <<t, 0>> \in Buffers /\ <<t, 1>> \in Buffers
    BY DEF Buffers
  <2>3. CASE t \in DoubleBuffered
    BY <1>2, <1>3, <1>a, <2>1, <2>2, <2>3 DEF Working, Inactive
  <2>4. CASE t \notin DoubleBuffered
    <3>1. b = LoadBuff(i) /\ i \in Loads
      BY <1>a, <2>4
    <3>2. b \in Buffers /\ b # <<t, 0>> /\ b # <<t, 1>>
      BY <3>1, TableAssumption DEF Buffers, LoadBuff
    <3> QED
      BY <1>2, <1>3, <2>1, <2>2, <2>4, <3>1, <3>2 DEF Working
  <2> QED
    BY <2>3, <2>4
<1>7. image' \in [Buffers -> Images] /\ \A c \in Buffers \ {b} : image'[c] = image[c]
  BY <1>1, <1>6 DEF TypeOK, Takes
<1>8. taken' \in [Loads -> BOOLEAN]
  BY <1>1 DEF TypeOK, Takes
<1>9. TypeOK'
  BY <1>1, <1>3, <1>4, <1>7, <1>8 DEF TypeOK
<1>10. Others(x, t)
  <2>1. ASSUME NEW u \in Tables \ {t}
        PROVE  b # <<u, 0>> /\ b # <<u, 1>> /\ <<u, 0>> \in Buffers /\ <<u, 1>> \in Buffers
    BY <1>a, <2>1, TableAssumption DEF LoadBuff, Buffers
  <2>2. ASSUME NEW u \in Tables \ {t}, reg[u].LoadInProgress # None
        PROVE  Working(u) # b /\ Working(u) \in Buffers
    <3>1. Working(u) \in Buffers
      BY <1>1, <2>2, TableBuffers
    <3>2. /\ Working(u) \notin {<<t, 0>>, <<t, 1>>}
          /\ \A j \in Loads : ~taken[j] => Working(u) # LoadBuff(j)
      BY <1>1, <2>2, BuffersApart
    <3> QED
      BY <1>2, <1>a, <3>1, <3>2
  <2> QED
    BY <1>3, <1>7, <2>1, <2>2 DEF Others
<1>11. LoadsOK'
  <2>1. CASE t \in DoubleBuffered
    BY <1>1, <1>3, <2>1 DEF LoadsOK, Takes
  <2>2. CASE t \notin DoubleBuffered
    <3>1. \A j \in Loads : taken'[j] = IF j = i THEN TRUE ELSE taken[j]
      BY <1>1, <2>2 DEF TypeOK, Takes
    <3>2. \A u \in Tables \ DoubleBuffered : u # t => reg[u].LoadInProgress # i
      BY <1>1, <1>a, <2>2 DEF LoadsOK
    <3>3. ASSUME NEW j \in Loads
          PROVE  taken'[j] <=> \E u \in Tables \ DoubleBuffered : reg'[u].LoadInProgress = j
      <4>1. CASE j = i
        BY <1>3, <1>a, <2>2, <3>1, <4>1
      <4>2. CASE j # i
        <5>1. \A u \in Tables : reg'[u].LoadInProgress = j <=> reg[u].LoadInProgress = j
          BY <1>2, <1>3, <4>2
        <5>2. taken'[j] = taken[j]
          BY <3>1, <4>2
        <5> QED
          BY <1>1, <5>1, <5>2 DEF LoadsOK
      <4> QED
        BY <4>1, <4>2
    <3>4. \A u, v \in Tables \ DoubleBuffered :
            reg'[u].LoadInProgress # None /\ reg'[u].LoadInProgress = reg'[v].LoadInProgress
              => u = v
      BY <1>1, <1>3, <2>2, <3>2 DEF LoadsOK
    <3> QED
      BY <3>3, <3>4 DEF LoadsOK
  <2> QED
    BY <2>1, <2>2
<1>12. ResultsOK'
  <2>1. \A u \in Tables, j \in Slots : Refers(u, j)' <=> Refers(u, j)
    BY <1>3 DEF Refers
  <2> QED
    BY <1>1, <2>1 DEF ResultsOK
<1>13. ASSUME NEW h \in Access, h[2] = t PROVE DescOK(h)'
  <2>1. DescOK(h) /\ desc[h].BufferIndex \in {0, 1}
    BY <1>1 DEF TypeOK, AccessDescriptor
  <2>2. held[h] \notin {NULL, Overtaken} => desc[h].BufferIndex = reg[t].ActiveBufferIndex
    <3>1. CASE t \in DoubleBuffered
      BY <1>2, <1>13, <1>a, <2>1, <3>1 DEF DescOK, InactiveInUse, UsersOf
    <3>2. CASE t \notin DoubleBuffered
      BY <1>1, <1>13, <2>1, <3>2 DEF DescOK, TypeOK
    <3> QED
      BY <3>1, <3>2
  <2>3. image'[Active(t)] = image[Active(t)]
    BY <1>6, <1>7
  <2> QED
    BY <1>3, <1>13, <2>1, <2>2, <2>3 DEF DescOK, Active
<1>14. ASSUME NEW y \in Apps \ {x}, loc[y].t = t, pc[y] # "idle" PROVE AppOK(y)'
  <2>1. AppOK(y) /\ pc'[y] = pc[y] /\ loc'[y] = loc[y]
    BY DEF LoadInv, TasksOK, Tasks
  <2>2. pc[y] \in {"lock", "index"}
    <3>1. pc[y] \in Steps
      BY <1>1 DEF TypeOK, Tasks
    <3> QED
      BY <1>14, <2>1, <3>1 DEF AppOK, Loading, Steps
  <2> QED
    BY <1>3, <1>14, <2>1, <2>2 DEF AppOK
<1>15. x \in Apps => AppOK(x)'
  BY <1>2, <1>3, <1>5, <1>6, TableAssumption DEF AppOK, Loading
<1>16. ReadOK'
  <2>1. CASE x = TBL
    BY <1>2, <1>3, <1>5, <1>6, <2>1, TableAssumption DEF ReadOK
  <2>2. CASE x # TBL
    <3>1. ReadOK
      BY DEF LoadInv, TasksOK
    <3>2. pc[TBL] = "idle" \/ loc[TBL].t # t
      BY <3>1 DEF ReadOK
    <3> QED
      BY <1>10, <2>2, <3>2, OtherTables
  <2> QED
    BY <2>1, <2>2
<1>17. LoadInv'
  BY <1>5, <1>9, <1>10, <1>11, <1>12, <1>13, <1>14, <1>15, <1>16, StepOn
<1>18. image'[Active(t)] = image[Active(t)]
  BY <1>6, <1>7
<1> QED
  BY <1>2, <1>3, <1>5, <1>6, <1>10, <1>17, <1>18

(* CFE_TBL_Load by the owner.                                               *)
LEMMA LoadInvStep ==
  ASSUME LoadInv, Coordinated, NEW a \in Apps, NEW t \in Tables,
         NEW s \in SourcesOf[t], Load(a, t, s)
  PROVE  LoadInv'
<1>1. /\ TypeOK /\ RegOK(t) /\ a \in Tasks /\ a # TBL /\ a = OwnerOf[t] /\ s \in Sources
      /\ reg[t].TableLoadedOnce => t \in Reloads
      /\ reg[t].LoadInProgress = None /\ "write" \in Steps
      /\ UNCHANGED <<validated, desc, held, results>>
      /\ GetWorkingBuffer(a, "write", t, s)
  BY TableAssumption DEF Load, LoadInv, Tasks, Sources, Steps
<1>2. CASE ~reg[t].TableLoadedOnce
  <2> DEFINE l == [NoLoc EXCEPT !.t = t, !.working = Active(t), !.src = s]
  <2>1. Active(t) \in Buffers
    BY <1>1, TableBuffers
  <2>2. l \in Locals /\ l.t = t /\ l.working = Active(t) /\ l.src = s
    BY <1>1, <2>1 DEF NoLoc, Locals
  <2>3. Go(a, "write", l) /\ UNCHANGED <<reg, image, taken>>
    BY <1>1, <1>2 DEF GetWorkingBuffer
  <2> HIDE DEF l
  <2>4. /\ pc' \in [Tasks -> Steps] /\ loc' \in [Tasks -> Locals]
        /\ pc'[a] = "write" /\ loc'[a] = l
        /\ \A y \in Tasks \ {a} : pc'[y] = pc[y] /\ loc'[y] = loc[y]
    BY <1>1, <2>2, <2>3, GoLemma
  <2>5. Active(t)' = Active(t)
    BY <2>3 DEF Active
  <2>6. AppOK(a)'
    BY <1>1, <1>2, <2>2, <2>3, <2>4, <2>5 DEF AppOK, Loading
  <2> QED
    BY <1>1, <2>3, <2>4, <2>6, QuietStep
<1>3. CASE reg[t].TableLoadedOnce
  <2>1. \E i, b : Takes(t, i, b)
           /\ Go(a, "write", [NoLoc EXCEPT !.t = t, !.working = b, !.src = s])
    BY <1>1, <1>3, Zenon DEF GetWorkingBuffer, Takes
  <2>2. PICK i, b : Takes(t, i, b)
           /\ Go(a, "write", [NoLoc EXCEPT !.t = t, !.working = b, !.src = s])
    BY <2>1
  <2> DEFINE l == [NoLoc EXCEPT !.t = t, !.working = b, !.src = s]
  <2>3. b \in Buffers
    <3>1. reg[t].ActiveBufferIndex \in {0, 1}
      BY <1>1, RegFields
    <3> QED
      BY <2>2, <3>1 DEF Takes, Buffers
  <2>4. l \in Locals /\ l.t = t /\ l.working = b /\ l.src = s
    BY <1>1, <2>3 DEF NoLoc, Locals
  <2>5. Go(a, "write", l)
    BY <2>2
  <2> HIDE DEF l
  <2>6. /\ pc' \in [Tasks -> Steps] /\ loc' \in [Tasks -> Locals]
        /\ pc'[a] = "write" /\ loc'[a] = l
        /\ \A y \in Tasks \ {a} : pc'[y] = pc[y] /\ loc'[y] = loc[y]
    BY <1>1, <2>4, <2>5, GoLemma
  <2>7. reg[t].ValidateActiveIndex = None /\ reg[t].ValidateInactiveIndex = None
    BY <1>1, <1>3 DEF RegOK, Coordinated
  <2> QED
    BY <1>1, <1>3, <2>2, <2>4, <2>6, <2>7, TakeBuffer
<1> QED
  BY <1>2, <1>3

(* What a careful ground has waited for.                                    *)
LEMMA CarefulCommand ==
  ASSUME Coordinated, NEW t \in Tables, MayCommand(t)
  PROVE  /\ pc[TBL] = "idle" /\ t \in GroundLoads
         /\ reg[t].TableLoadedOnce /\ ~reg[t].LoadPending
         /\ reg[t].ValidateActiveIndex = None /\ reg[t].ValidateInactiveIndex = None
  BY DEF Coordinated, MayCommand

(* CFE_TBL_LoadCmd.                                                         *)
LEMMA LoadCmdInv ==
  ASSUME LoadInv, Coordinated, NEW t \in Tables, NEW s \in SourcesOf[t], LoadCmd(t, s)
  PROVE  LoadInv'
<1>1. /\ TypeOK /\ RegOK(t) /\ TBL \in Tasks /\ TBL \notin Apps /\ s \in Sources
      /\ "read" \in Steps
      /\ UNCHANGED <<validated, desc, held, results>>
      /\ GetWorkingBuffer(TBL, "read", t, s)
  BY TableAssumption DEF LoadCmd, LoadInv, Tasks, Sources, Steps
<1>2. /\ pc[TBL] = "idle" /\ t \in GroundLoads
      /\ reg[t].TableLoadedOnce /\ ~reg[t].LoadPending
      /\ reg[t].ValidateActiveIndex = None /\ reg[t].ValidateInactiveIndex = None
  BY CarefulCommand DEF LoadCmd
<1>3. CASE reg[t].LoadInProgress # None
  <2> DEFINE l == [NoLoc EXCEPT !.t = t, !.working = Working(t), !.src = s]
  <2>1. Working(t) \in Buffers
    BY <1>1, <1>3, TableBuffers
  <2>2. l \in Locals /\ l.t = t /\ l.working = Working(t) /\ l.src = s
    BY <1>1, <2>1 DEF NoLoc, Locals
  <2>3. Go(TBL, "read", l) /\ UNCHANGED <<reg, image, taken>>
    BY <1>1, <1>3 DEF GetWorkingBuffer
  <2> HIDE DEF l
  <2>4. /\ pc' \in [Tasks -> Steps] /\ loc' \in [Tasks -> Locals]
        /\ pc'[TBL] = "read" /\ loc'[TBL] = l
        /\ \A y \in Tasks \ {TBL} : pc'[y] = pc[y] /\ loc'[y] = loc[y]
    BY <1>1, <2>2, <2>3, GoLemma
  <2>5. Working(t)' = Working(t)
    BY <2>3 DEF Working, Inactive
  <2>6. ReadOK'
    BY <1>1, <1>2, <1>3, <2>2, <2>3, <2>4, <2>5 DEF ReadOK
  <2> QED
    BY <1>1, <2>3, <2>4, <2>6, QuietStep
<1>4. CASE reg[t].LoadInProgress = None
  <2>1. \E i, b : Takes(t, i, b)
           /\ Go(TBL, "read", [NoLoc EXCEPT !.t = t, !.working = b, !.src = s])
    BY <1>1, <1>2, <1>4, Zenon DEF GetWorkingBuffer, Takes
  <2>2. PICK i, b : Takes(t, i, b)
           /\ Go(TBL, "read", [NoLoc EXCEPT !.t = t, !.working = b, !.src = s])
    BY <2>1
  <2> DEFINE l == [NoLoc EXCEPT !.t = t, !.working = b, !.src = s]
  <2>3. b \in Buffers
    <3>1. reg[t].ActiveBufferIndex \in {0, 1}
      BY <1>1, RegFields
    <3> QED
      BY <2>2, <3>1 DEF Takes, Buffers
  <2>4. l \in Locals /\ l.t = t /\ l.working = b /\ l.src = s
    BY <1>1, <2>3 DEF NoLoc, Locals
  <2>5. Go(TBL, "read", l)
    BY <2>2
  <2> HIDE DEF l
  <2>6. /\ pc' \in [Tasks -> Steps] /\ loc' \in [Tasks -> Locals]
        /\ pc'[TBL] = "read" /\ loc'[TBL] = l
        /\ \A y \in Tasks \ {TBL} : pc'[y] = pc[y] /\ loc'[y] = loc[y]
    BY <1>1, <2>4, <2>5, GoLemma
  <2> QED
    BY <1>1, <1>2, <1>4, <2>2, <2>4, <2>6, TakeBuffer
<1> QED
  BY <1>3, <1>4

(* A step that writes the buffer b of a load.                               *)
LEMMA WriteStep ==
  ASSUME LoadInv, NEW x \in Tasks, NEW t \in Tables, NEW b \in Buffers,
         image' \in [Buffers -> Images], \A c \in Buffers \ {b} : image'[c] = image[c],
         UNCHANGED <<reg, taken, desc, held, results>>,
         validated' \in [Buffers -> BOOLEAN],
         \A c \in Buffers \ {b} : validated'[c] = validated[c],
         \/ b = Working(t) /\ reg[t].LoadInProgress # None
         \/ b = Active(t) /\ ~reg[t].TableLoadedOnce,
         \A y \in Apps \ {x} : loc[y].t = t => pc[y] \notin {"write", "finish", "validate"},
         pc' \in [Tasks -> Steps], loc' \in [Tasks -> Locals],
         \A y \in Tasks \ {x} : pc'[y] = pc[y] /\ loc'[y] = loc[y],
         x \in Apps => AppOK(x)', x = TBL => ReadOK'
  PROVE  LoadInv' /\ Others(x, t)
<1>1. /\ TypeOK /\ LoadsOK /\ ResultsOK /\ \A u \in Tables : RegOK(u)
      /\ \A h \in Access : DescOK(h)
  BY DEF LoadInv
<1>2. image' \in [Buffers -> Images] /\ \A c \in Buffers \ {b} : image'[c] = image[c]
  OBVIOUS
<1>3. TypeOK'
  BY <1>1, <1>2 DEF TypeOK
<1>4. LoadsOK' /\ ResultsOK'
  BY <1>1 DEF LoadsOK, ResultsOK, Refers
<1>5. RegOK(t)'
  <2>1. RegOK(t)
    BY <1>1
  <2> QED
    BY <2>1 DEF RegOK
<1>6. \A u : Active(u)' = Active(u) /\ Working(u)' = Working(u) /\ Unread(u)' = Unread(u)
  BY DEF Active, Working, Inactive, Unread, UsersOf
<1>7. ASSUME NEW u \in Tables \ {t}
      PROVE  b \notin {<<u, 0>>, <<u, 1>>} /\ <<u, 0>> \in Buffers /\ <<u, 1>> \in Buffers
  <2>1. CASE b = Active(t)
    BY <1>1, <2>1, TableBuffers DEF Active
  <2>2. CASE b = Working(t) /\ reg[t].LoadInProgress # None
    <3>1. Working(t) \notin {<<u, 0>>, <<u, 1>>}
      BY <1>1, <2>2, BuffersApart
    <3> QED
      BY <1>1, <2>2, <3>1, TableBuffers
  <2> QED
    BY <2>1, <2>2
<1>8. ASSUME NEW u \in Tables \ {t}, reg[u].LoadInProgress # None
      PROVE  Working(u) \in Buffers \ {b}
  <2>1. Working(u) \in Buffers
    BY <1>1, <1>8, TableBuffers
  <2>2. /\ Working(u) \notin {<<t, 0>>, <<t, 1>>}
        /\ reg[t].LoadInProgress # None => Working(u) # Working(t)
    BY <1>1, <1>8, BuffersApart
  <2>3. Active(t) \in {<<t, 0>>, <<t, 1>>}
    BY <1>1, TableBuffers
  <2> QED
    BY <2>1, <2>2, <2>3
<1>9. Others(x, t)
  BY <1>2, <1>7, <1>8 DEF Others
<1>10. ASSUME NEW h \in Access, h[2] = t PROVE DescOK(h)'
  <2>1. DescOK(h) /\ desc[h].BufferIndex \in {0, 1}
    BY <1>1 DEF TypeOK, AccessDescriptor
  <2>2. held[h] \notin {NULL, Overtaken} =>
          <<t, desc[h].BufferIndex>> = Active(t) /\ b # Active(t)
    <3>1. Working(t) # Active(t)
      BY <1>1, TableBuffers
    <3> QED
      BY <1>10, <2>1, <3>1 DEF DescOK, Active
  <2>3. <<t, desc[h].BufferIndex>> \in Buffers
    BY <2>1 DEF Buffers
  <2> QED
    BY <1>2, <1>10, <2>1, <2>2, <2>3 DEF DescOK
<1>11. ASSUME NEW y \in Apps \ {x}, loc[y].t = t PROVE AppOK(y)'
  <2>1. AppOK(y) /\ pc'[y] = pc[y] /\ loc'[y] = loc[y]
    BY DEF LoadInv, TasksOK, Tasks
  <2> QED
    BY <1>6, <1>11, <2>1 DEF AppOK
<1>12. ReadOK'
  <2>1. CASE x = TBL
    BY <2>1
  <2>2. CASE x # TBL
    <3>1. ReadOK /\ pc'[TBL] = pc[TBL] /\ loc'[TBL] = loc[TBL]
      BY <2>2 DEF LoadInv, TasksOK, Tasks
    <3> QED
      BY <1>6, <3>1 DEF ReadOK
  <2> QED
    BY <2>1, <2>2
<1> QED
  BY <1>3, <1>4, <1>5, <1>9, <1>10, <1>11, <1>12, StepOn

(* What a load puts into the buffer it works in.                            *)
LEMMA LoadedImage ==
  ASSUME NEW t \in Tables, NEW s \in SourcesOf[t]
  PROVE  (IF s.form = "short" THEN Torn ELSE s.image) \in Images
  BY DEF Images, Sources

(* The owner of a table is the only task that is inside one of its loads,   *)
(* updates or validations.                                                  *)
LEMMA OwnersWork ==
  ASSUME LoadInv, NEW y \in Apps, NEW t \in Tables, loc[y].t = t,
         pc[y] \in {"write", "finish", "update", "validate"}
  PROVE  y = OwnerOf[t]
<1>1. AppOK(y)
  BY DEF LoadInv, TasksOK
<1> QED
  BY <1>1 DEF AppOK, Loading

LEMMA LoadWriteInv ==
  ASSUME LoadInv, NEW a \in Apps, LoadWrite(a)
  PROVE  LoadInv' /\ Others(a, loc[a].t)
<1> PICK t, b, s : t = loc[a].t /\ b = loc[a].working /\ s = loc[a].src
  OBVIOUS
<1> DEFINE v == IF s.form = "short" THEN Torn ELSE s.image
<1>1. /\ a \in Tasks /\ TypeOK /\ AppOK(a) /\ pc[a] = "write" /\ "finish" \in Steps
      /\ loc[a] \in Locals
  BY DEF LoadWrite, LoadInv, TasksOK, Tasks, Steps, TypeOK
<1>2. Loading(a, t) /\ t \in Tables /\ a = OwnerOf[t] /\ s \in SourcesOf[t] /\ RegOK(t)
  BY <1>1 DEF AppOK, Loading, LoadInv
<1>3. /\ \/ b = Working(t) /\ reg[t].LoadInProgress # None
         \/ b = Active(t) /\ ~reg[t].TableLoadedOnce
      /\ b \in Buffers
  BY <1>1, <1>2, TableBuffers DEF Loading
<1>4. v \in Images
  BY <1>2, LoadedImage
<1>5. image' = [image EXCEPT ![b] = v] /\ (s.form # "short" => v = s.image)
  BY DEF LoadWrite
<1> HIDE DEF v
<1>6. UNCHANGED <<reg, validated, taken, desc, held, results>> /\ Go(a, "finish", loc[a])
  BY DEF LoadWrite
<1>7. /\ pc' \in [Tasks -> Steps] /\ loc' \in [Tasks -> Locals]
      /\ pc'[a] = "finish" /\ loc'[a] = loc[a]
      /\ \A y \in Tasks \ {a} : pc'[y] = pc[y] /\ loc'[y] = loc[y]
  BY <1>1, <1>6, GoLemma
<1>8. /\ image'[b] = v /\ image' \in [Buffers -> Images]
      /\ \A c \in Buffers \ {b} : image'[c] = image[c]
  BY <1>1, <1>3, <1>4, <1>5 DEF TypeOK
<1>9. AppOK(a)'
  <2>1. Loading(a, t)'
    BY <1>2, <1>6, <1>7 DEF Loading, Working, Inactive, Active
  <2> QED
    BY <1>5, <1>7, <1>8, <2>1 DEF AppOK
<1>10. validated' \in [Buffers -> BOOLEAN] /\ \A c \in Buffers \ {b} : validated'[c] = validated[c]
  BY <1>1, <1>6 DEF TypeOK
<1>11. ASSUME NEW y \in Apps \ {a}, loc[y].t = t
       PROVE  pc[y] \notin {"write", "finish", "validate"}
  BY <1>2, <1>11, OwnersWork
<1>12. a # TBL
  BY TableAssumption
<1>13. t \in Tables /\ a \in Tasks
  BY <1>1, <1>2
<1>14. image' \in [Buffers -> Images] /\ \A c \in Buffers \ {b} : image'[c] = image[c]
  BY <1>8
<1>15. UNCHANGED <<reg, taken, desc, held, results>>
  BY <1>6
<1> QED
  BY <1>3, <1>7, <1>9, <1>10, <1>11, <1>12, <1>13, <1>14, <1>15, WriteStep

LEMMA LoadCmdReadInv ==
  ASSUME LoadInv, Coordinated, LoadCmdRead
  PROVE  LoadInv' /\ Others(TBL, loc[TBL].t)
<1> PICK t, b, s : t = loc[TBL].t /\ b = loc[TBL].working /\ s = loc[TBL].src
  OBVIOUS
<1> DEFINE v == IF s.form = "short" THEN Torn ELSE s.image
<1>1. TBL \in Tasks /\ TBL \notin Apps /\ TypeOK /\ ReadOK /\ pc[TBL] = "read"
  BY TableAssumption DEF LoadCmdRead, LoadInv, TasksOK, Tasks
<1>2. /\ t \in Tables /\ t \in GroundLoads /\ s \in SourcesOf[t] /\ RegOK(t)
      /\ reg[t].TableLoadedOnce /\ reg[t].LoadInProgress # None /\ b = Working(t)
      /\ reg[t].ValidateActiveIndex = None /\ reg[t].ValidateInactiveIndex = None
  BY <1>1, TableAssumption DEF ReadOK, LoadInv
<1>3. b \in Buffers
  BY <1>1, <1>2, TableBuffers
<1>4. v \in Images
  BY <1>2, LoadedImage
<1>5. image' = [image EXCEPT ![b] = v]
  BY DEF LoadCmdRead
<1> HIDE DEF v
<1>6. UNCHANGED <<reg, taken, desc, held, results>> /\ Done(TBL)
  BY DEF LoadCmdRead
<1>7. /\ pc' \in [Tasks -> Steps] /\ loc' \in [Tasks -> Locals]
      /\ pc'[TBL] = "idle"
      /\ \A y \in Tasks \ {TBL} : pc'[y] = pc[y] /\ loc'[y] = loc[y]
  BY <1>1, <1>6, DoneLemma
<1>8. ReadOK'
  BY <1>7 DEF ReadOK
<1>9. validated' \in [Buffers -> BOOLEAN] /\ \A c \in Buffers \ {b} : validated'[c] = validated[c]
  BY <1>1, <1>3 DEF TypeOK, LoadCmdRead, ValidatedReset
<1>10. ASSUME NEW y \in Apps \ {TBL}, loc[y].t = t
       PROVE  pc[y] \notin {"write", "finish", "validate"}
  <2>1. AppOK(y)
    BY DEF LoadInv, TasksOK
  <2> QED
    BY <1>2, <1>10, <2>1 DEF AppOK, Loading, Coordinated
<1>11. image' \in [Buffers -> Images] /\ \A c \in Buffers \ {b} : image'[c] = image[c]
  BY <1>1, <1>3, <1>4, <1>5 DEF TypeOK
<1> QED
  BY <1>1, <1>2, <1>3, <1>6, <1>7, <1>8, <1>9, <1>10, <1>11, WriteStep

LEMMA UpdateInv ==
  ASSUME LoadInv, NEW a \in Apps, NEW t \in Tables, Update(a, t)
  PROVE  LoadInv'
<1> DEFINE l == [NoLoc EXCEPT !.t = t]
<1>1. l \in Locals /\ l.t = t
  BY DEF NoLoc, Locals
<1>2. /\ a \in Tasks /\ a # TBL /\ TypeOK /\ "update" \in Steps /\ a = OwnerOf[t]
      /\ reg[t].LoadPending /\ reg[t].LoadInProgress # None /\ NotLocked(t)
      /\ Go(a, "update", l)
      /\ UNCHANGED <<reg, image, validated, taken, desc, held, results>>
  BY TableAssumption DEF Update, LoadInv, Tasks, Steps
<1> HIDE DEF l
<1>3. /\ pc' \in [Tasks -> Steps] /\ loc' \in [Tasks -> Locals]
      /\ pc'[a] = "update" /\ loc'[a] = l
      /\ \A y \in Tasks \ {a} : pc'[y] = pc[y] /\ loc'[y] = loc[y]
  BY <1>1, <1>2, GoLemma
<1>4. Unread(t)'
  <2>1. Unread(t)
    BY <1>2, NotLockedUnread
  <2> QED
    BY <1>2, <2>1 DEF Unread, UsersOf
<1>5. AppOK(a)'
  BY <1>1, <1>2, <1>3, <1>4 DEF AppOK
<1> QED
  BY <1>2, <1>3, <1>5, QuietStep

LEMMA ValidateInv ==
  ASSUME LoadInv, NEW a \in Apps, NEW t \in Tables, Validate(a, t)
  PROVE  LoadInv'
<1> DEFINE inactive == reg[t].ValidateInactiveIndex # None
           b == IF inactive THEN Working(t) ELSE Active(t)
           i == IF inactive THEN 1 ELSE 0
           l == [NoLoc EXCEPT !.t = t, !.idx = i, !.ok = image[b] \in Valid]
<1>1. a \in Tasks /\ a # TBL /\ TypeOK /\ RegOK(t) /\ "validate" \in Steps /\ a = OwnerOf[t]
  BY TableAssumption DEF Validate, LoadInv, Tasks, Steps
<1>2. b \in Buffers
  BY <1>1, TableBuffers DEF RegOK
<1>3. /\ inactive \/ reg[t].ValidateActiveIndex # None
      /\ Go(a, "validate", l)
      /\ UNCHANGED <<reg, image, validated, taken, desc, held, results>>
  BY <1>2 DEF Validate
<1>4. i \in {0, 1} /\ (image[b] \in Valid) \in BOOLEAN
  OBVIOUS
<1>5. l \in Locals /\ l.t = t /\ l.idx = i /\ l.ok = (image[b] \in Valid)
  BY <1>4 DEF NoLoc, Locals
<1> HIDE DEF l
<1>6. /\ pc' \in [Tasks -> Steps] /\ loc' \in [Tasks -> Locals]
      /\ pc'[a] = "validate" /\ loc'[a] = l
      /\ \A y \in Tasks \ {a} : pc'[y] = pc[y] /\ loc'[y] = loc[y]
  BY <1>1, <1>3, <1>5, GoLemma
<1>7. Working(t)' = Working(t)
  BY <1>3 DEF Working, Inactive
<1>8. AppOK(a)'
  <2>1. loc'[a].idx = 1 <=> inactive
    BY <1>5, <1>6
  <2>2. inactive /\ l.ok => image[Working(t)] \in Valid
    BY <1>5
  <2>3. loc'[a].idx = 1 /\ loc'[a].ok => image'[Working(t)'] \in Valid
    BY <1>3, <1>6, <1>7, <2>1, <2>2
  <2>4. loc'[a].idx \in {0, 1} /\ loc'[a].t = t
    BY <1>4, <1>5, <1>6
  <2>5. /\ loc'[a].idx = 1 => reg'[t].ValidateInactiveIndex # None
        /\ loc'[a].idx = 0 => reg'[t].ValidateActiveIndex # None
    BY <1>3, <2>1, <2>4
  <2> QED
    BY <1>1, <1>6, <2>3, <2>4, <2>5 DEF AppOK
<1> QED
  BY <1>1, <1>3, <1>6, <1>8, QuietStep

(* Only the buffer b is written.                                            *)
OnlyBuffer(b) ==
  \A c \in Buffers \ {b} : image'[c] = image[c] /\ validated'[c] = validated[c]

(* The buffers of the other tables when b, a buffer of table t, is written. *)
LEMMA OthersKept ==
  ASSUME LoadInv, NEW x \in Tasks, NEW t \in Tables, NEW b,
         b \in {<<t, 0>>, <<t, 1>>} \/ (b = Working(t) /\ reg[t].LoadInProgress # None),
         OnlyBuffer(b),
         \A u \in Tables \ {t} : reg'[u] = reg[u],
         \A y \in Tasks \ {x} : pc'[y] = pc[y] /\ loc'[y] = loc[y],
         \A h \in Access : h[2] # t => desc'[h] = desc[h] /\ held'[h] = held[h]
  PROVE  Others(x, t)
<1>1. TypeOK /\ LoadsOK /\ \A u \in Tables : RegOK(u)
  BY DEF LoadInv
<1>2. ASSUME NEW u \in Tables \ {t}
      PROVE  <<u, 0>> \in Buffers \ {b} /\ <<u, 1>> \in Buffers \ {b}
  <2>1. <<u, 0>> \in Buffers /\ <<u, 1>> \in Buffers
    BY <1>1, TableBuffers
  <2>2. CASE b \in {<<t, 0>>, <<t, 1>>}
    BY <2>1, <2>2
  <2>3. CASE b = Working(t) /\ reg[t].LoadInProgress # None
    <3>1. Working(t) \notin {<<u, 0>>, <<u, 1>>}
      BY <1>1, <2>3, BuffersApart
    <3> QED
      BY <2>1, <2>3, <3>1
  <2> QED
    BY <2>2, <2>3
<1>3. ASSUME NEW u \in Tables \ {t}, reg[u].LoadInProgress # None
      PROVE  Working(u) \in Buffers \ {b}
  <2>1. Working(u) \in Buffers
    BY <1>1, <1>3, TableBuffers
  <2>2. /\ Working(u) \notin {<<t, 0>>, <<t, 1>>}
        /\ reg[t].LoadInProgress # None => Working(u) # Working(t)
    BY <1>1, <1>3, BuffersApart
  <2> QED
    BY <2>1, <2>2
<1> QED
  BY <1>2, <1>3 DEF Others, OnlyBuffer

(* A load of table t ends and gives its buffer back.                        *)
LEMMA LoadEnds ==
  ASSUME TypeOK, LoadsOK, NEW t \in Tables, RegOK(t),
         reg'[t].LoadInProgress = None,
         \A u \in Tables \ {t} : reg'[u] = reg[u],
         taken' = IF t \notin DoubleBuffered /\ reg[t].LoadInProgress # None
                    THEN Returned(reg[t].LoadInProgress) ELSE taken
  PROVE  LoadsOK' /\ taken' \in [Loads -> BOOLEAN]
<1> PICK i : i = reg[t].LoadInProgress
  OBVIOUS
<1>0. None \notin Loads
  BY TableAssumption DEF None, Loads
<1>1. CASE t \notin DoubleBuffered /\ i # None
  <2>1. i \in Loads
    BY <1>1 DEF RegOK
  <2>2. taken' \in [Loads -> BOOLEAN] /\ \A j \in Loads : taken'[j] = IF j = i THEN FALSE ELSE taken[j]
    BY <1>1, <2>1 DEF TypeOK, Returned
  <2>3. \A u \in Tables \ DoubleBuffered : u # t => reg[u].LoadInProgress # i
    BY <1>1 DEF LoadsOK
  <2>4. ASSUME NEW j \in Loads
        PROVE  taken'[j] <=> \E u \in Tables \ DoubleBuffered : reg'[u].LoadInProgress = j
    <3>1. CASE j = i
      <4>1. \A u \in Tables \ DoubleBuffered : reg'[u].LoadInProgress # i
        BY <1>0, <2>1, <2>3
      <4> QED
        BY <2>2, <3>1, <4>1
    <3>2. CASE j # i
      <4>1. \A u \in Tables : reg'[u].LoadInProgress = j <=> reg[u].LoadInProgress = j
        BY <1>0, <3>2
      <4>2. taken'[j] = taken[j]
        BY <2>2, <3>2
      <4> QED
        BY <4>1, <4>2 DEF LoadsOK
    <3> QED
      BY <3>1, <3>2
  <2>5. \A u, v \in Tables \ DoubleBuffered :
          reg'[u].LoadInProgress # None /\ reg'[u].LoadInProgress = reg'[v].LoadInProgress
            => u = v
    BY DEF LoadsOK
  <2> QED
    BY <2>2, <2>4, <2>5 DEF LoadsOK
<1>2. CASE t \in DoubleBuffered \/ i = None
  <2>1. taken' = taken
    BY <1>2
  <2>2. \A u \in Tables \ DoubleBuffered : reg'[u].LoadInProgress = reg[u].LoadInProgress
    BY <1>2
  <2> QED
    BY <2>1, <2>2 DEF LoadsOK, TypeOK
<1> QED
  BY <1>1, <1>2

(* No validation is asked for or done.                                      *)
LEMMA SameRequests ==
  ASSUME ResultsOK, results' = results,
         \A u \in Tables : /\ reg'[u].ValidateActiveIndex = reg[u].ValidateActiveIndex
                           /\ reg'[u].ValidateInactiveIndex = reg[u].ValidateInactiveIndex
  PROVE  ResultsOK'
<1>1. \A u \in Tables, j \in Slots : Refers(u, j)' <=> Refers(u, j)
  BY DEF Refers
<1> QED
  BY <1>1 DEF ResultsOK

(* What is left to show of a step of the owner of table t.                  *)
LEMMA OwnerStep ==
  ASSUME LoadInv, Coordinated, NEW a \in Apps, NEW t \in Tables,
         a = OwnerOf[t], Others(a, t), TypeOK', LoadsOK', ResultsOK', RegOK(t)',
         \A h \in Access : h[2] = t => DescOK(h)',
         \A h \in Access : desc'[h].LockFlag = desc[h].LockFlag, held' = held,
         AppOK(a)', pc[TBL] = "read" /\ loc[TBL].t = t => ReadOK'
  PROVE  LoadInv'
<1>1. ASSUME NEW y \in Apps \ {a}, loc[y].t = t, pc[y] # "idle" PROVE AppOK(y)'
  <2>1. AppOK(y) /\ pc'[y] = pc[y] /\ loc'[y] = loc[y] /\ pc[y] \in Steps
    BY DEF LoadInv, TasksOK, Tasks, Others, TypeOK
  <2>2. pc[y] \notin {"write", "finish", "update", "validate"}
    BY <1>1, OwnersWork
  <2>3. pc[y] \in {"lock", "index"}
    BY <1>1, <2>1, <2>2 DEF AppOK, Steps
  <2>4. <<y, t>> \in Access
    BY <1>1, <2>1, <2>3, TableAssumption DEF AppOK
  <2> QED
    BY <1>1, <2>1, <2>3, <2>4 DEF AppOK
<1>2. a \in Tasks /\ a # TBL
  BY TableAssumption DEF Tasks
<1>3. pc[TBL] \in {"idle", "read"}
  BY DEF LoadInv, TasksOK, ReadOK
<1> QED
  BY <1>1, <1>2, <1>3, StepOn

(* Table Services does not read a file for a table its owner loads.         *)
LEMMA NotRead ==
  ASSUME LoadInv, Coordinated, NEW t \in Tables, NEW a \in Apps, Loading(a, t)
  PROVE  ~(pc[TBL] = "read" /\ loc[TBL].t = t)
<1>1. ReadOK
  BY DEF LoadInv, TasksOK
<1> QED
  BY <1>1 DEF ReadOK, Loading, Coordinated

(* A load has ended that did not succeed.                                   *)
FailedLoad(a, t) ==
  LET i == reg[t].LoadInProgress IN
  /\ taken' = IF InLoadBuff(t) THEN Returned(i) ELSE taken
  /\ \/ image' = [image EXCEPT ![loc[a].working] = Zero]
     \/ image' = image
  /\ reg' = [reg EXCEPT ![t].LoadInProgress = None]
  /\ Done(a)
  /\ UNCHANGED <<validated, desc, held, results>>

(* The first load of a table has succeeded.                                 *)
FirstLoad(a, t) ==
  /\ reg' = [reg EXCEPT ![t] = Notified(reg[t])]
  /\ NotifyTblUsersOfUpdate(t) /\ Done(a)
  /\ UNCHANGED <<image, validated, taken, held, results>>

(* Another load has succeeded and is pending.                               *)
PendingLoad(a, t) ==
  /\ reg' = [reg EXCEPT ![t].LoadPending = TRUE]
  /\ IF reg[t].LoadInProgress # None /\ NotLocked(t)
       THEN Go(a, "update", [NoLoc EXCEPT !.t = t]) ELSE Done(a)
  /\ UNCHANGED <<image, validated, taken, desc, held, results>>

LEMMA LoadFinishCases ==
  ASSUME LoadInv, NEW a \in Apps, LoadFinish(a), NEW t, t = loc[a].t
  PROVE  /\ t \in Tables /\ Loading(a, t) /\ pc[a] = "finish"
         /\ \/ FailedLoad(a, t)
            \/ /\ ~reg[t].TableLoadedOnce /\ FirstLoad(a, t)
               /\ t \in Checked => image[loc[a].working] \in Valid
            \/ /\ reg[t].TableLoadedOnce /\ PendingLoad(a, t)
               /\ t \in Checked => image[loc[a].working] \in Valid
<1>1. AppOK(a) /\ pc[a] = "finish"
  BY DEF LoadInv, TasksOK, LoadFinish
<1>2. Loading(a, t) /\ t \in Tables
  BY <1>1 DEF AppOK, Loading
<1>3. InLoadBuff(t) => reg[t].LoadInProgress # None
  BY <1>2 DEF InLoadBuff, Loading
<1> PICK s : s = loc[a].src
  OBVIOUS
<1> PICK loaded \in BOOLEAN : loaded = (\/ s.form = "full"
                                        \/ s.form = "partial" /\ reg[t].TableLoadedOnce)
  OBVIOUS
<1> PICK ok \in BOOLEAN : ok = (loaded /\ (t \in Checked => s.image \in Valid))
  OBVIOUS
<1>4. CASE ~ok
  <2>1. /\ taken' = IF InLoadBuff(t) THEN Returned(reg[t].LoadInProgress) ELSE taken
        /\ image' = IF loaded THEN [image EXCEPT ![loc[a].working] = Zero] ELSE image
        /\ reg' = [reg EXCEPT ![t].LoadInProgress = None]
        /\ Done(a)
        /\ UNCHANGED <<validated, desc, held, results>>
    BY <1>3, <1>4 DEF LoadFinish
  <2> QED
    BY <1>1, <1>2, <2>1 DEF FailedLoad
<1>5. CASE ok
  <2>1. IF ~reg[t].TableLoadedOnce THEN FirstLoad(a, t) ELSE PendingLoad(a, t)
    BY <1>1, <1>2, <1>5 DEF LoadFinish, FirstLoad, PendingLoad
  <2>2. s.form # "short" /\ (t \in Checked => s.image \in Valid)
    BY <1>5
  <2>3. image[loc[a].working] = s.image
    BY <1>1, <2>2 DEF AppOK
  <2> QED
    BY <1>1, <1>2, <2>1, <2>2, <2>3
<1> QED
  BY <1>4, <1>5

LEMMA FailedLoadInv ==
  ASSUME LoadInv, Coordinated, NEW a \in Apps, NEW t \in Tables,
         Loading(a, t), FailedLoad(a, t)
  PROVE  LoadInv' /\ Others(a, t)
<1> PICK b : b = loc[a].working
  OBVIOUS
<1> DEFINE r == [reg[t] EXCEPT !.LoadInProgress = None]
<1>1. /\ TypeOK /\ LoadsOK /\ ResultsOK /\ RegOK(t) /\ a \in Tasks
      /\ \A h \in Access : DescOK(h)
  BY DEF LoadInv, Tasks
<1>2. reg[t] \in RegistryRec
  BY <1>1, RegFields
<1>3. /\ r \in RegistryRec /\ r.LoadInProgress = None
      /\ r.ActiveBufferIndex = reg[t].ActiveBufferIndex
      /\ r.LoadPending = reg[t].LoadPending
      /\ r.TableLoadedOnce = reg[t].TableLoadedOnce
      /\ r.ValidateActiveIndex = reg[t].ValidateActiveIndex
      /\ r.ValidateInactiveIndex = reg[t].ValidateInactiveIndex
  BY <1>2 DEF RegistryRec
<1>4. reg' = [reg EXCEPT ![t] = r]
  BY DEF FailedLoad
<1> HIDE DEF r
<1>5. /\ reg' \in [Tables -> RegistryRec] /\ reg'[t] = r
      /\ \A u \in Tables \ {t} : reg'[u] = reg[u]
  BY <1>1, <1>3, <1>4, RegSet
<1>6. /\ \/ b = Working(t) /\ reg[t].LoadInProgress # None
         \/ b = Active(t) /\ ~reg[t].TableLoadedOnce
      /\ b \in Buffers
  BY <1>1, TableBuffers DEF Loading
<1>7. image' \in [Buffers -> Images] /\ \A c \in Buffers \ {b} : image'[c] = image[c]
  <2>1. image' = [image EXCEPT ![b] = Zero] \/ image' = image
    BY DEF FailedLoad
  <2>2. Zero \in Images
    BY DEF Images
  <2> QED
    BY <1>1, <1>6, <2>1, <2>2 DEF TypeOK
<1>8. Done(a) /\ UNCHANGED <<validated, desc, held, results>>
  BY DEF FailedLoad
<1>9. /\ pc' \in [Tasks -> Steps] /\ loc' \in [Tasks -> Locals] /\ pc'[a] = "idle"
      /\ \A y \in Tasks \ {a} : pc'[y] = pc[y] /\ loc'[y] = loc[y]
  BY <1>1, <1>8, DoneLemma
<1>10. LoadsOK' /\ taken' \in [Loads -> BOOLEAN]
  <2>1. taken' = IF t \notin DoubleBuffered /\ reg[t].LoadInProgress # None
                   THEN Returned(reg[t].LoadInProgress) ELSE taken
    <3>1. reg[t].TableLoadedOnce <=> reg[t].LoadInProgress # None
      BY <1>1 DEF Loading, RegOK
    <3> QED
      BY <3>1 DEF FailedLoad, InLoadBuff
  <2>2. reg'[t].LoadInProgress = None
    BY <1>3, <1>5
  <2> QED
    BY <1>1, <1>5, <2>1, <2>2, LoadEnds
<1>11. TypeOK'
  BY <1>1, <1>3, <1>5, <1>7, <1>8, <1>9, <1>10 DEF TypeOK
<1>12. ResultsOK'
  BY <1>1, <1>3, <1>5, <1>8, SameRequests
<1>13. Others(a, t)
  <2>1. b \in {<<t, 0>>, <<t, 1>>} \/ (b = Working(t) /\ reg[t].LoadInProgress # None)
    BY <1>1, <1>6, TableBuffers
  <2>2. OnlyBuffer(b)
    BY <1>7, <1>8 DEF OnlyBuffer
  <2> QED
    BY <1>1, <1>5, <1>8, <1>9, <2>1, <2>2, OthersKept
<1>14. RegOK(t)'
  <2>1. ~reg[t].LoadPending
    BY <1>1 DEF Loading, RegOK
  <2>2. reg[t].ValidateActiveIndex = None /\ reg[t].ValidateInactiveIndex = None
    BY <1>1 DEF Loading, RegOK, Coordinated
  <2>3. None \in IF t \in DoubleBuffered THEN {None, 1 - r.ActiveBufferIndex}
                                         ELSE Loads \cup {None}
    OBVIOUS
  <2> QED
    BY <1>3, <1>5, <2>1, <2>2, <2>3 DEF RegOK
<1>15. ASSUME NEW h \in Access, h[2] = t PROVE DescOK(h)'
  <2>1. DescOK(h) /\ desc[h].BufferIndex \in {0, 1}
    BY <1>1 DEF TypeOK, AccessDescriptor
  <2>2. held[h] \notin {NULL, Overtaken} =>
          <<t, desc[h].BufferIndex>> = Active(t) /\ b # Active(t)
    <3>1. Working(t) # Active(t)
      BY <1>1, TableBuffers
    <3> QED
      BY <1>6, <1>15, <2>1, <3>1 DEF DescOK, Active
  <2>3. <<t, desc[h].BufferIndex>> \in Buffers
    BY <2>1 DEF Buffers
  <2>4. held[h] \notin {NULL, Overtaken} =>
          image'[<<t, desc[h].BufferIndex>>] = image[<<t, desc[h].BufferIndex>>]
    BY <1>7, <2>2, <2>3
  <2> QED
    BY <1>3, <1>5, <1>8, <1>15, <2>1, <2>4 DEF DescOK
<1>16. AppOK(a)'
  BY <1>9 DEF AppOK
<1>17. ~(pc[TBL] = "read" /\ loc[TBL].t = t)
  BY NotRead
<1>18. a = OwnerOf[t]
  BY DEF Loading
<1> QED
  BY <1>8, <1>10, <1>11, <1>12, <1>13, <1>14, <1>15, <1>16, <1>17, <1>18, OwnerStep

(* CFE_TBL_NotifyTblUsersOfUpdate.                                          *)
LEMMA NotifiedFields ==
  ASSUME NEW r \in RegistryRec
  PROVE  /\ Notified(r) \in RegistryRec
         /\ Notified(r).LoadInProgress = None /\ ~Notified(r).LoadPending
         /\ Notified(r).TableLoadedOnce
         /\ Notified(r).ActiveBufferIndex = r.ActiveBufferIndex
         /\ Notified(r).ValidateActiveIndex = r.ValidateActiveIndex
         /\ Notified(r).ValidateInactiveIndex = r.ValidateInactiveIndex
  BY DEF Notified, RegistryRec

LEMMA UsersNotified ==
  ASSUME TypeOK, NEW t \in Tables, NotifyTblUsersOfUpdate(t)
  PROVE  /\ desc' \in [Access -> AccessDescriptor]
         /\ \A h \in Access : /\ desc'[h].LockFlag = desc[h].LockFlag
                              /\ desc'[h].BufferIndex = desc[h].BufferIndex
                              /\ h[2] = t => desc'[h].Updated
                              /\ h[2] # t => desc'[h] = desc[h]
<1>1. ASSUME NEW h \in Access
      PROVE  /\ desc'[h] \in AccessDescriptor
             /\ desc'[h].LockFlag = desc[h].LockFlag
             /\ desc'[h].BufferIndex = desc[h].BufferIndex
             /\ h[2] = t => desc'[h].Updated
             /\ h[2] # t => desc'[h] = desc[h]
  <2>1. desc[h] \in AccessDescriptor
    BY DEF TypeOK
  <2>2. desc'[h] = IF h[2] = t THEN [desc[h] EXCEPT !.Updated = TRUE] ELSE desc[h]
    BY DEF NotifyTblUsersOfUpdate
  <2> QED
    BY <2>1, <2>2 DEF AccessDescriptor
<1> QED
  BY <1>1 DEF NotifyTblUsersOfUpdate

LEMMA FirstLoadInv ==
  ASSUME LoadInv, Coordinated, NEW a \in Apps, NEW t \in Tables,
         Loading(a, t), ~reg[t].TableLoadedOnce, FirstLoad(a, t)
  PROVE  LoadInv' /\ Others(a, t)
<1> PICK r : r = Notified(reg[t])
  OBVIOUS
<1>1. /\ TypeOK /\ LoadsOK /\ ResultsOK /\ RegOK(t) /\ a \in Tasks
      /\ \A h \in Access : DescOK(h)
  BY DEF LoadInv, Tasks
<1>2. /\ r \in RegistryRec /\ r.LoadInProgress = None /\ ~r.LoadPending
      /\ r.TableLoadedOnce /\ r.ActiveBufferIndex = reg[t].ActiveBufferIndex
      /\ r.ValidateActiveIndex = reg[t].ValidateActiveIndex
      /\ r.ValidateInactiveIndex = reg[t].ValidateInactiveIndex
  BY <1>1, RegFields, NotifiedFields
<1>3. reg' = [reg EXCEPT ![t] = r]
  BY DEF FirstLoad
<1>4. /\ reg' \in [Tables -> RegistryRec] /\ reg'[t] = r
      /\ \A u \in Tables \ {t} : reg'[u] = reg[u]
  BY <1>1, <1>2, <1>3, RegSet
<1>5. /\ Done(a) /\ NotifyTblUsersOfUpdate(t)
      /\ UNCHANGED <<image, validated, taken, held, results>>
  BY DEF FirstLoad
<1>6. /\ pc' \in [Tasks -> Steps] /\ loc' \in [Tasks -> Locals] /\ pc'[a] = "idle"
      /\ \A y \in Tasks \ {a} : pc'[y] = pc[y] /\ loc'[y] = loc[y]
  BY <1>1, <1>5, DoneLemma
<1>7. /\ desc' \in [Access -> AccessDescriptor]
      /\ \A h \in Access : /\ desc'[h].LockFlag = desc[h].LockFlag
                           /\ desc'[h].BufferIndex = desc[h].BufferIndex
                           /\ h[2] # t => desc'[h] = desc[h]
  BY <1>1, <1>5, UsersNotified
<1>8. reg[t].LoadInProgress = None
      /\ reg[t].ValidateActiveIndex = None /\ reg[t].ValidateInactiveIndex = None
  BY <1>1 DEF RegOK
<1>9. TypeOK'
  BY <1>1, <1>2, <1>4, <1>5, <1>6, <1>7 DEF TypeOK
<1>10. LoadsOK'
  BY <1>1, <1>2, <1>4, <1>5, <1>8, LoadEnds
<1>11. ResultsOK'
  BY <1>1, <1>2, <1>4, <1>5, SameRequests
<1>12. Others(a, t)
  <2>1. <<t, 0>> \in {<<t, 0>>, <<t, 1>>}
    OBVIOUS
  <2>2. OnlyBuffer(<<t, 0>>)
    BY <1>5 DEF OnlyBuffer
  <2> QED
    BY <1>1, <1>4, <1>5, <1>6, <1>7, <2>1, <2>2, OthersKept
<1>13. RegOK(t)'
  <2>1. None \in IF t \in DoubleBuffered THEN {None, 1 - r.ActiveBufferIndex}
                                         ELSE Loads \cup {None}
    OBVIOUS
  <2> QED
    BY <1>2, <1>4, <1>8, <2>1 DEF RegOK
<1>14. ASSUME NEW h \in Access, h[2] = t PROVE DescOK(h)'
  <2>1. DescOK(h)
    BY <1>1
  <2>2. held[h] \in {NULL, Overtaken}
    BY <1>14, <2>1 DEF DescOK
  <2> QED
    BY <1>5, <1>7, <1>14, <2>1, <2>2 DEF DescOK
<1>15. AppOK(a)'
  BY <1>6 DEF AppOK
<1>16. ~(pc[TBL] = "read" /\ loc[TBL].t = t)
  BY NotRead
<1>17. a = OwnerOf[t] /\ held' = held
  BY <1>5 DEF Loading
<1>18. \A h \in Access : desc'[h].LockFlag = desc[h].LockFlag
  BY <1>7
<1> QED
  BY <1>9, <1>10, <1>11, <1>12, <1>13, <1>14, <1>15, <1>16, <1>17, <1>18, OwnerStep

(* LoadPending is set for a load in progress.                               *)
LEMMA SetPending ==
  ASSUME LoadInv, NEW x \in Tasks, NEW t \in Tables,
         reg' = [reg EXCEPT ![t].LoadPending = TRUE],
         reg[t].LoadInProgress # None,
         reg[t].ValidateActiveIndex = None, reg[t].ValidateInactiveIndex = None,
         UNCHANGED <<image, validated, taken, desc, held, results>>,
         pc' \in [Tasks -> Steps], loc' \in [Tasks -> Locals],
         \A y \in Tasks \ {x} : pc'[y] = pc[y] /\ loc'[y] = loc[y]
  PROVE  /\ TypeOK' /\ LoadsOK' /\ ResultsOK' /\ RegOK(t)' /\ Others(x, t)
         /\ \A h \in Access : h[2] = t => DescOK(h)'
         /\ reg'[t].LoadPending /\ reg'[t].LoadInProgress = reg[t].LoadInProgress
         /\ reg'[t].ActiveBufferIndex = reg[t].ActiveBufferIndex
<1> DEFINE r == [reg[t] EXCEPT !.LoadPending = TRUE]
<1>1. /\ TypeOK /\ LoadsOK /\ ResultsOK /\ RegOK(t)
      /\ \A h \in Access : DescOK(h)
  BY DEF LoadInv
<1>2. reg[t] \in RegistryRec
  BY <1>1, RegFields
<1>3. /\ r \in RegistryRec /\ r.LoadInProgress = reg[t].LoadInProgress
      /\ r.ActiveBufferIndex = reg[t].ActiveBufferIndex
      /\ r.LoadPending
      /\ r.TableLoadedOnce = reg[t].TableLoadedOnce
      /\ r.ValidateActiveIndex = reg[t].ValidateActiveIndex
      /\ r.ValidateInactiveIndex = reg[t].ValidateInactiveIndex
  BY <1>2 DEF RegistryRec
<1>4. reg' = [reg EXCEPT ![t] = r]
  OBVIOUS
<1> HIDE DEF r
<1>5. /\ reg' \in [Tables -> RegistryRec] /\ reg'[t] = r
      /\ \A u \in Tables \ {t} : reg'[u] = reg[u]
  BY <1>1, <1>3, <1>4, RegSet
<1>6. TypeOK'
  BY <1>1, <1>3, <1>5 DEF TypeOK
<1>7. LoadsOK'
  <2>1. \A u \in Tables : reg'[u].LoadInProgress = reg[u].LoadInProgress
    BY <1>3, <1>5
  <2> QED
    BY <1>1, <2>1 DEF LoadsOK
<1>8. ResultsOK'
  BY <1>1, <1>3, <1>5, SameRequests
<1>9. RegOK(t)'
  BY <1>1, <1>3, <1>5 DEF RegOK
<1>10. Others(x, t)
  <2>1. <<t, 0>> \in {<<t, 0>>, <<t, 1>>}
    OBVIOUS
  <2>2. OnlyBuffer(<<t, 0>>)
    BY DEF OnlyBuffer
  <2> QED
    BY <1>1, <1>5, <2>1, <2>2, OthersKept
<1>11. ASSUME NEW h \in Access, h[2] = t PROVE DescOK(h)'
  <2>1. DescOK(h)
    BY <1>1
  <2> QED
    BY <1>3, <1>5, <1>11, <2>1 DEF DescOK
<1> QED
  BY <1>3, <1>5, <1>6, <1>7, <1>8, <1>9, <1>10, <1>11

LEMMA PendingLoadInv ==
  ASSUME LoadInv, Coordinated, NEW a \in Apps, NEW t \in Tables,
         Loading(a, t), reg[t].TableLoadedOnce, PendingLoad(a, t)
  PROVE  LoadInv' /\ Others(a, t)
<1> DEFINE l == [NoLoc EXCEPT !.t = t]
<1>1. l \in Locals /\ l.t = t
  BY DEF NoLoc, Locals
<1>2. (NotLocked(t) /\ Go(a, "update", l)) \/ Done(a)
  BY DEF PendingLoad
<1> HIDE DEF l
<1>3. TypeOK /\ RegOK(t) /\ a \in Tasks /\ "update" \in Steps /\ a = OwnerOf[t]
  BY DEF LoadInv, Tasks, Steps, Loading
<1>4. /\ pc' \in [Tasks -> Steps] /\ loc' \in [Tasks -> Locals]
      /\ \A y \in Tasks \ {a} : pc'[y] = pc[y] /\ loc'[y] = loc[y]
      /\ pc'[a] = "idle" \/ (pc'[a] = "update" /\ loc'[a] = l /\ NotLocked(t))
  <2>1. CASE NotLocked(t) /\ Go(a, "update", l)
    BY <1>1, <1>3, <2>1, GoLemma
  <2>2. CASE Done(a)
    BY <1>3, <2>2, DoneLemma
  <2> QED
    BY <1>2, <2>1, <2>2
<1>5. /\ UNCHANGED <<image, validated, taken, desc, held, results>>
      /\ reg' = [reg EXCEPT ![t].LoadPending = TRUE]
  BY DEF PendingLoad
<1>6. /\ reg[t].LoadInProgress # None
      /\ reg[t].ValidateActiveIndex = None /\ reg[t].ValidateInactiveIndex = None
  BY <1>3 DEF Loading, RegOK, Coordinated
<1>7. /\ TypeOK' /\ LoadsOK' /\ ResultsOK' /\ RegOK(t)' /\ Others(a, t)
      /\ \A h \in Access : h[2] = t => DescOK(h)'
      /\ reg'[t].LoadPending /\ reg'[t].LoadInProgress = reg[t].LoadInProgress
  BY <1>3, <1>4, <1>5, <1>6, SetPending
<1>8. NotLocked(t) => Unread(t)'
  <2>1. NotLocked(t) => Unread(t)
    BY NotLockedUnread
  <2> QED
    BY <1>5, <2>1 DEF Unread, UsersOf
<1>9. AppOK(a)'
  BY <1>1, <1>3, <1>4, <1>6, <1>7, <1>8 DEF AppOK
<1>10. ~(pc[TBL] = "read" /\ loc[TBL].t = t)
  BY NotRead
<1>11. \A h \in Access : desc'[h].LockFlag = desc[h].LockFlag
  BY <1>5
<1> QED
  BY <1>3, <1>5, <1>7, <1>9, <1>10, <1>11, OwnerStep

LEMMA LoadFinishInv ==
  ASSUME LoadInv, Coordinated, NEW a \in Apps, LoadFinish(a)
  PROVE  LoadInv' /\ Others(a, loc[a].t)
<1> PICK t : t = loc[a].t
  OBVIOUS
<1> QED
  BY LoadFinishCases, FailedLoadInv, FirstLoadInv, PendingLoadInv

(* CFE_TBL_UpdateInternal.                                                  *)
LEMMA UpdateInternalInv ==
  ASSUME LoadInv, Coordinated, NEW a \in Apps, UpdateInternal(a)
  PROVE  LoadInv' /\ Others(a, loc[a].t)
<1> PICK t, i : t = loc[a].t /\ i = reg[t].LoadInProgress
  OBVIOUS
<1>n. PICK n : n = Notified(reg[t])
  OBVIOUS
<1>r. PICK r : r = IF t \in DoubleBuffered THEN [n EXCEPT !.ActiveBufferIndex = i] ELSE n
  OBVIOUS
<1>1. /\ TypeOK /\ LoadsOK /\ ResultsOK /\ a \in Tasks /\ AppOK(a) /\ pc[a] = "update"
      /\ \A h \in Access : DescOK(h)
  BY DEF LoadInv, TasksOK, Tasks, UpdateInternal
<1>2. /\ t \in Tables /\ a = OwnerOf[t] /\ reg[t].LoadPending /\ i # None /\ Unread(t)
  BY <1>1 DEF AppOK
<1>3. RegOK(t)
  BY <1>2 DEF LoadInv
<1>4. /\ i \in IF t \in DoubleBuffered THEN {None, 1 - reg[t].ActiveBufferIndex}
                                       ELSE Loads \cup {None}
      /\ reg[t].ValidateActiveIndex = None /\ reg[t].ValidateInactiveIndex = None
  BY <1>2, <1>3 DEF RegOK
<1>5. reg[t] \in RegistryRec /\ reg[t].ActiveBufferIndex \in {0, 1}
  BY <1>1, <1>2, RegFields
<1>6. /\ n \in RegistryRec /\ n.LoadInProgress = None /\ ~n.LoadPending
      /\ n.TableLoadedOnce /\ n.ActiveBufferIndex = reg[t].ActiveBufferIndex
      /\ n.ValidateActiveIndex = None /\ n.ValidateInactiveIndex = None
  BY <1>4, <1>5, <1>n, NotifiedFields
<1>7. ASSUME t \in DoubleBuffered PROVE i \in {0, 1}
  <2>1. i = 1 - reg[t].ActiveBufferIndex
    BY <1>2, <1>4, <1>7
  <2> QED
    BY <1>5, <2>1
<1>8. /\ r \in RegistryRec /\ r.LoadInProgress = None /\ ~r.LoadPending
      /\ r.TableLoadedOnce
      /\ t \notin DoubleBuffered => r.ActiveBufferIndex = reg[t].ActiveBufferIndex
      /\ r.ValidateActiveIndex = None /\ r.ValidateInactiveIndex = None
  BY <1>6, <1>7, <1>r DEF RegistryRec
<1>9. /\ reg' = [reg EXCEPT ![t] = r]
      /\ IF t \in DoubleBuffered THEN UNCHANGED <<image, taken>>
         ELSE /\ image' = [image EXCEPT ![<<t, 0>>] = image[LoadBuff(i)]]
              /\ taken' = Returned(i)
      /\ NotifyTblUsersOfUpdate(t) /\ Done(a) /\ UNCHANGED <<validated, held, results>>
  BY <1>2, <1>n, <1>r DEF UpdateInternal
<1>10. /\ reg' \in [Tables -> RegistryRec] /\ reg'[t] = r
       /\ \A u \in Tables \ {t} : reg'[u] = reg[u]
  <2>1. reg' = [reg EXCEPT ![t] = r]
    BY <1>9
  <2> QED
    BY <1>1, <1>2, <1>8, <2>1, RegSet
<1>11. /\ pc' \in [Tasks -> Steps] /\ loc' \in [Tasks -> Locals] /\ pc'[a] = "idle"
       /\ \A y \in Tasks \ {a} : pc'[y] = pc[y] /\ loc'[y] = loc[y]
  BY <1>1, <1>9, DoneLemma
<1>12. /\ desc' \in [Access -> AccessDescriptor]
       /\ \A h \in Access : /\ desc'[h].LockFlag = desc[h].LockFlag
                            /\ desc'[h].BufferIndex = desc[h].BufferIndex
                            /\ h[2] = t => desc'[h].Updated
                            /\ h[2] # t => desc'[h] = desc[h]
  BY <1>1, <1>2, <1>9, UsersNotified
<1>13. /\ image' \in [Buffers -> Images]
       /\ \A c \in Buffers \ {<<t, 0>>} : image'[c] = image[c]
       /\ t \in DoubleBuffered => image' = image
  <2>1. CASE t \in DoubleBuffered
    BY <1>1, <1>9, <2>1 DEF TypeOK
  <2>2. CASE t \notin DoubleBuffered
    <3>1. LoadBuff(i) \in Buffers /\ <<t, 0>> \in Buffers
      BY <1>2, <1>4, <2>2 DEF Buffers
    <3>2. image' = [image EXCEPT ![<<t, 0>>] = image[LoadBuff(i)]]
      BY <1>9, <2>2
    <3> QED
      BY <1>1, <2>2, <3>1, <3>2 DEF TypeOK
  <2> QED
    BY <2>1, <2>2
<1>14. LoadsOK' /\ taken' \in [Loads -> BOOLEAN]
  <2>1. taken' = IF t \notin DoubleBuffered /\ reg[t].LoadInProgress # None
                   THEN Returned(reg[t].LoadInProgress) ELSE taken
    BY <1>2, <1>9
  <2>2. reg'[t].LoadInProgress = None
    BY <1>8, <1>10
  <2> QED
    BY <1>1, <1>2, <1>3, <1>10, <2>1, <2>2, LoadEnds
<1>15. TypeOK'
  BY <1>1, <1>8, <1>9, <1>10, <1>11, <1>12, <1>13, <1>14 DEF TypeOK
<1>16. ResultsOK'
  BY <1>1, <1>4, <1>8, <1>9, <1>10, SameRequests
<1>17. Others(a, t)
  <2>1. <<t, 0>> \in {<<t, 0>>, <<t, 1>>}
    OBVIOUS
  <2>2. /\ OnlyBuffer(<<t, 0>>)
        /\ \A h \in Access : h[2] # t => desc'[h] = desc[h] /\ held'[h] = held[h]
    BY <1>9, <1>12, <1>13 DEF OnlyBuffer
  <2>3. a \in Tasks /\ t \in Tables
    BY <1>1, <1>2
  <2> QED
    BY <1>10, <1>11, <2>1, <2>2, <2>3, OthersKept
<1>18. RegOK(t)'
  <2>1. None \in IF t \in DoubleBuffered THEN {None, 1 - r.ActiveBufferIndex}
                                         ELSE Loads \cup {None}
    OBVIOUS
  <2> QED
    BY <1>8, <1>10, <2>1 DEF RegOK
<1>19. ASSUME NEW h \in Access, h[2] = t PROVE DescOK(h)'
  <2>1. DescOK(h)
    BY <1>1
  <2>2. t \notin DoubleBuffered => held[h] \in {NULL, Overtaken}
    BY <1>2, <1>19 DEF Unread, UsersOf
  <2>3. held' = held
    BY <1>9
  <2> QED
    BY <1>8, <1>10, <1>12, <1>13, <1>19, <2>1, <2>2, <2>3 DEF DescOK
<1>20. AppOK(a)'
  BY <1>11 DEF AppOK
<1>21. ~(pc[TBL] = "read" /\ loc[TBL].t = t)
  BY <1>2 DEF LoadInv, TasksOK, ReadOK
<1>22. held' = held /\ \A h \in Access : desc'[h].LockFlag = desc[h].LockFlag
  BY <1>9, <1>12
<1> QED
  BY <1>2, <1>14, <1>15, <1>16, <1>17, <1>18, <1>19, <1>20, <1>21, <1>22, OwnerStep

(* CFE_TBL_Validate, its verdict recorded.                                  *)
LEMMA ValidateRecordInv ==
  ASSUME LoadInv, Coordinated, NEW a \in Apps, ValidateRecord(a)
  PROVE  LoadInv' /\ Others(a, loc[a].t)
<1> PICK t : t = loc[a].t
  OBVIOUS
<1>b. PICK b : b = Working(t)
  OBVIOUS
<1>i. PICK inactive \in BOOLEAN : inactive = (loc[a].idx = 1)
  OBVIOUS
<1>s. PICK slot : slot = IF inactive THEN reg[t].ValidateInactiveIndex
                                   ELSE reg[t].ValidateActiveIndex
  OBVIOUS
<1>r. PICK r : r = IF inactive THEN [reg[t] EXCEPT !.ValidateInactiveIndex = None]
                             ELSE [reg[t] EXCEPT !.ValidateActiveIndex = None]
  OBVIOUS
<1>1. /\ TypeOK /\ LoadsOK /\ ResultsOK /\ a \in Tasks /\ AppOK(a) /\ pc[a] = "validate"
      /\ \A h \in Access : DescOK(h)
  BY DEF LoadInv, TasksOK, Tasks, ValidateRecord
<1>2. t \in Tables /\ a = OwnerOf[t] /\ slot # None
  BY <1>1, <1>i, <1>s DEF AppOK
<1>3. RegOK(t) /\ reg[t] \in RegistryRec /\ slot \in Slots
  <2>1. RegOK(t) /\ reg[t] \in RegistryRec
    BY <1>1, <1>2, RegFields DEF LoadInv
  <2>2. slot \in Slots \cup {None}
    BY <1>1, <1>2, <1>s, RegFields
  <2> QED
    BY <1>2, <2>1, <2>2
<1>4. inactive => b \in Buffers
  BY <1>1, <1>2, <1>3, <1>b, <1>s, TableBuffers DEF RegOK
<1>5. /\ validated' = IF inactive /\ loc[a].ok THEN [validated EXCEPT ![b] = TRUE]
                                               ELSE validated
      /\ results' = ResultPerformed(slot)
      /\ reg' = RequestDone(t, inactive)
      /\ Done(a)
      /\ UNCHANGED <<image, taken, desc, held>>
  BY <1>4, <1>b, <1>i, <1>s DEF ValidateRecord
<1>6. /\ r \in RegistryRec /\ r.LoadInProgress = reg[t].LoadInProgress
      /\ r.ActiveBufferIndex = reg[t].ActiveBufferIndex
      /\ r.LoadPending = reg[t].LoadPending /\ r.TableLoadedOnce = reg[t].TableLoadedOnce
      /\ r.ValidateActiveIndex = None /\ r.ValidateInactiveIndex = None
  <2>1. inactive => reg[t].ValidateActiveIndex = None
    BY <1>2, <1>3, <1>s DEF RegOK
  <2>2. ~inactive => reg[t].ValidateInactiveIndex = None
    BY <1>2, <1>3, <1>s DEF RegOK
  <2> QED
    BY <1>3, <1>r, <2>1, <2>2 DEF RegistryRec
<1>7. reg' = [reg EXCEPT ![t] = r]
  BY <1>5, <1>r DEF RequestDone
<1>8. /\ reg' \in [Tables -> RegistryRec] /\ reg'[t] = r
      /\ \A u \in Tables \ {t} : reg'[u] = reg[u]
  BY <1>1, <1>2, <1>6, <1>7, RegSet
<1>9. /\ pc' \in [Tasks -> Steps] /\ loc' \in [Tasks -> Locals] /\ pc'[a] = "idle"
      /\ \A y \in Tasks \ {a} : pc'[y] = pc[y] /\ loc'[y] = loc[y]
  BY <1>1, <1>5, DoneLemma
<1>10. /\ validated' \in [Buffers -> BOOLEAN]
       /\ \A c \in Buffers : c # b \/ ~inactive => validated'[c] = validated[c]
  BY <1>1, <1>4, <1>5 DEF TypeOK
<1>11. /\ results' \in [Slots -> {"free", "pending", "performed"}]
       /\ \A j \in Slots : results'[j] = IF j = slot THEN "performed" ELSE results[j]
  <2>1. results' = [results EXCEPT ![slot] = "performed"]
    BY <1>5 DEF ResultPerformed
  <2> QED
    BY <1>1, <1>3, <2>1 DEF TypeOK
<1>12. TypeOK'
  BY <1>1, <1>5, <1>6, <1>8, <1>9, <1>10, <1>11 DEF TypeOK
<1>13. LoadsOK'
  <2>1. \A u \in Tables : reg'[u].LoadInProgress = reg[u].LoadInProgress
    BY <1>6, <1>8
  <2> QED
    BY <1>1, <1>5, <2>1 DEF LoadsOK
<1>14. ResultsOK'
  <2>1. None \notin Slots
    BY TableAssumption DEF None, Slots
  <2>2. \A u \in Tables, j \in Slots : Refers(u, j)' <=> (u # t /\ Refers(u, j))
    <3>1. ASSUME NEW u \in Tables \ {t}, NEW j \in Slots PROVE Refers(u, j)' <=> Refers(u, j)
      BY <1>8 DEF Refers
    <3>2. ASSUME NEW j \in Slots PROVE ~Refers(t, j)'
      BY <1>6, <1>8, <2>1 DEF Refers
    <3> QED
      BY <3>1, <3>2
  <2>3. \A u \in Tables : Refers(u, slot) => u = t
    BY <1>1, <1>2, <1>3, <1>s DEF ResultsOK, Refers
  <2>4. \A j \in Slots : Refers(t, j) => j = slot
    BY <1>2, <1>3, <1>s, <2>1 DEF Refers, RegOK
  <2>5. ASSUME NEW j \in Slots
        PROVE  results'[j] = "pending" <=> \E u \in Tables : Refers(u, j)'
    BY <1>1, <1>11, <2>2, <2>3, <2>4 DEF ResultsOK
  <2>6. \A j \in Slots : \A u, v \in Tables : Refers(u, j)' /\ Refers(v, j)' => u = v
    BY <1>1, <2>2 DEF ResultsOK
  <2> QED
    BY <2>5, <2>6 DEF ResultsOK
<1>15. Others(a, t)
  <2>1. CASE inactive
    <3>1. b \in {<<t, 0>>, <<t, 1>>} \/ (b = Working(t) /\ reg[t].LoadInProgress # None)
      BY <1>1, <1>2, <1>3, <1>b, <1>s, <2>1, TableBuffers DEF RegOK
    <3>2. /\ OnlyBuffer(b)
          /\ \A h \in Access : h[2] # t => desc'[h] = desc[h] /\ held'[h] = held[h]
      BY <1>5, <1>10 DEF OnlyBuffer
    <3>3. a \in Tasks /\ t \in Tables
      BY <1>1, <1>2
    <3> QED
      BY <1>8, <1>9, <3>1, <3>2, <3>3, OthersKept
  <2>2. CASE ~inactive
    <3>1. <<t, 0>> \in {<<t, 0>>, <<t, 1>>}
      OBVIOUS
    <3>2. OnlyBuffer(<<t, 0>>)
      BY <1>5, <1>10, <2>2 DEF OnlyBuffer
    <3> QED
      BY <1>1, <1>2, <1>5, <1>8, <1>9, <3>1, <3>2, OthersKept
  <2> QED
    BY <2>1, <2>2
<1>16. RegOK(t)'
  BY <1>3, <1>6, <1>8 DEF RegOK
<1>17. ASSUME NEW h \in Access, h[2] = t PROVE DescOK(h)'
  <2>1. DescOK(h)
    BY <1>1
  <2> QED
    BY <1>5, <1>6, <1>8, <1>17, <2>1 DEF DescOK
<1>18. AppOK(a)'
  BY <1>9 DEF AppOK
<1>19. ~(pc[TBL] = "read" /\ loc[TBL].t = t)
  BY <1>2, <1>s DEF LoadInv, TasksOK, ReadOK
<1>20. held' = held /\ \A h \in Access : desc'[h].LockFlag = desc[h].LockFlag
  BY <1>5
<1> QED
  BY <1>2, <1>12, <1>13, <1>14, <1>15, <1>16, <1>17, <1>18, <1>19, <1>20, OwnerStep

-----------------------------------------------------------------------------
(* The ground's commands.                                                   *)

(* What is left to show of a command for table t.                           *)
LEMMA GroundStep ==
  ASSUME LoadInv, Coordinated, NEW t \in Tables, MayCommand(t),
         UNCHANGED <<pc, loc, desc, held>>, Others(TBL, t),
         TypeOK', LoadsOK', ResultsOK', RegOK(t)',
         \A h \in Access : h[2] = t => DescOK(h)',
         reg'[t].ActiveBufferIndex = reg[t].ActiveBufferIndex
  PROVE  LoadInv'
<1>1. /\ pc[TBL] = "idle" /\ t \in GroundLoads
      /\ reg[t].TableLoadedOnce /\ ~reg[t].LoadPending
      /\ reg[t].ValidateActiveIndex = None /\ reg[t].ValidateInactiveIndex = None
  BY CarefulCommand
<1>2. ASSUME NEW y \in Apps, loc[y].t = t, pc[y] # "idle" PROVE AppOK(y)'
  <2>1. AppOK(y) /\ pc[y] \in Steps
    BY DEF LoadInv, TasksOK, Tasks, TypeOK
  <2>2. pc[y] \in {"lock", "index"}
    BY <1>1, <1>2, <2>1 DEF AppOK, Loading, Steps, Coordinated
  <2> QED
    BY <1>2, <2>1, <2>2 DEF AppOK
<1>3. ReadOK'
  BY <1>1 DEF ReadOK
<1>4. TBL \in Tasks /\ TBL \notin Apps
  BY TableAssumption DEF Tasks
<1> QED
  BY <1>2, <1>3, <1>4, StepOn

LEMMA ActivateCmdInv ==
  ASSUME LoadInv, Coordinated, NEW t \in Tables, ActivateCmd(t)
  PROVE  LoadInv' /\ Others(TBL, t)
<1>1. /\ MayCommand(t) /\ reg[t].LoadInProgress # None /\ TBL \in Tasks
      /\ UNCHANGED <<image, validated, taken, desc, held, results, pc, loc>>
      /\ TypeOK
  BY DEF ActivateCmd, Tasks, LoadInv
<1>2. reg[t].ValidateActiveIndex = None /\ reg[t].ValidateInactiveIndex = None
  BY <1>1, CarefulCommand
<1>3. /\ pc' \in [Tasks -> Steps] /\ loc' \in [Tasks -> Locals]
      /\ \A y \in Tasks \ {TBL} : pc'[y] = pc[y] /\ loc'[y] = loc[y]
  BY <1>1 DEF TypeOK
<1>4. reg' = [reg EXCEPT ![t].LoadPending = TRUE]
  BY DEF ActivateCmd
<1>5. /\ TypeOK' /\ LoadsOK' /\ ResultsOK' /\ RegOK(t)' /\ Others(TBL, t)
      /\ \A h \in Access : h[2] = t => DescOK(h)'
      /\ reg'[t].ActiveBufferIndex = reg[t].ActiveBufferIndex
  BY <1>1, <1>2, <1>3, <1>4, SetPending
<1> QED
  BY <1>1, <1>5, GroundStep

LEMMA AbortLoadCmdInv ==
  ASSUME LoadInv, Coordinated, NEW t \in Tables, AbortLoadCmd(t)
  PROVE  LoadInv' /\ Others(TBL, t)
<1> DEFINE r == [reg[t] EXCEPT !.LoadInProgress = None, !.LoadPending = FALSE]
<1>1. /\ TypeOK /\ LoadsOK /\ ResultsOK /\ RegOK(t) /\ TBL \in Tasks
      /\ \A h \in Access : DescOK(h)
  BY DEF LoadInv, Tasks
<1>2. reg[t] \in RegistryRec
  BY <1>1, RegFields
<1>3. /\ r \in RegistryRec /\ r.LoadInProgress = None /\ ~r.LoadPending
      /\ r.ActiveBufferIndex = reg[t].ActiveBufferIndex
      /\ r.TableLoadedOnce = reg[t].TableLoadedOnce
      /\ r.ValidateActiveIndex = reg[t].ValidateActiveIndex
      /\ r.ValidateInactiveIndex = reg[t].ValidateInactiveIndex
  BY <1>2 DEF RegistryRec
<1>4. reg' = [reg EXCEPT ![t] = r]
  <2>1. reg' = [reg EXCEPT ![t].LoadInProgress = None, ![t].LoadPending = FALSE]
    BY DEF AbortLoadCmd
  <2> QED
    BY <1>1, <2>1 DEF TypeOK
<1> HIDE DEF r
<1>5. /\ reg' \in [Tables -> RegistryRec] /\ reg'[t] = r
      /\ \A u \in Tables \ {t} : reg'[u] = reg[u]
  BY <1>1, <1>3, <1>4, RegSet
<1>6. /\ MayCommand(t) /\ reg[t].LoadInProgress # None
      /\ taken' = IF t \in DoubleBuffered THEN taken
                   ELSE Returned(reg[t].LoadInProgress)
      /\ UNCHANGED <<image, validated, desc, held, results, pc, loc>>
  BY DEF AbortLoadCmd
<1>7. LoadsOK' /\ taken' \in [Loads -> BOOLEAN]
  <2>1. taken' = IF t \notin DoubleBuffered /\ reg[t].LoadInProgress # None
                   THEN Returned(reg[t].LoadInProgress) ELSE taken
    BY <1>6
  <2>2. reg'[t].LoadInProgress = None
    BY <1>3, <1>5
  <2> QED
    BY <1>1, <1>5, <2>1, <2>2, LoadEnds
<1>8. TypeOK'
  BY <1>1, <1>3, <1>5, <1>6, <1>7 DEF TypeOK
<1>9. ResultsOK'
  BY <1>1, <1>3, <1>5, <1>6, SameRequests
<1>10. Others(TBL, t)
  <2>1. <<t, 0>> \in {<<t, 0>>, <<t, 1>>}
    OBVIOUS
  <2>2. OnlyBuffer(<<t, 0>>)
    BY <1>6 DEF OnlyBuffer
  <2> QED
    BY <1>1, <1>5, <1>6, <2>1, <2>2, OthersKept
<1>11. RegOK(t)'
  <2>1. reg[t].ValidateActiveIndex = None /\ reg[t].ValidateInactiveIndex = None
    BY <1>6, CarefulCommand
  <2>2. None \in IF t \in DoubleBuffered THEN {None, 1 - r.ActiveBufferIndex}
                                         ELSE Loads \cup {None}
    OBVIOUS
  <2> QED
    BY <1>3, <1>5, <2>1, <2>2 DEF RegOK
<1>12. ASSUME NEW h \in Access, h[2] = t PROVE DescOK(h)'
  <2>1. DescOK(h)
    BY <1>1
  <2> QED
    BY <1>3, <1>5, <1>6, <1>12, <2>1 DEF DescOK
<1>13. reg'[t].ActiveBufferIndex = reg[t].ActiveBufferIndex
  BY <1>3, <1>5
<1> QED
  BY <1>6, <1>7, <1>8, <1>9, <1>10, <1>11, <1>12, <1>13, GroundStep

(* CFE_TBL_ValidateCmd: the request and the pending result, or a result at  *)
(* once for a table without a validation function.                          *)
LEMMA ValidateCmdInv ==
  ASSUME LoadInv, Coordinated, NEW t \in Tables, NEW inactive \in BOOLEAN,
         ValidateCmd(t, inactive)
  PROVE  LoadInv' /\ Others(TBL, t)
<1>1. /\ TypeOK /\ LoadsOK /\ ResultsOK /\ RegOK(t) /\ TBL \in Tasks
      /\ \A h \in Access : DescOK(h)
  BY DEF LoadInv, Tasks
<1>2. PICK i \in Slots :
       /\ results[i] = "free"
       /\ IF t \in Checked
            THEN /\ results' = [results EXCEPT ![i] = "pending"]
                 /\ reg' = Requested(t, inactive, i)
            ELSE /\ results' = [results EXCEPT ![i] = "performed"]
                 /\ UNCHANGED reg
  BY DEF ValidateCmd
<1>3. /\ MayCommand(t) /\ UNCHANGED <<image, validated, taken, desc, held, pc, loc>>
      /\ inactive => (t \in DoubleBuffered \/ reg[t].LoadInProgress # None)
  BY DEF ValidateCmd
<1>4. /\ t \in GroundLoads /\ reg[t].TableLoadedOnce /\ ~reg[t].LoadPending
      /\ reg[t].ValidateActiveIndex = None /\ reg[t].ValidateInactiveIndex = None
  BY <1>3, CarefulCommand
<1>r. PICK r : r = IF t \notin Checked THEN reg[t]
               ELSE IF inactive THEN [reg[t] EXCEPT !.ValidateInactiveIndex = i]
                                ELSE [reg[t] EXCEPT !.ValidateActiveIndex = i]
  OBVIOUS
<1>5. reg[t] \in RegistryRec
  BY <1>1, RegFields
<1>6. /\ r \in RegistryRec /\ r.LoadInProgress = reg[t].LoadInProgress
      /\ r.ActiveBufferIndex = reg[t].ActiveBufferIndex
      /\ r.LoadPending = reg[t].LoadPending /\ r.TableLoadedOnce = reg[t].TableLoadedOnce
      /\ r.ValidateActiveIndex = IF t \in Checked /\ ~inactive THEN i ELSE None
      /\ r.ValidateInactiveIndex = IF t \in Checked /\ inactive THEN i ELSE None
  <2>1. CASE t \notin Checked
    BY <1>4, <1>5, <1>r, <2>1
  <2>2. CASE t \in Checked /\ inactive
    BY <1>4, <1>5, <1>r, <2>2 DEF RegistryRec
  <2>3. CASE t \in Checked /\ ~inactive
    BY <1>4, <1>5, <1>r, <2>3 DEF RegistryRec
  <2> QED
    BY <2>1, <2>2, <2>3
<1>7. reg' = [reg EXCEPT ![t] = r]
  <2>1. CASE t \notin Checked
    BY <1>1, <1>2, <1>r, <2>1 DEF TypeOK
  <2>2. CASE t \in Checked
    BY <1>2, <1>r, <2>2 DEF Requested
  <2> QED
    BY <2>1, <2>2
<1>8. /\ reg' \in [Tables -> RegistryRec] /\ reg'[t] = r
      /\ \A u \in Tables \ {t} : reg'[u] = reg[u]
  BY <1>1, <1>6, <1>7, RegSet
<1>9. /\ results' \in [Slots -> {"free", "pending", "performed"}]
      /\ \A j \in Slots \ {i} : results'[j] = results[j]
      /\ results'[i] = IF t \in Checked THEN "pending" ELSE "performed"
  BY <1>1, <1>2 DEF TypeOK
<1>10. TypeOK'
  BY <1>1, <1>3, <1>6, <1>8, <1>9 DEF TypeOK
<1>11. LoadsOK'
  <2>1. \A u \in Tables : reg'[u].LoadInProgress = reg[u].LoadInProgress
    BY <1>6, <1>8
  <2> QED
    BY <1>1, <1>3, <2>1 DEF LoadsOK
<1>12. ResultsOK'
  <2>1. None \notin Slots
    BY TableAssumption DEF None, Slots
  <2>2. ASSUME NEW u \in Tables \ {t}, NEW j \in Slots PROVE Refers(u, j)' <=> Refers(u, j)
    BY <1>8 DEF Refers
  <2>3. ASSUME NEW j \in Slots PROVE Refers(t, j)' <=> t \in Checked /\ j = i
    BY <1>6, <1>8, <2>1 DEF Refers
  <2>4. \A u \in Tables : ~Refers(u, i)
    BY <1>1, <1>2 DEF ResultsOK
  <2>5. ASSUME NEW j \in Slots PROVE ~Refers(t, j)
    BY <1>4, <2>1 DEF Refers
  <2>6. ASSUME NEW j \in Slots
        PROVE  results'[j] = "pending" <=> \E u \in Tables : Refers(u, j)'
    <3>1. CASE j = i
      BY <1>9, <2>2, <2>3, <2>4, <3>1
    <3>2. CASE j # i
      BY <1>1, <1>9, <2>2, <2>3, <2>5, <3>2 DEF ResultsOK
    <3> QED
      BY <3>1, <3>2
  <2>7. ASSUME NEW j \in Slots, NEW u \in Tables, NEW v \in Tables, Refers(u, j)', Refers(v, j)'
        PROVE  u = v
    BY <1>1, <2>2, <2>3, <2>4, <2>7 DEF ResultsOK
  <2> QED
    BY <2>6, <2>7 DEF ResultsOK
<1>13. Others(TBL, t)
  <2>1. <<t, 0>> \in {<<t, 0>>, <<t, 1>>}
    OBVIOUS
  <2>2. OnlyBuffer(<<t, 0>>)
    BY <1>3 DEF OnlyBuffer
  <2> QED
    BY <1>1, <1>3, <1>8, <2>1, <2>2, OthersKept
<1>14. RegOK(t)'
  BY <1>1, <1>3, <1>4, <1>6, <1>8 DEF RegOK
<1>15. ASSUME NEW h \in Access, h[2] = t PROVE DescOK(h)'
  <2>1. DescOK(h)
    BY <1>1
  <2>2. /\ reg'[t].TableLoadedOnce = reg[t].TableLoadedOnce
        /\ reg'[t].ActiveBufferIndex = reg[t].ActiveBufferIndex
        /\ reg'[t].LoadInProgress = reg[t].LoadInProgress
    BY <1>6, <1>8
  <2> QED
    BY <1>3, <1>15, <2>1, <2>2 DEF DescOK
<1>16. reg'[t].ActiveBufferIndex = reg[t].ActiveBufferIndex
  BY <1>6, <1>8
<1>17. UNCHANGED <<pc, loc, desc, held>>
  BY <1>3
<1> QED
  BY <1>3, <1>10, <1>11, <1>12, <1>13, <1>14, <1>15, <1>16, <1>17, GroundStep

LEMMA HousekeepingCmdInv ==
  ASSUME LoadInv, HousekeepingCmd
  PROVE  LoadInv'
<1>1. PICK i \in Slots : results[i] = "performed" /\ results' = [results EXCEPT ![i] = "free"]
  BY DEF HousekeepingCmd
<1>2. UNCHANGED <<reg, image, validated, taken, desc, held, pc, loc>>
  BY DEF HousekeepingCmd
<1>3. TypeOK'
  BY <1>1, <1>2 DEF LoadInv, TypeOK
<1>4. ResultsOK'
  <2>1. \A j \in Slots : results'[j] = "pending" <=> results[j] = "pending"
    BY <1>1 DEF LoadInv, TypeOK
  <2>2. \A u \in Tables, j \in Slots : Refers(u, j)' <=> Refers(u, j)
    BY <1>2 DEF Refers
  <2>3. ResultsOK
    BY DEF LoadInv
  <2> QED
    BY <2>1, <2>2, <2>3 DEF ResultsOK
<1>5. LoadsOK'
  BY <1>2 DEF LoadsOK, LoadInv
<1>6. ASSUME NEW u \in Tables PROVE RegOK(u)'
  <2>1. RegOK(u)
    BY DEF LoadInv
  <2> QED
    BY <1>2, <2>1 DEF RegOK
<1>7. ASSUME NEW h \in Access PROVE DescOK(h)'
  <2>1. DescOK(h)
    BY DEF LoadInv
  <2> QED
    BY <1>2, <2>1 DEF DescOK
<1>8. \A u : Active(u)' = Active(u) /\ Working(u)' = Working(u) /\ Unread(u)' = Unread(u)
  BY <1>2 DEF Active, Working, Inactive, Unread, UsersOf
<1>9. ASSUME NEW y \in Apps PROVE AppOK(y)'
  <2>1. AppOK(y)
    BY DEF LoadInv, TasksOK
  <2>2. \A u : Loading(y, u) => Loading(y, u)'
    BY <1>2, <1>8 DEF Loading
  <2> QED
    BY <1>2, <1>8, <2>1, <2>2 DEF AppOK
<1>10. ReadOK'
  <2>1. ReadOK
    BY DEF LoadInv, TasksOK
  <2> QED
    BY <1>2, <1>8, <2>1 DEF ReadOK
<1> QED
  BY <1>3, <1>4, <1>5, <1>6, <1>7, <1>9, <1>10 DEF LoadInv, TasksOK

-----------------------------------------------------------------------------
LEMMA LoadInit == ASSUME Init PROVE LoadInv
<1> USE DEF Init
<1>1. TypeOK
  <2>1. reg \in [Tables -> RegistryRec]
    BY DEF RegistryRec
  <2>2. image \in [Buffers -> Images] /\ held \in [Access -> Images \cup {NULL, Overtaken}]
    BY DEF Images
  <2>3. desc \in [Access -> AccessDescriptor]
    BY DEF AccessDescriptor
  <2>4. pc \in [Tasks -> Steps] /\ loc \in [Tasks -> Locals]
    BY NoLocLemma DEF Steps
  <2>5. validated \in [Buffers -> BOOLEAN] /\ taken \in [Loads -> BOOLEAN]
        /\ results \in [Slots -> {"free", "pending", "performed"}]
    OBVIOUS
  <2>6. \A t \in Tables \ DoubleBuffered : reg[t].ActiveBufferIndex = 0
    OBVIOUS
  <2> QED
    BY <2>1, <2>2, <2>3, <2>4, <2>5, <2>6 DEF TypeOK
<1>2. TasksOK
  <2>1. \A x \in Tasks : pc[x] = "idle"
    OBVIOUS
  <2> QED
    BY <2>1 DEF TasksOK, AppOK, ReadOK, Tasks
<1>3. LoadsOK
  <2>1. None \notin Loads
    BY TableAssumption DEF None, Loads
  <2>2. \A t \in Tables : reg[t].LoadInProgress = None
    OBVIOUS
  <2> QED
    BY <2>1, <2>2 DEF LoadsOK
<1>4. ResultsOK
  <2>1. None \notin Slots
    BY TableAssumption DEF None, Slots
  <2>2. \A t \in Tables : reg[t].ValidateActiveIndex = None
                          /\ reg[t].ValidateInactiveIndex = None
    OBVIOUS
  <2> QED
    BY <2>1, <2>2 DEF ResultsOK, Refers
<1>5. ASSUME NEW t \in Tables PROVE RegOK(t)
  <2>1. /\ reg[t].LoadInProgress = None /\ ~reg[t].LoadPending
        /\ reg[t].ValidateActiveIndex = None /\ reg[t].ValidateInactiveIndex = None
    OBVIOUS
  <2> QED
    BY <2>1 DEF RegOK
<1>6. ASSUME NEW h \in Access PROVE DescOK(h)
  BY DEF DescOK
<1> QED
  BY <1>1, <1>2, <1>3, <1>4, <1>5, <1>6 DEF LoadInv

LEMMA LoadNext ==
  ASSUME LoadInv, Coordinated, [Next]_vars
  PROVE  LoadInv'
<1>1. CASE UNCHANGED vars
  <2>1. UNCHANGED <<reg, image, validated, taken, desc, held, results, pc, loc>>
    BY <1>1 DEF vars
  <2>2. TBL \in Tasks
    BY DEF Tasks
  <2>3. ReadOK'
    BY <2>1 DEF LoadInv, TasksOK, ReadOK, Working, Inactive
  <2>4. TBL \notin Apps
    BY TableAssumption
  <2>5. pc' \in [Tasks -> Steps] /\ loc' \in [Tasks -> Locals]
    BY <2>1 DEF LoadInv, TypeOK
  <2> QED
    BY <2>1, <2>2, <2>3, <2>4, <2>5, QuietStep
<1>2. ASSUME NEW a \in Apps, AppStep(a) PROVE LoadInv'
  <2>1. ASSUME NEW t \in Tables, GetAddress(a, t) \/ ReleaseAddress(a, t) \/ Modified(a, t)
        PROVE  LoadInv'
    BY <2>1, GetAddressInv, ReleaseAddressInv, ModifiedInv
  <2>2. ASSUME NEW t \in Tables, NEW s \in SourcesOf[t], Load(a, t, s) PROVE LoadInv'
    BY <2>2, LoadInvStep
  <2>3. ASSUME Continue(a) PROVE LoadInv'
    BY <1>2, <2>3, GetAddressIndexInv, GetAddressStoreInv, LoadWriteInv, LoadFinishInv,
       UpdateInternalInv, ValidateRecordInv DEF Continue
  <2>4. ASSUME NEW t \in Tables, OwnerOf[t] = a, Manage(t) PROVE LoadInv'
    BY <2>4, UpdateInv, ValidateInv DEF Manage
  <2> QED
    BY <1>2, <2>1, <2>2, <2>3, <2>4 DEF AppStep
<1>3. ASSUME TableTask PROVE LoadInv'
  <2>1. ASSUME NEW t \in Tables, NEW s \in SourcesOf[t], LoadCmd(t, s) PROVE LoadInv'
    BY <2>1, LoadCmdInv
  <2>2. ASSUME NEW t \in Tables, NEW inactive \in BOOLEAN, ValidateCmd(t, inactive)
        PROVE  LoadInv'
    BY <2>2, ValidateCmdInv
  <2>3. ASSUME NEW t \in Tables, ActivateCmd(t) \/ AbortLoadCmd(t) PROVE LoadInv'
    BY <2>3, ActivateCmdInv, AbortLoadCmdInv
  <2> QED
    BY <1>3, <2>1, <2>2, <2>3, LoadCmdReadInv, HousekeepingCmdInv DEF TableTask
<1> QED
  BY <1>1, <1>2, <1>3 DEF Next

(* The inductive invariant of the loads holds as long as the ground and the *)
(* applications are coordinated.                                            *)
THEOREM LoadInvariance ==
  ASSUME Coordinated
  PROVE  Spec => []LoadInv
<1>1. Init => LoadInv
  BY LoadInit
<1>2. LoadInv /\ [Next]_vars => LoadInv'
  BY LoadNext
<1> QED
  BY <1>1, <1>2, PTL DEF Spec

(* ReadersUndisturbed: no load, update or command changes the image at an   *)
(* address that an application holds (CFE_TBL_GetAddress until              *)
(* CFE_TBL_ReleaseAddress), for any number of tables, users and loads,      *)
(* single buffered or not, whoever comes between the steps of GetAddress    *)
(* and of an update; but for an address that was Overtaken.                 *)
THEOREM ReadersSafe ==
  ASSUME Coordinated
  PROVE  Spec => []ReadersUndisturbed
<1>1. LoadInv => ReadersUndisturbed
  BY DEF LoadInv, ReadersUndisturbed, Readings, DescOK
<1> QED
  BY <1>1, LoadInvariance, PTL

(* NoLostUpdate: a user that has not been told of an update holds the       *)
(* active buffer and its image, but for an address that was Overtaken.      *)
THEOREM UpdatesSeen ==
  ASSUME Coordinated
  PROVE  Spec => []NoLostUpdate
<1>1. ASSUME LoadInv PROVE NoLostUpdate
  <2>1. ASSUME NEW h \in Readings, ~desc[h].Updated
        PROVE  /\ <<h[2], desc[h].BufferIndex>> = Active(h[2])
               /\ held[h] = image[Active(h[2])]
    <3>1. DescOK(h)
      BY <1>1 DEF LoadInv, Readings
    <3> QED
      BY <2>1, <3>1 DEF DescOK, Active, Readings
  <2> QED
    BY <2>1 DEF NoLostUpdate
<1> QED
  BY <1>1, LoadInvariance, PTL

-----------------------------------------------------------------------------
(* Active images are validated ones.                                        *)

LEMMA ImagesKept ==
  ASSUME LoadInv, NEW x \in Tasks, NEW t \in Tables, Others(x, t),
         x = TBL => pc[TBL] = "idle" \/ loc[TBL].t = t,
         NEW u \in Checked, u # t, ImagesOK(u)
  PROVE  ImagesOK(u)'
<1>1. u \in Tables \ {t} /\ RegOK(u) /\ TypeOK
  BY TableAssumption DEF LoadInv
<1>2. /\ reg'[u] = reg[u] /\ Active(u)' = Active(u) /\ Working(u)' = Working(u)
  BY <1>1 DEF Others, Active, Working, Inactive
<1>3. image'[Active(u)] = image[Active(u)]
  BY <1>1, TableBuffers DEF Others
<1>4. reg[u].LoadInProgress # None =>
        /\ image'[Working(u)] = image[Working(u)]
        /\ validated'[Working(u)] = validated[Working(u)]
  BY <1>1 DEF Others
<1>5. reg[u].LoadPending => reg[u].LoadInProgress # None
  BY <1>1 DEF RegOK
<1>6. ~(pc'[TBL] = "read" /\ loc'[TBL].t = u) => ~(pc[TBL] = "read" /\ loc[TBL].t = u)
  <2>1. CASE x = TBL
    BY <1>1, <2>1
  <2>2. CASE x # TBL
    BY <2>2 DEF Others, Tasks
  <2> QED
    BY <2>1, <2>2
<1> QED
  BY <1>2, <1>3, <1>4, <1>5, <1>6 DEF ImagesOK

(* What is left to show of a step of task x on table t.                     *)
LEMMA ImagesStep ==
  ASSUME LoadInv, ImageInv, NEW x \in Tasks, NEW t \in Tables, Others(x, t),
         x = TBL => pc[TBL] = "idle" \/ loc[TBL].t = t,
         t \in Checked => ImagesOK(t)'
  PROVE  ImageInv'
<1>1. ASSUME NEW u \in Checked PROVE ImagesOK(u)'
  <2>1. CASE u = t
    BY <2>1
  <2>2. CASE u # t
    BY <2>2, ImagesKept DEF ImageInv
  <2> QED
    BY <2>1, <2>2
<1> QED
  BY <1>1 DEF ImageInv

LEMMA SameImages ==
  ASSUME ImageInv, UNCHANGED <<reg, image, validated>>,
         pc'[TBL] = pc[TBL], loc'[TBL] = loc[TBL]
  PROVE  ImageInv'
<1>1. ASSUME NEW u \in Checked PROVE ImagesOK(u)'
  <2>1. ImagesOK(u)
    BY DEF ImageInv
  <2> QED
    BY <2>1 DEF ImagesOK, Active, Working, Inactive
<1> QED
  BY <1>1 DEF ImageInv

(* The steps of an application that change no image, record or flag.        *)
LEMMA QuietImages ==
  ASSUME LoadInv, ImageInv, NEW a \in Apps, NEW t \in Tables,
         \/ GetAddress(a, t) \/ ReleaseAddress(a, t) \/ Modified(a, t)
         \/ GetAddressIndex(a) \/ GetAddressStore(a)
         \/ Update(a, t)
  PROVE  ImageInv'
<1>1. UNCHANGED <<reg, image, validated>>
  BY DEF GetAddress, ReleaseAddress, Modified, GetAddressIndex, GetAddressStore, Taken, Update
<1>2. pc' = [pc EXCEPT ![a] = pc'[a]] /\ loc' = [loc EXCEPT ![a] = loc'[a]]
  BY DEF GetAddress, ReleaseAddress, Modified, GetAddressIndex, GetAddressStore, Taken,
         Update, Go, Done, LoadInv, TypeOK, Tasks
<1>3. pc'[TBL] = pc[TBL] /\ loc'[TBL] = loc[TBL]
  BY <1>2, TableAssumption DEF LoadInv, TypeOK, Tasks
<1> QED
  BY <1>1, <1>3, SameImages

LEMMA ValidateImages ==
  ASSUME LoadInv, ImageInv, NEW a \in Apps, NEW t \in Tables, Validate(a, t)
  PROVE  ImageInv'
<1>1. UNCHANGED <<reg, image, validated>>
  BY DEF Validate, Fault
<1>2. PICK step, l : Go(a, step, l)
  BY DEF Validate, Fault
<1>3. pc'[TBL] = pc[TBL] /\ loc'[TBL] = loc[TBL]
  BY <1>2, TableAssumption DEF LoadInv, TypeOK, Tasks, Go
<1> QED
  BY <1>1, <1>3, SameImages

LEMMA LoadImages ==
  ASSUME LoadInv, Coordinated, ImageInv, NEW a \in Apps, NEW t \in Tables,
         NEW s \in SourcesOf[t], Load(a, t, s)
  PROVE  ImageInv'
<1>1. /\ TypeOK /\ RegOK(t) /\ a \in Tasks /\ a # TBL /\ a = OwnerOf[t] /\ s \in Sources
      /\ reg[t].TableLoadedOnce => t \in Reloads
      /\ reg[t].LoadInProgress = None /\ "write" \in Steps
      /\ UNCHANGED <<validated, desc, held, results>>
      /\ GetWorkingBuffer(a, "write", t, s)
  BY TableAssumption DEF Load, LoadInv, Tasks, Sources, Steps
<1>2. CASE ~reg[t].TableLoadedOnce
  <2>1. UNCHANGED <<reg, image, validated>>
    BY <1>1, <1>2 DEF GetWorkingBuffer
  <2>2. PICK l : Go(a, "write", l)
    BY <1>1, <1>2 DEF GetWorkingBuffer
  <2>3. pc'[TBL] = pc[TBL] /\ loc'[TBL] = loc[TBL]
    BY <1>1, <2>2, TableAssumption DEF TypeOK, Tasks, Go
  <2> QED
    BY <2>1, <2>3, SameImages
<1>3. CASE reg[t].TableLoadedOnce
  <2>1. \E i, b : Takes(t, i, b)
           /\ Go(a, "write", [NoLoc EXCEPT !.t = t, !.working = b, !.src = s])
    BY <1>1, <1>3, Zenon DEF GetWorkingBuffer, Takes
  <2>2. PICK i, b : Takes(t, i, b)
           /\ Go(a, "write", [NoLoc EXCEPT !.t = t, !.working = b, !.src = s])
    BY <2>1
  <2> DEFINE l == [NoLoc EXCEPT !.t = t, !.working = b, !.src = s]
  <2>3. b \in Buffers
    <3>1. reg[t].ActiveBufferIndex \in {0, 1}
      BY <1>1, RegFields
    <3> QED
      BY <2>2, <3>1 DEF Takes, Buffers
  <2>4. l \in Locals /\ l.t = t /\ l.working = b /\ l.src = s
    BY <1>1, <2>3 DEF NoLoc, Locals
  <2>5. Go(a, "write", l)
    BY <2>2
  <2> HIDE DEF l
  <2>6. /\ pc' \in [Tasks -> Steps] /\ loc' \in [Tasks -> Locals]
        /\ pc'[a] = "write" /\ loc'[a] = l
        /\ \A y \in Tasks \ {a} : pc'[y] = pc[y] /\ loc'[y] = loc[y]
    BY <1>1, <2>4, <2>5, GoLemma
  <2>7. reg[t].ValidateActiveIndex = None /\ reg[t].ValidateInactiveIndex = None
    BY <1>1, <1>3 DEF RegOK, Coordinated
  <2>8. /\ Others(a, t) /\ image'[Active(t)] = image[Active(t)] /\ Active(t)' = Active(t)
        /\ ~reg'[t].LoadPending
    BY <1>1, <1>3, <2>2, <2>4, <2>6, <2>7, TakeBuffer
  <2>9. t \in Checked => ImagesOK(t)'
    BY <1>1, <1>3, <2>8 DEF ImagesOK, ImageInv, Coordinated
  <2> QED
    BY <1>1, <2>8, <2>9, ImagesStep
<1> QED
  BY <1>2, <1>3

LEMMA LoadCmdImages ==
  ASSUME LoadInv, Coordinated, ImageInv, NEW t \in Tables, NEW s \in SourcesOf[t],
         LoadCmd(t, s)
  PROVE  ImageInv'
<1>1. /\ TypeOK /\ RegOK(t) /\ TBL \in Tasks /\ TBL \notin Apps /\ s \in Sources
      /\ "read" \in Steps
      /\ UNCHANGED <<validated, desc, held, results>>
      /\ GetWorkingBuffer(TBL, "read", t, s)
  BY TableAssumption DEF LoadCmd, LoadInv, Tasks, Sources, Steps
<1>2. /\ pc[TBL] = "idle" /\ t \in GroundLoads
      /\ reg[t].TableLoadedOnce /\ ~reg[t].LoadPending
      /\ reg[t].ValidateActiveIndex = None /\ reg[t].ValidateInactiveIndex = None
  BY CarefulCommand DEF LoadCmd
<1>3. CASE reg[t].LoadInProgress # None
  <2> DEFINE l == [NoLoc EXCEPT !.t = t, !.working = Working(t), !.src = s]
  <2>1. Working(t) \in Buffers
    BY <1>1, <1>3, TableBuffers
  <2>2. l \in Locals /\ l.t = t
    BY <1>1, <2>1 DEF NoLoc, Locals
  <2>3. Go(TBL, "read", l) /\ UNCHANGED <<reg, image, taken>>
    BY <1>1, <1>3 DEF GetWorkingBuffer
  <2> HIDE DEF l
  <2>4. /\ pc'[TBL] = "read" /\ loc'[TBL] = l
        /\ \A y \in Tasks \ {TBL} : pc'[y] = pc[y] /\ loc'[y] = loc[y]
    BY <1>1, <2>2, <2>3, GoLemma
  <2>5. Others(TBL, t)
    BY <1>1, <2>3, <2>4 DEF Others
  <2>6. Active(t)' = Active(t)
    BY <2>3 DEF Active
  <2>7. t \in Checked => ImagesOK(t)'
    BY <1>1, <1>2, <2>2, <2>3, <2>4, <2>6 DEF ImagesOK, ImageInv
  <2> QED
    BY <1>1, <1>2, <2>5, <2>7, ImagesStep
<1>4. CASE reg[t].LoadInProgress = None
  <2>1. \E i, b : Takes(t, i, b)
           /\ Go(TBL, "read", [NoLoc EXCEPT !.t = t, !.working = b, !.src = s])
    BY <1>1, <1>2, <1>4, Zenon DEF GetWorkingBuffer, Takes
  <2>2. PICK i, b : Takes(t, i, b)
           /\ Go(TBL, "read", [NoLoc EXCEPT !.t = t, !.working = b, !.src = s])
    BY <2>1
  <2> DEFINE l == [NoLoc EXCEPT !.t = t, !.working = b, !.src = s]
  <2>3. b \in Buffers
    <3>1. reg[t].ActiveBufferIndex \in {0, 1}
      BY <1>1, RegFields
    <3> QED
      BY <2>2, <3>1 DEF Takes, Buffers
  <2>4. l \in Locals /\ l.t = t /\ l.working = b /\ l.src = s
    BY <1>1, <2>3 DEF NoLoc, Locals
  <2>5. Go(TBL, "read", l)
    BY <2>2
  <2> HIDE DEF l
  <2>6. /\ pc' \in [Tasks -> Steps] /\ loc' \in [Tasks -> Locals]
        /\ pc'[TBL] = "read" /\ loc'[TBL] = l
        /\ \A y \in Tasks \ {TBL} : pc'[y] = pc[y] /\ loc'[y] = loc[y]
    BY <1>1, <2>4, <2>5, GoLemma
  <2>7. /\ Others(TBL, t) /\ image'[Active(t)] = image[Active(t)] /\ Active(t)' = Active(t)
        /\ ~reg'[t].LoadPending
    BY <1>1, <1>2, <1>4, <2>2, <2>4, <2>6, TakeBuffer
  <2>8. t \in Checked => ImagesOK(t)'
    BY <1>1, <1>2, <2>4, <2>6, <2>7 DEF ImagesOK, ImageInv
  <2> QED
    BY <1>1, <1>2, <2>7, <2>8, ImagesStep
<1> QED
  BY <1>3, <1>4

(* A load in progress writes its working buffer and leaves the active one.  *)
LEMMA LoadWriteImages ==
  ASSUME LoadInv, Coordinated, ImageInv, NEW a \in Apps, LoadWrite(a)
  PROVE  ImageInv'
<1> PICK t, b : t = loc[a].t /\ b = loc[a].working
  OBVIOUS
<1>1. a \in Tasks /\ a # TBL /\ TypeOK /\ AppOK(a) /\ pc[a] = "write"
  BY TableAssumption DEF LoadWrite, LoadInv, TasksOK, Tasks
<1>2. Loading(a, t) /\ t \in Tables /\ RegOK(t)
  BY <1>1 DEF AppOK, Loading, LoadInv
<1>3. PICK v : image' = [image EXCEPT ![b] = v]
  BY DEF LoadWrite
<1>4. UNCHANGED <<reg, validated>>
  BY DEF LoadWrite
<1>5. Others(a, t)
  BY LoadWriteInv
<1>6. Active(t)' = Active(t) /\ Active(t) \in Buffers
  BY <1>1, <1>2, <1>4, TableBuffers DEF Active
<1>7. reg[t].TableLoadedOnce => image'[Active(t)] = image[Active(t)]
  <2>1. Working(t) # Active(t)
    BY <1>1, <1>2, TableBuffers
  <2> QED
    BY <1>1, <1>2, <1>3, <1>6, <2>1 DEF Loading, TypeOK
<1>8. ~reg[t].LoadPending /\ (reg[t].LoadInProgress # None => t \notin GroundLoads)
  BY <1>2 DEF Loading, RegOK, Coordinated
<1>9. t \in Checked => ImagesOK(t)'
  BY <1>4, <1>6, <1>7, <1>8 DEF ImagesOK, ImageInv
<1> QED
  BY <1>1, <1>2, <1>5, <1>9, ImagesStep

(* A file of the ground's has been read: its image is not validated yet.    *)
LEMMA LoadCmdReadImages ==
  ASSUME LoadInv, Coordinated, WholeFiles, ImageInv, LoadCmdRead
  PROVE  ImageInv'
<1> PICK t, b, s : t = loc[TBL].t /\ b = loc[TBL].working /\ s = loc[TBL].src
  OBVIOUS
<1>1. TBL \in Tasks /\ TypeOK /\ ReadOK /\ pc[TBL] = "read"
  BY DEF LoadCmdRead, LoadInv, TasksOK, Tasks
<1>2. /\ t \in Tables /\ t \in GroundLoads /\ s \in SourcesOf[t] /\ RegOK(t)
      /\ reg[t].TableLoadedOnce /\ reg[t].LoadInProgress # None /\ b = Working(t)
      /\ ~reg[t].LoadPending
  BY <1>1, TableAssumption DEF ReadOK, LoadInv
<1>3. PICK v : image' = [image EXCEPT ![b] = v]
  BY DEF LoadCmdRead
<1>4. UNCHANGED reg
  BY DEF LoadCmdRead
<1>5. Others(TBL, t)
  BY LoadCmdReadInv
<1>6. /\ Active(t)' = Active(t) /\ Working(t)' = Working(t)
      /\ Active(t) \in Buffers /\ b \in Buffers /\ b # Active(t)
  BY <1>1, <1>2, <1>4, TableBuffers DEF Active, Working, Inactive
<1>7. image'[Active(t)] = image[Active(t)]
  BY <1>1, <1>3, <1>6 DEF TypeOK
<1>8. t \in Checked => ~validated'[b]
  <2>1. s.form \in {"full", "partial"}
    BY <1>2 DEF WholeFiles
  <2>2. validated' = [validated EXCEPT ![b] = t \notin Checked]
    BY <2>1 DEF LoadCmdRead, ValidatedReset
  <2> QED
    BY <1>1, <1>6, <2>2 DEF TypeOK
<1>9. t \in Checked => ImagesOK(t)'
  BY <1>2, <1>4, <1>6, <1>7, <1>8 DEF ImagesOK, ImageInv
<1> QED
  BY <1>1, <1>2, <1>5, <1>9, ImagesStep

LEMMA LoadFinishImages ==
  ASSUME LoadInv, Coordinated, ImageInv, NEW a \in Apps, LoadFinish(a)
  PROVE  ImageInv'
<1> PICK t, b : t = loc[a].t /\ b = loc[a].working
  OBVIOUS
<1>1. /\ t \in Tables /\ Loading(a, t)
      /\ \/ FailedLoad(a, t)
         \/ /\ ~reg[t].TableLoadedOnce /\ FirstLoad(a, t)
            /\ t \in Checked => image[b] \in Valid
         \/ /\ reg[t].TableLoadedOnce /\ PendingLoad(a, t)
            /\ t \in Checked => image[b] \in Valid
  BY LoadFinishCases
<1>2. /\ Others(a, t) /\ a \in Tasks /\ a # TBL /\ TypeOK /\ RegOK(t) /\ reg[t] \in RegistryRec
  BY <1>1, LoadFinishInv, RegFields, TableAssumption DEF Tasks, LoadInv
<1>3. CASE FailedLoad(a, t)
  <2> DEFINE r == [reg[t] EXCEPT !.LoadInProgress = None]
  <2>1. reg' = [reg EXCEPT ![t] = r]
    BY <1>3 DEF FailedLoad
  <2>2. /\ r.LoadInProgress = None /\ r.LoadPending = reg[t].LoadPending
        /\ r.TableLoadedOnce = reg[t].TableLoadedOnce /\ r \in RegistryRec
        /\ r.ActiveBufferIndex = reg[t].ActiveBufferIndex
    BY <1>2 DEF RegistryRec
  <2> HIDE DEF r
  <2>3. reg'[t] = r
    BY <1>1, <1>2, <2>1, <2>2, RegSet
  <2>4. Active(t)' = Active(t) /\ Active(t) \in Buffers /\ Working(t) # Active(t)
    BY <1>1, <1>2, <2>2, <2>3, TableBuffers DEF Active
  <2>5. ~reg[t].LoadPending
    BY <1>1, <1>2 DEF Loading, RegOK
  <2>6. reg[t].TableLoadedOnce => image'[Active(t)] = image[Active(t)]
    <3>1. image' = [image EXCEPT ![b] = Zero] \/ image' = image
      BY <1>3 DEF FailedLoad
    <3> QED
      BY <1>1, <1>2, <2>4, <3>1 DEF Loading, TypeOK
  <2>7. t \in Checked => ImagesOK(t)'
    BY <2>2, <2>3, <2>4, <2>5, <2>6 DEF ImagesOK, ImageInv
  <2> QED
    BY <1>1, <1>2, <2>7, ImagesStep
<1>4. CASE ~reg[t].TableLoadedOnce /\ FirstLoad(a, t) /\ (t \in Checked => image[b] \in Valid)
  <2>1. PICK r : r = Notified(reg[t])
    OBVIOUS
  <2>2. /\ r \in RegistryRec /\ r.LoadInProgress = None /\ ~r.LoadPending
        /\ r.ActiveBufferIndex = reg[t].ActiveBufferIndex
    BY <1>2, <2>1, NotifiedFields
  <2>3. reg' = [reg EXCEPT ![t] = r] /\ UNCHANGED image
    BY <1>4, <2>1 DEF FirstLoad
  <2>4. reg'[t] = r
    BY <1>1, <1>2, <2>2, <2>3, RegSet
  <2>5. Active(t)' = Active(t) /\ b = Active(t)
    BY <1>1, <1>4, <2>2, <2>4 DEF Active, Loading
  <2>6. t \in Checked => ImagesOK(t)'
    BY <1>4, <2>2, <2>3, <2>4, <2>5 DEF ImagesOK
  <2> QED
    BY <1>1, <1>2, <2>6, ImagesStep
<1>5. CASE reg[t].TableLoadedOnce /\ PendingLoad(a, t) /\ (t \in Checked => image[b] \in Valid)
  <2> DEFINE r == [reg[t] EXCEPT !.LoadPending = TRUE]
  <2>1. reg' = [reg EXCEPT ![t] = r] /\ UNCHANGED image
    BY <1>5 DEF PendingLoad
  <2>2. /\ r.LoadInProgress = reg[t].LoadInProgress /\ r \in RegistryRec
        /\ r.ActiveBufferIndex = reg[t].ActiveBufferIndex
    BY <1>2 DEF RegistryRec
  <2> HIDE DEF r
  <2>3. reg'[t] = r
    BY <1>1, <1>2, <2>1, <2>2, RegSet
  <2>4. Active(t)' = Active(t) /\ Working(t)' = Working(t)
    BY <2>2, <2>3 DEF Active, Working, Inactive
  <2>5. b = Working(t) /\ t \notin GroundLoads
    BY <1>1, <1>5 DEF Loading, Coordinated
  <2>6. t \in Checked => image[Active(t)] \in Valid
    BY <1>5 DEF ImageInv, ImagesOK
  <2>7. t \in Checked => ImagesOK(t)'
    BY <1>5, <2>1, <2>4, <2>5, <2>6 DEF ImagesOK
  <2> QED
    BY <1>1, <1>2, <2>7, ImagesStep
<1> QED
  BY <1>1, <1>3, <1>4, <1>5

(* A pending load is applied.                                               *)
LEMMA UpdateInternalImages ==
  ASSUME LoadInv, Coordinated, ImageInv, NEW a \in Apps, UpdateInternal(a)
  PROVE  ImageInv'
<1> PICK t, i : t = loc[a].t /\ i = reg[t].LoadInProgress
  OBVIOUS
<1>n. PICK n : n = Notified(reg[t])
  OBVIOUS
<1>r. PICK r : r = IF t \in DoubleBuffered THEN [n EXCEPT !.ActiveBufferIndex = i] ELSE n
  OBVIOUS
<1>1. TypeOK /\ a \in Tasks /\ AppOK(a) /\ pc[a] = "update"
  BY DEF LoadInv, TasksOK, Tasks, UpdateInternal
<1>2. t \in Tables /\ reg[t].LoadPending /\ i # None
  BY <1>1 DEF AppOK
<1>3. RegOK(t) /\ reg[t] \in RegistryRec /\ reg[t].ActiveBufferIndex \in {0, 1}
  BY <1>1, <1>2, RegFields DEF LoadInv
<1>4. t \in DoubleBuffered => i = 1 - reg[t].ActiveBufferIndex
  BY <1>2, <1>3 DEF RegOK
<1>5. /\ n \in RegistryRec /\ n.LoadInProgress = None /\ ~n.LoadPending
      /\ n.ActiveBufferIndex = reg[t].ActiveBufferIndex
  BY <1>3, <1>n, NotifiedFields
<1>6. t \in DoubleBuffered => i \in {0, 1}
  BY <1>3, <1>4
<1>7. /\ r \in RegistryRec /\ r.LoadInProgress = None /\ ~r.LoadPending
      /\ r.ActiveBufferIndex = IF t \in DoubleBuffered THEN i ELSE reg[t].ActiveBufferIndex
  BY <1>5, <1>6, <1>r DEF RegistryRec
<1>8. /\ reg' = [reg EXCEPT ![t] = r]
      /\ IF t \in DoubleBuffered THEN UNCHANGED <<image, taken>>
         ELSE image' = [image EXCEPT ![<<t, 0>>] = image[LoadBuff(i)]]
  BY <1>2, <1>n, <1>r DEF UpdateInternal
<1>9. reg'[t] = r
  <2>1. reg' = [reg EXCEPT ![t] = r]
    BY <1>8
  <2> QED
    BY <1>1, <1>2, <1>7, <2>1, RegSet
<1>10. Others(a, t) /\ a # TBL
  BY UpdateInternalInv, TableAssumption
<1>11. t \in Checked => image[Working(t)] \in Valid
  BY <1>2 DEF ImageInv, ImagesOK
<1>12. t \in Checked => image'[Active(t)'] \in Valid
  <2>1. CASE t \in DoubleBuffered
    <3>1. Active(t)' = Working(t)
      BY <1>4, <1>7, <1>9, <2>1 DEF Active, Working, Inactive
    <3> QED
      BY <1>8, <1>11, <2>1, <3>1
  <2>2. CASE t \notin DoubleBuffered
    <3>1. Active(t)' = <<t, 0>> /\ <<t, 0>> \in Buffers
      BY <1>1, <1>2, <1>7, <1>9, <2>2 DEF Active, TypeOK, Buffers
    <3>2. image'[<<t, 0>>] = image[LoadBuff(i)] /\ Working(t) = LoadBuff(i)
      BY <1>1, <1>8, <2>2, <3>1 DEF TypeOK, Working
    <3> QED
      BY <1>11, <3>1, <3>2
  <2> QED
    BY <2>1, <2>2
<1>13. t \in Checked => ImagesOK(t)'
  BY <1>7, <1>9, <1>12 DEF ImagesOK
<1> QED
  BY <1>1, <1>2, <1>10, <1>13, ImagesStep

(* The flag of the image that its validation function has accepted.         *)
LEMMA ValidateRecordImages ==
  ASSUME LoadInv, Coordinated, ImageInv, NEW a \in Apps, ValidateRecord(a)
  PROVE  ImageInv'
<1> PICK t : t = loc[a].t
  OBVIOUS
<1>i. PICK inactive \in BOOLEAN : inactive = (loc[a].idx = 1)
  OBVIOUS
<1>r. PICK r : r = IF inactive THEN [reg[t] EXCEPT !.ValidateInactiveIndex = None]
                               ELSE [reg[t] EXCEPT !.ValidateActiveIndex = None]
  OBVIOUS
<1>1. TypeOK /\ a \in Tasks /\ AppOK(a) /\ pc[a] = "validate"
  BY DEF LoadInv, TasksOK, Tasks, ValidateRecord
<1>2. /\ inactive => reg[t].ValidateInactiveIndex # None
      /\ inactive /\ loc[a].ok => image[Working(t)] \in Valid
      /\ RegOK(t) /\ reg[t] \in RegistryRec
  BY <1>1, <1>i, RegFields DEF AppOK, LoadInv
<1>3. t \in Tables /\ RegOK(t) /\ reg[t] \in RegistryRec
  BY <1>1, RegFields DEF AppOK, LoadInv
<1>4. inactive => Working(t) \in Buffers
  BY <1>1, <1>2, <1>3, TableBuffers DEF RegOK
<1>5. /\ validated' = IF inactive /\ loc[a].ok THEN [validated EXCEPT ![Working(t)] = TRUE]
                                               ELSE validated
      /\ reg' = RequestDone(t, inactive) /\ UNCHANGED image
  BY <1>4, <1>i DEF ValidateRecord
<1>6. /\ r \in RegistryRec /\ r.LoadInProgress = reg[t].LoadInProgress
      /\ r.ActiveBufferIndex = reg[t].ActiveBufferIndex
      /\ r.LoadPending = reg[t].LoadPending /\ r.TableLoadedOnce = reg[t].TableLoadedOnce
  BY <1>3, <1>r DEF RegistryRec
<1>7. reg' = [reg EXCEPT ![t] = r]
  BY <1>5, <1>r DEF RequestDone
<1>8. reg'[t] = r
  BY <1>1, <1>3, <1>6, <1>7, RegSet
<1>9. Active(t)' = Active(t) /\ Working(t)' = Working(t)
  BY <1>6, <1>8 DEF Active, Working, Inactive
<1>10. Others(a, t) /\ a # TBL
  BY ValidateRecordInv, TableAssumption
<1>11. validated'[Working(t)] => validated[Working(t)] \/ image[Working(t)] \in Valid
  <2>1. CASE inactive /\ loc[a].ok
    BY <1>1, <1>i, <2>1 DEF AppOK
  <2>2. CASE ~(inactive /\ loc[a].ok)
    BY <1>5, <2>2
  <2> QED
    BY <2>1, <2>2
<1>12. pc'[TBL] = pc[TBL] /\ loc'[TBL] = loc[TBL]
  BY <1>10 DEF Others, Tasks
<1>13. t \in Checked => ImagesOK(t)'
  BY <1>5, <1>6, <1>8, <1>9, <1>11, <1>12 DEF ImagesOK, ImageInv
<1> QED
  BY <1>1, <1>3, <1>10, <1>13, ImagesStep

LEMMA ValidateCmdImages ==
  ASSUME LoadInv, Coordinated, ImageInv, NEW t \in Tables, NEW inactive \in BOOLEAN,
         ValidateCmd(t, inactive)
  PROVE  ImageInv'
<1>1. TypeOK /\ TBL \in Tasks /\ reg[t] \in RegistryRec /\ pc[TBL] = "idle" /\ Others(TBL, t)
  BY RegFields, ValidateCmdInv DEF LoadInv, Tasks, ValidateCmd, MayCommand
<1>2. PICK i \in Slots : reg' = reg \/ reg' = Requested(t, inactive, i)
  BY DEF ValidateCmd
<1>3. UNCHANGED <<image, validated, pc, loc>>
  BY DEF ValidateCmd
<1>r. PICK r : r = IF inactive THEN [reg[t] EXCEPT !.ValidateInactiveIndex = i]
                               ELSE [reg[t] EXCEPT !.ValidateActiveIndex = i]
  OBVIOUS
<1>4. /\ r \in RegistryRec /\ r.LoadInProgress = reg[t].LoadInProgress
      /\ r.ActiveBufferIndex = reg[t].ActiveBufferIndex
      /\ r.LoadPending = reg[t].LoadPending /\ r.TableLoadedOnce = reg[t].TableLoadedOnce
  BY <1>1, <1>r DEF RegistryRec
<1>5. CASE reg' = reg
  BY <1>3, <1>5, SameImages
<1>6. CASE reg' = Requested(t, inactive, i)
  <2>1. reg' = [reg EXCEPT ![t] = r]
    BY <1>6, <1>r DEF Requested
  <2>2. reg'[t] = r
    BY <1>1, <1>4, <2>1, RegSet
  <2>3. Active(t)' = Active(t) /\ Working(t)' = Working(t)
    BY <1>4, <2>2 DEF Active, Working, Inactive
  <2>4. t \in Checked => ImagesOK(t)'
    BY <1>3, <1>4, <2>2, <2>3 DEF ImagesOK, ImageInv
  <2> QED
    BY <1>1, <2>4, ImagesStep
<1> QED
  BY <1>2, <1>5, <1>6

(* Only a validated image is activated.                                     *)
LEMMA ActivateCmdImages ==
  ASSUME LoadInv, Coordinated, ImageInv, NEW t \in Tables, ActivateCmd(t)
  PROVE  ImageInv'
<1> DEFINE r == [reg[t] EXCEPT !.LoadPending = TRUE]
<1>1. /\ TypeOK /\ TBL \in Tasks /\ reg[t] \in RegistryRec /\ pc[TBL] = "idle"
      /\ Others(TBL, t) /\ t \in GroundLoads
  BY RegFields, ActivateCmdInv, CarefulCommand DEF LoadInv, Tasks, ActivateCmd
<1>2. /\ UNCHANGED <<image, validated, pc, loc>> /\ reg[t].LoadInProgress # None
      /\ validated[Working(t)]
  BY DEF ActivateCmd
<1>3. /\ r \in RegistryRec /\ r.LoadInProgress = reg[t].LoadInProgress
      /\ r.ActiveBufferIndex = reg[t].ActiveBufferIndex
      /\ r.TableLoadedOnce = reg[t].TableLoadedOnce
  BY <1>1 DEF RegistryRec
<1>4. reg' = [reg EXCEPT ![t] = r]
  BY DEF ActivateCmd
<1> HIDE DEF r
<1>5. reg'[t] = r
  BY <1>1, <1>3, <1>4, RegSet
<1>6. Active(t)' = Active(t) /\ Working(t)' = Working(t)
  BY <1>3, <1>5 DEF Active, Working, Inactive
<1>7. t \in Checked => image[Working(t)] \in Valid
  BY <1>1, <1>2 DEF ImageInv, ImagesOK
<1>8. t \in Checked => ImagesOK(t)'
  BY <1>2, <1>3, <1>5, <1>6, <1>7 DEF ImagesOK, ImageInv
<1> QED
  BY <1>1, <1>8, ImagesStep

LEMMA AbortLoadCmdImages ==
  ASSUME LoadInv, Coordinated, ImageInv, NEW t \in Tables, AbortLoadCmd(t)
  PROVE  ImageInv'
<1> DEFINE r == [reg[t] EXCEPT !.LoadInProgress = None, !.LoadPending = FALSE]
<1>1. /\ TypeOK /\ TBL \in Tasks /\ reg[t] \in RegistryRec /\ pc[TBL] = "idle"
      /\ Others(TBL, t)
  BY RegFields, AbortLoadCmdInv, CarefulCommand DEF LoadInv, Tasks, AbortLoadCmd
<1>2. UNCHANGED image
  BY DEF AbortLoadCmd
<1>3. /\ r \in RegistryRec /\ r.LoadInProgress = None /\ ~r.LoadPending
      /\ r.ActiveBufferIndex = reg[t].ActiveBufferIndex
      /\ r.TableLoadedOnce = reg[t].TableLoadedOnce
  BY <1>1 DEF RegistryRec
<1>4. reg' = [reg EXCEPT ![t] = r]
  <2>1. reg' = [reg EXCEPT ![t].LoadInProgress = None, ![t].LoadPending = FALSE]
    BY DEF AbortLoadCmd
  <2> QED
    BY <1>1, <2>1 DEF TypeOK
<1> HIDE DEF r
<1>5. reg'[t] = r
  BY <1>1, <1>3, <1>4, RegSet
<1>6. Active(t)' = Active(t)
  BY <1>3, <1>5 DEF Active
<1>7. t \in Checked => ImagesOK(t)'
  BY <1>2, <1>3, <1>5, <1>6 DEF ImagesOK, ImageInv
<1> QED
  BY <1>1, <1>7, ImagesStep

LEMMA ImageNext ==
  ASSUME LoadInv, Coordinated, WholeFiles, ImageInv, [Next]_vars
  PROVE  ImageInv'
<1>1. CASE UNCHANGED vars
  BY <1>1, SameImages DEF vars
<1>2. ASSUME NEW a \in Apps, AppStep(a) PROVE ImageInv'
  <2>1. ASSUME NEW t \in Tables, GetAddress(a, t) \/ ReleaseAddress(a, t) \/ Modified(a, t)
        PROVE  ImageInv'
    BY <2>1, QuietImages
  <2>2. ASSUME NEW t \in Tables, NEW s \in SourcesOf[t], Load(a, t, s) PROVE ImageInv'
    BY <2>2, LoadImages
  <2>3. ASSUME Continue(a) PROVE ImageInv'
    <3>1. ASSUME GetAddressIndex(a) \/ GetAddressStore(a) PROVE ImageInv'
      <4>1. loc[a].t \in Tables
        <5>1. AppOK(a) /\ pc[a] \in {"lock", "index"}
          BY <3>1 DEF GetAddressIndex, GetAddressStore, LoadInv, TasksOK
        <5>2. <<a, loc[a].t>> \in Access
          BY <5>1, TableAssumption DEF AppOK
        <5> QED
          BY <5>2, TableAssumption
      <4> QED
        BY <3>1, <4>1, QuietImages
    <3> QED
      BY <1>2, <2>3, <3>1, LoadWriteImages, LoadFinishImages, UpdateInternalImages,
         ValidateRecordImages DEF Continue
  <2>4. ASSUME NEW t \in Tables, OwnerOf[t] = a, Manage(t) PROVE ImageInv'
    BY <2>4, QuietImages, ValidateImages DEF Manage
  <2> QED
    BY <1>2, <2>1, <2>2, <2>3, <2>4 DEF AppStep
<1>3. ASSUME TableTask PROVE ImageInv'
  <2>1. ASSUME NEW t \in Tables, NEW s \in SourcesOf[t], LoadCmd(t, s) PROVE ImageInv'
    BY <2>1, LoadCmdImages
  <2>2. ASSUME NEW t \in Tables, NEW inactive \in BOOLEAN, ValidateCmd(t, inactive)
        PROVE  ImageInv'
    BY <2>2, ValidateCmdImages
  <2>3. ASSUME NEW t \in Tables, ActivateCmd(t) \/ AbortLoadCmd(t) PROVE ImageInv'
    BY <2>3, ActivateCmdImages, AbortLoadCmdImages
  <2>4. ASSUME HousekeepingCmd PROVE ImageInv'
    BY <2>4, SameImages DEF HousekeepingCmd
  <2> QED
    BY <1>3, <2>1, <2>2, <2>3, <2>4, LoadCmdReadImages DEF TableTask
<1> QED
  BY <1>1, <1>2, <1>3 DEF Next

(* ActiveImageValidated: the active image of a loaded table is one that its *)
(* validation function accepts, whoever loaded it and whichever loads were  *)
(* aborted or refused (CFE_TBL_ActivateCmd, CFE_TBL_Load), for files that   *)
(* hold what their headers say.                                             *)
THEOREM ActiveImagesValid ==
  ASSUME Coordinated, WholeFiles
  PROVE  Spec => []ActiveImageValidated
<1>1. ASSUME Init PROVE ImageInv
  <2>1. \A t \in Checked : /\ ~reg[t].TableLoadedOnce /\ ~reg[t].LoadPending
                           /\ reg[t].LoadInProgress = None
    BY <1>1, TableAssumption DEF Init
  <2> QED
    BY <2>1 DEF ImageInv, ImagesOK
<1>2. LoadInv /\ ImageInv /\ [Next]_vars => ImageInv'
  BY ImageNext
<1>3. ImageInv => ActiveImageValidated
  BY DEF ImageInv, ImagesOK, ActiveImageValidated
<1>4. Spec => []LoadInv
  BY LoadInvariance
<1>5. Init => ImageInv
  BY <1>1
<1> QED
  BY <1>2, <1>3, <1>4, <1>5, PTL DEF Spec
=============================================================================

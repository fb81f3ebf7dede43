------------------------- MODULE TableRegistryProofs -------------------------
(***************************************************************************)
(* Proofs about TableRegistry: the access lists, the memory of the tables,  *)
(* their load buffers and their dumps, for any number of tables, handles,   *)
(* buffers and applications.                                                *)
(***************************************************************************)
EXTENDS TableRegistry, FiniteSetTheorems, WellFoundedInduction, TLAPS

(* How the services are used.  The ground waits for the report of a dump,   *)
(* no table loses a user while the Table Services task works on a dump, an  *)
(* application that unregisters tables neither exits nor is removed, the    *)
(* owner of a dump-only table neither unregisters nor is removed by force,  *)
(* and the id of an application that has exited is not used again.          *)
Leavers == Exiting \cup Killing
Disciplined ==
  /\ Careful /\ Windows = {} /\ Restarting = {}
  /\ Unregistering \cap Leavers = {}
  /\ \A t \in DumpOnly : OwnerOf[t] \notin Unregistering \cup Killing

-----------------------------------------------------------------------------
(* The inductive invariant *)

Owner(r) == Registry[r].OwnerAppId
HeadOf(r) == Registry[r].HeadOfAccessList
LoadOf(r) == Registry[r].LoadInProgress
Used(h) == Desc[h].UsedFlag

(* The links: forwards and backwards, between descriptors of one table.     *)
LinkInv ==
  /\ \A r \in Regs : HeadOf(r) # None =>
       Used(HeadOf(r)) /\ Desc[HeadOf(r)].RegIndex = r
  /\ \A h \in Handles : Used(h) =>
       /\ HeadOf(Desc[h].RegIndex) # None
       /\ Desc[h].PrevLink = None <=> h = HeadOf(Desc[h].RegIndex)
       /\ LET n == Desc[h].NextLink IN n # None =>
            Used(n) /\ Desc[n].RegIndex = Desc[h].RegIndex /\ Desc[n].PrevLink = h
       /\ LET p == Desc[h].PrevLink IN p # None =>
            Used(p) /\ Desc[p].RegIndex = Desc[h].RegIndex /\ Desc[p].NextLink = h

(* A rank that grows along every list: a list has no cycle, so a table      *)
(* whose list ends at its head has no other user.                           *)
Ranks(k) == \A h \in Handles :
              Used(h) /\ Desc[h].PrevLink # None => k[Desc[h].PrevLink] < k[h]
RankInv == \E k \in [Handles -> Nat] : Ranks(k)

(* An owned table is its owner's, the owner is one of its users, and only a *)
(* dump-only table waits for a dump.                                        *)
OwnerInv ==
  \A r \in Regs : Owner(r) # NULL =>
    /\ Registry[r].Name \in Tables /\ Owner(r) = OwnerOf[Registry[r].Name]
    /\ Registry[r].DoubleBuffered <=> Registry[r].Name \in DoubleBuffered
    /\ \E h \in Handles : ValidAccess(Owner(r), h) /\ Desc[h].RegIndex = r
    /\ Registry[r].DumpControlIndex # None => Registry[r].Name \in DumpOnly

(* A table has the buffers its options ask for while it has a user, and     *)
(* none otherwise; a buffer is in one place.                                *)
BufferAt(r, i) == Registry[r].Buffers[i]
MemoryInv ==
  /\ \A r \in Regs : IF HeadOf(r) = None
       THEN BufferAt(r, 1) = NULL /\ BufferAt(r, 2) = NULL
       ELSE /\ BufferAt(r, 1) \in Buffers
            /\ IF Registry[r].DoubleBuffered
               THEN BufferAt(r, 2) \in Buffers /\ BufferAt(r, 2) # BufferAt(r, 1)
               ELSE BufferAt(r, 2) = NULL
  /\ \A r \in Regs, i \in {1, 2} : BufferAt(r, i) \notin pool
  /\ \A r, s \in Regs, i, j \in {1, 2} :
       r # s /\ BufferAt(r, i) # NULL => BufferAt(r, i) # BufferAt(s, j)
  /\ \A b \in Buffers : \/ b \in pool \cup lost
                        \/ \E r \in Regs, i \in {1, 2} : BufferAt(r, i) = b

(* A load buffer is taken by one table, which has a user to give it back.   *)
LoadInv ==
  /\ \A r \in Regs : LoadOf(r) # None =>
       ~Registry[r].DoubleBuffered /\ HeadOf(r) # None /\ Taken[LoadOf(r)]
  /\ \A r, s \in Regs : LoadOf(r) # None /\ LoadOf(r) = LoadOf(s) => r = s
  /\ \A i \in Loads : Taken[i] => \E r \in Regs : LoadOf(r) = i

(* The clean-up of application a has dropped its dumps.                     *)
Leaving(a) == pc[ES].at \in {"mark", "remove"} /\ pc[ES].arg = a

(* A dump under way is of a table with an owner and a load buffer, one of a *)
(* table at a time, and a table waits for no dump but its own.              *)
DumpInv ==
  /\ \A i \in Loads : Dumps[i].State # "free" =>
       LET r == Dumps[i].RegRecPtr IN
       /\ r \in Regs /\ Owner(r) # NULL /\ Registry[r].Name \in DumpOnly
       /\ LoadOf(r) # None /\ ~Leaving(Owner(r))
       /\ Dumps[i].State = "pending" => Registry[r].DumpControlIndex = i
  /\ \A i, j \in Loads :
       /\ Dumps[i].State # "free" /\ Dumps[j].State # "free"
       /\ Dumps[i].RegRecPtr = Dumps[j].RegRecPtr
       => i = j
  /\ \A r \in Regs : LET i == Registry[r].DumpControlIndex IN
       Owner(r) # NULL /\ i # None /\ ~Leaving(Owner(r)) =>
         Dumps[i].State = "pending" /\ Dumps[i].RegRecPtr = r

(* A descriptor that its application removes: in use, and the application   *)
(* has left the ownership of the table before.                              *)
Removing(a, h) == /\ h \in Handles /\ ValidAccess(a, h)
                  /\ Owner(Desc[h].RegIndex) # a

(* Where the tasks of applications, the Table Services task and ES are.     *)
AppsAt ==
  \A a \in Apps : \/ pc[a].at = "idle"
                  \/ /\ pc[a].at = "remove" /\ a \in Unregistering
                     /\ Removing(a, pc[a].arg)
DumperAt ==
  \/ pc[TBL].at = "idle"
  \/ /\ pc[TBL].at = "dump" /\ pc[ES].at \in {"idle", "dumps"}
     /\ LET r == pc[TBL].arg IN
        /\ r \in Regs /\ Owner(r) # NULL /\ Registry[r].Name \in DumpOnly
        /\ \A i \in Loads : Dumps[i].State # "free" => Dumps[i].RegRecPtr # r
  \/ /\ pc[TBL].at = "file" /\ pc[TBL].i \in Loads
     /\ Dumps[pc[TBL].i].State = "performed"
     /\ Dumps[pc[TBL].i].RegRecPtr = pc[TBL].arg
CleanerAt ==
  LET a == pc[ES].arg
      k == pc[ES].i
  IN \/ pc[ES].at = "idle"
     \/ /\ pc[ES].at \in {"dumps", "mark", "remove"}
        /\ \/ a \in Exiting /\ app[a] = "exiting"
           \/ a \in Killing /\ app[a] = "killed"
        /\ pc[ES].at # "dumps" =>
             /\ k \in 0 .. NumHandles
             /\ \A h \in Handles : h < k => ~ValidAccess(a, h) \/ Desc[h].Late
        /\ pc[ES].at = "remove" => Removing(a, k)
ControlInv ==
  /\ pc = [x \in Apps \cup {TBL, ES} |-> pc[x]]
  /\ AppsAt /\ DumperAt /\ CleanerAt

(* A descriptor in use is a live application's, or was taken while the      *)
(* application was being removed; only the application that is being        *)
(* removed takes one then.  One that an application with an exit before it  *)
(* has left carries the application's id only where the clean-up does not   *)
(* look any more.                                                           *)
UserInv ==
  /\ \A h \in Handles : Used(h) =>
       /\ Desc[h].AppId \in Apps
       /\ app[Desc[h].AppId] # "gone" \/ Desc[h].Late
       /\ Desc[h].Late => app[Desc[h].AppId] \in {"killed", "gone"}
  /\ \A h \in Handles : ~Used(h) /\ Desc[h].AppId \in Leavers =>
       \/ app[Desc[h].AppId] = "gone"
       \/ Leaving(Desc[h].AppId) /\ h < pc[ES].i
  /\ \A a \in Apps : app[a] = "killed" => a \in Killing

RegistryInv ==
  /\ TypeOK /\ LinkInv /\ RankInv /\ OwnerInv /\ MemoryInv /\ LoadInv /\ DumpInv
  /\ ControlInv /\ UserInv

-----------------------------------------------------------------------------
(* Constants, searches and types *)

(* What the proofs use of the constants.                                    *)
LEMMA ConstantsOK ==
  /\ None \notin Regs \cup Handles \cup Loads
  /\ Regs \subseteq Nat /\ Handles \subseteq Nat /\ Loads \subseteq Nat
  /\ Buffers \subseteq Nat /\ NULL \notin Buffers /\ NULL \notin Apps
  /\ TBL \notin Apps /\ ES \notin Apps /\ TBL # ES
  /\ Handles = {h \in Nat : h < NumHandles} /\ NumHandles \in Nat
BY RegistryAssumption DEF None, Regs, Handles, Loads, Buffers

(* A nonempty set of naturals has a least element.                         *)
LEMMA LeastExists ==
  ASSUME NEW S, S \subseteq Nat, S # {}
  PROVE  \E x \in S : \A y \in S : x <= y
<1> DEFINE R == OpToRel(<, Nat)
<1>1. R = {ss \in Nat \X Nat : ss[1] < ss[2]}
  BY DEF OpToRel
<1>2. IsWellFoundedOn(R, Nat)
  BY NatLessThanWellFounded
<1> HIDE DEF R
<1>3. \A x, y \in Nat : y < x => <<y, x>> \in R
  BY <1>1
<1>4. PICK x \in S : \A y \in S : <<y, x>> \notin R
  BY <1>2, WFMin
<1>5. ASSUME NEW y \in S PROVE x <= y
  <2>1. x \in Nat /\ y \in Nat
    OBVIOUS
  <2>2. ~(y < x)
    BY <2>1, <1>3, <1>4
  <2> QED
    BY <2>1, <2>2
<1> QED
  BY <1>4, <1>5

(* A search that can succeed returns one of the entries it looks for.       *)
LEMMA FirstFound ==
  ASSUME NEW S, S \subseteq Nat, S # {}
  PROVE  First(S) \in S
<1>1. \E x \in S : \A y \in S : x <= y
  BY LeastExists
<1> QED
  BY <1>1 DEF First

(* The types of a record of the registry and of an access descriptor.       *)
RegRecs == [OwnerAppId : Apps \cup {NULL}, Name : Tables \cup {NULL},
            DoubleBuffered : BOOLEAN,
            Buffers : (Buffers \cup {NULL}) \X (Buffers \cup {NULL}),
            HeadOfAccessList : Handles \cup {None},
            LoadInProgress : Loads \cup {None}, DumpControlIndex : Loads \cup {None}]
DescRecs == [UsedFlag : BOOLEAN, AppId : Apps \cup {NULL}, Late : BOOLEAN,
             RegIndex : Regs,
             PrevLink : Handles \cup {None}, NextLink : Handles \cup {None}]
DumpRecs == [State : {"free", "pending", "performed"}, RegRecPtr : Regs \cup {None}]

LEMMA Types ==
  TypeOK <=> /\ Registry \in [Regs -> RegRecs] /\ Desc \in [Handles -> DescRecs]
             /\ Taken \in [Loads -> BOOLEAN] /\ Dumps \in [Loads -> DumpRecs]
             /\ pool \subseteq Buffers /\ lost \subseteq Buffers
             /\ app \in [Apps -> {"new", "up", "exiting", "killed", "gone"}]
             /\ \A x \in Apps \cup {TBL, ES} : pc[x].at \in
                  {"idle", "remove", "dump", "file", "dumps", "mark", "fault"}
BY DEF TypeOK, RegRecs, DescRecs, DumpRecs

(* The fields that a dump changes.                                          *)
LEMMA RecUpdate ==
  ASSUME NEW x \in RegRecs, NEW b \in Loads \cup {None}, NEW c \in Loads \cup {None}
  PROVE  /\ [x EXCEPT !.LoadInProgress = b, !.DumpControlIndex = c] \in RegRecs
         /\ [x EXCEPT !.LoadInProgress = b] \in RegRecs
         /\ [x EXCEPT !.DumpControlIndex = c] \in RegRecs
BY DEF RegRecs

(* The parts of the state that two records hold.                            *)
LEMMA Fields ==
  ASSUME TypeOK
  PROVE  /\ \A r \in Regs : /\ Registry[r] \in RegRecs
                            /\ Owner(r) \in Apps \cup {NULL}
                            /\ HeadOf(r) \in Handles \cup {None}
                            /\ LoadOf(r) \in Loads \cup {None}
                            /\ Registry[r].DumpControlIndex \in Loads \cup {None}
                            /\ BufferAt(r, 1) \in Buffers \cup {NULL}
                            /\ BufferAt(r, 2) \in Buffers \cup {NULL}
                            /\ Registry[r].DoubleBuffered \in BOOLEAN
                            /\ Registry[r].Name \in Tables \cup {NULL}
         /\ \A h \in Handles : /\ Desc[h] \in DescRecs
                               /\ Used(h) \in BOOLEAN /\ Desc[h].RegIndex \in Regs
                               /\ Desc[h].AppId \in Apps \cup {NULL}
                               /\ Desc[h].PrevLink \in Handles \cup {None}
                               /\ Desc[h].NextLink \in Handles \cup {None}
         /\ \A i \in Loads : /\ Dumps[i].State \in {"free", "pending", "performed"}
                             /\ Dumps[i].RegRecPtr \in Regs \cup {None}
                             /\ Taken[i] \in BOOLEAN
<1>1. /\ Registry \in [Regs -> RegRecs] /\ Desc \in [Handles -> DescRecs]
      /\ Taken \in [Loads -> BOOLEAN] /\ Dumps \in [Loads -> DumpRecs]
  BY Types
<1>2. ASSUME NEW r \in Regs
      PROVE  /\ Registry[r] \in RegRecs
             /\ Owner(r) \in Apps \cup {NULL}
             /\ HeadOf(r) \in Handles \cup {None}
             /\ LoadOf(r) \in Loads \cup {None}
             /\ Registry[r].DumpControlIndex \in Loads \cup {None}
             /\ BufferAt(r, 1) \in Buffers \cup {NULL}
             /\ BufferAt(r, 2) \in Buffers \cup {NULL}
             /\ Registry[r].DoubleBuffered \in BOOLEAN
             /\ Registry[r].Name \in Tables \cup {NULL}
  <2>1. Registry[r] \in RegRecs
    BY <1>1
  <2> QED
    BY <2>1 DEF RegRecs, Owner, HeadOf, LoadOf, BufferAt
<1>3. ASSUME NEW h \in Handles
      PROVE  /\ Desc[h] \in DescRecs
             /\ Used(h) \in BOOLEAN /\ Desc[h].RegIndex \in Regs
             /\ Desc[h].AppId \in Apps \cup {NULL}
             /\ Desc[h].PrevLink \in Handles \cup {None}
             /\ Desc[h].NextLink \in Handles \cup {None}
  <2>1. Desc[h] \in DescRecs
    BY <1>1
  <2> QED
    BY <2>1 DEF DescRecs, Used
<1>4. ASSUME NEW i \in Loads
      PROVE  /\ Dumps[i].State \in {"free", "pending", "performed"}
             /\ Dumps[i].RegRecPtr \in Regs \cup {None}
             /\ Taken[i] \in BOOLEAN
  BY <1>1 DEF DumpRecs
<1> QED
  BY <1>2, <1>3, <1>4

-----------------------------------------------------------------------------
(* Steps that leave a part of the state alone *)

LEMMA LinksKept ==
  ASSUME LinkInv, RankInv, TypeOK, Desc' = Desc,
         \A r \in Regs : HeadOf(r)' = HeadOf(r)
  PROVE  LinkInv' /\ RankInv'
<1>1. \A h \in Handles : Desc[h].RegIndex \in Regs
  BY Fields
<1> QED
  BY <1>1 DEF LinkInv, RankInv, Ranks, Used

LEMMA MemoryKept ==
  ASSUME MemoryInv, pool' = pool, lost' = lost,
         \A r \in Regs : /\ HeadOf(r)' = HeadOf(r)
                         /\ Registry'[r].DoubleBuffered = Registry[r].DoubleBuffered
                         /\ \A i \in {1, 2} : BufferAt(r, i)' = BufferAt(r, i)
  PROVE  MemoryInv'
BY DEF MemoryInv

LEMMA LoadsKept ==
  ASSUME LoadInv, Taken' = Taken,
         \A r \in Regs : /\ HeadOf(r)' = HeadOf(r) /\ LoadOf(r)' = LoadOf(r)
                         /\ Registry'[r].DoubleBuffered = Registry[r].DoubleBuffered
  PROVE  LoadInv'
BY DEF LoadInv

LEMMA OwnersKept ==
  ASSUME OwnerInv, Desc' = Desc,
         \A r \in Regs : /\ Owner(r)' = Owner(r) /\ Registry'[r].Name = Registry[r].Name
                         /\ Registry'[r].DoubleBuffered = Registry[r].DoubleBuffered
                         /\ Registry'[r].DumpControlIndex # None =>
                              \/ Registry[r].DumpControlIndex # None
                              \/ Registry[r].Name \in DumpOnly
  PROVE  OwnerInv'
BY DEF OwnerInv, ValidAccess

(* A task goes somewhere; the others stay.                                  *)
LEMMA GoFacts ==
  ASSUME ControlInv, NEW x \in Apps \cup {TBL, ES}, NEW v,
         pc' = [pc EXCEPT ![x] = v]
  PROVE  /\ pc'[x] = v
         /\ \A y \in Apps \cup {TBL, ES} : y # x => pc'[y] = pc[y]
         /\ pc' = [y \in Apps \cup {TBL, ES} |-> pc'[y]]
BY DEF ControlInv

LEMMA StayFacts ==
  ASSUME ControlInv, pc' = pc
  PROVE  pc' = [y \in Apps \cup {TBL, ES} |-> pc'[y]]
BY DEF ControlInv

(* The places tasks can be in are those of the type invariant.              *)
LEMMA PlacesTyped ==
  ASSUME ControlInv'
  PROVE  \A x \in Apps \cup {TBL, ES} : pc'[x].at \in
           {"idle", "remove", "dump", "file", "dumps", "mark", "fault"}
<1> SUFFICES ASSUME NEW x \in Apps \cup {TBL, ES}
             PROVE  pc'[x].at \in
                      {"idle", "remove", "dump", "file", "dumps", "mark", "fault"}
  OBVIOUS
<1>1. CASE x \in Apps
  BY <1>1 DEF ControlInv, AppsAt
<1>2. CASE x = TBL
  BY <1>2 DEF ControlInv, DumperAt
<1>3. CASE x = ES
  BY <1>3 DEF ControlInv, CleanerAt
<1> QED
  BY <1>1, <1>2, <1>3

(* A step that changes no table, descriptor or buffer.                      *)
TablesSame == UNCHANGED <<Registry, Desc, Taken, Dumps, pool, lost>>

LEMMA TablesSameOK ==
  ASSUME RegistryInv, TablesSame
  PROVE  /\ LinkInv' /\ RankInv' /\ OwnerInv' /\ MemoryInv' /\ LoadInv'
<1>1. /\ \A r \in Regs : /\ HeadOf(r)' = HeadOf(r) /\ LoadOf(r)' = LoadOf(r)
                         /\ Owner(r)' = Owner(r)
                         /\ \A i \in {1, 2} : BufferAt(r, i)' = BufferAt(r, i)
      /\ Registry' = Registry /\ Desc' = Desc /\ Taken' = Taken
      /\ pool' = pool /\ lost' = lost
  BY DEF TablesSame, HeadOf, LoadOf, Owner, BufferAt
<1> QED
  BY <1>1, LinksKept, MemoryKept, LoadsKept, OwnersKept DEF RegistryInv

(* The applications' tasks stay where they are or come back from a call.    *)
LEMMA AppsStay ==
  ASSUME AppsAt,
         \A b \in Apps : pc'[b] = pc[b] \/ pc'[b].at = "idle",
         \A b \in Apps : pc'[b] = pc[b] /\ pc[b].at = "remove"
                           /\ Removing(b, pc[b].arg) => Removing(b, pc[b].arg)'
  PROVE  AppsAt'
<1> SUFFICES ASSUME NEW b \in Apps, pc'[b].at # "idle"
             PROVE  /\ pc'[b].at = "remove" /\ b \in Unregistering
                    /\ Removing(b, pc[b].arg)' /\ pc'[b].arg = pc[b].arg
  BY DEF AppsAt, Removing, ValidAccess, Owner
<1>1. pc'[b] = pc[b]
  OBVIOUS
<1>2. pc[b].at = "remove" /\ b \in Unregistering /\ Removing(b, pc[b].arg)
  BY <1>1 DEF AppsAt
<1> QED
  BY <1>1, <1>2

(* The descriptors, the applications and the clean-up stay as they are.     *)
LEMMA UsersStay ==
  ASSUME UserInv, Desc' = Desc, app' = app, pc'[ES] = pc[ES]
  PROVE  UserInv'
BY DEF UserInv, Used, Leaving

(* CFE_TBL_DumpCmd finds the table.                                         *)
LEMMA DumpCmdOK ==
  ASSUME RegistryInv, Disciplined, NEW t \in Tables, DumpCmd(t)
  PROVE  RegistryInv'
<1> DEFINE r0 == First(Registered(t))
<1>1. r0 \in Registered(t)
  <2>1. Registered(t) \subseteq Nat /\ Registered(t) # {}
    BY ConstantsOK DEF DumpCmd, Registered
  <2> QED
    BY <2>1, FirstFound
<1>2. r0 \in Regs /\ Owner(r0) # NULL /\ Registry[r0].Name \in DumpOnly
  BY <1>1 DEF Registered, Owner, DumpCmd
<1>3. \A i \in Loads : Dumps[i].State # "free" => Dumps[i].RegRecPtr # r0
  BY <1>1 DEF DumpCmd, Disciplined
<1>4. pc[ES].at = "idle"
  BY DEF DumpCmd, MayDump, Disciplined
<1>5. pc' = [pc EXCEPT ![TBL] = [at |-> "dump", arg |-> r0, i |-> None]]
  BY DEF DumpCmd, Go
<1> HIDE DEF r0
<1>6. ControlInv
  BY DEF RegistryInv
<1>7. /\ pc'[TBL] = [at |-> "dump", arg |-> r0, i |-> None]
      /\ \A y \in Apps \cup {TBL, ES} : y # TBL => pc'[y] = pc[y]
      /\ pc' = [y \in Apps \cup {TBL, ES} |-> pc'[y]]
  BY <1>5, <1>6, GoFacts
<1>8. TablesSame /\ app' = app
  BY DEF DumpCmd, TablesSame
<1>9. pc'[ES] = pc[ES] /\ \A a \in Apps : pc'[a] = pc[a]
  BY <1>7, ConstantsOK
<1>10. LinkInv' /\ RankInv' /\ OwnerInv' /\ MemoryInv' /\ LoadInv'
  BY <1>8, TablesSameOK
<1>11. DumpInv' /\ UserInv'
  <2>1. UserInv'
    BY <1>8, <1>9, UsersStay DEF RegistryInv, TablesSame
  <2> QED
    BY <2>1, <1>8, <1>9 DEF RegistryInv, DumpInv, TablesSame, Owner, LoadOf, Leaving
<1>12. AppsAt' /\ CleanerAt'
  BY <1>8, <1>9, <1>6 DEF ControlInv, AppsAt, CleanerAt, TablesSame, Removing,
     ValidAccess, Owner
<1>13. DumperAt'
  BY <1>2, <1>3, <1>4, <1>7, <1>8, <1>9 DEF DumperAt, TablesSame, Owner
<1>14. ControlInv'
  BY <1>7, <1>12, <1>13 DEF ControlInv
<1>15. TypeOK'
  BY <1>8, <1>14, PlacesTyped DEF RegistryInv, TypeOK, TablesSame
<1> QED
  BY <1>10, <1>11, <1>14, <1>15 DEF RegistryInv

(* CFE_TBL_HousekeepingCmd finds a dump to write.                           *)
LEMMA HousekeepingCmdOK ==
  ASSUME RegistryInv, HousekeepingCmd
  PROVE  RegistryInv'
<1> DEFINE performed == {i \in Loads : Dumps[i].State = "performed"}
           i0 == First(performed)
<1>1. i0 \in performed
  <2>1. performed \subseteq Nat /\ performed # {}
    BY ConstantsOK DEF HousekeepingCmd
  <2> QED
    BY <2>1, FirstFound
<1>2. i0 \in Loads /\ Dumps[i0].State = "performed"
  BY <1>1
<1>5. pc' = [pc EXCEPT ![TBL] =
               [at |-> "file", arg |-> Dumps[i0].RegRecPtr, i |-> i0]]
  BY DEF HousekeepingCmd, Go
<1> HIDE DEF i0
<1>6. ControlInv
  BY DEF RegistryInv
<1>7. /\ pc'[TBL] = [at |-> "file", arg |-> Dumps[i0].RegRecPtr, i |-> i0]
      /\ \A y \in Apps \cup {TBL, ES} : y # TBL => pc'[y] = pc[y]
      /\ pc' = [y \in Apps \cup {TBL, ES} |-> pc'[y]]
  BY <1>5, <1>6, GoFacts
<1>8. TablesSame /\ app' = app
  BY DEF HousekeepingCmd, TablesSame
<1>9. pc'[ES] = pc[ES] /\ \A a \in Apps : pc'[a] = pc[a]
  BY <1>7, ConstantsOK
<1>10. LinkInv' /\ RankInv' /\ OwnerInv' /\ MemoryInv' /\ LoadInv'
  BY <1>8, TablesSameOK
<1>11. DumpInv' /\ UserInv'
  <2>1. UserInv'
    BY <1>8, <1>9, UsersStay DEF RegistryInv, TablesSame
  <2> QED
    BY <2>1, <1>8, <1>9 DEF RegistryInv, DumpInv, TablesSame, Owner, LoadOf, Leaving
<1>12. AppsAt' /\ CleanerAt'
  BY <1>8, <1>9, <1>6 DEF ControlInv, AppsAt, CleanerAt, TablesSame, Removing,
     ValidAccess, Owner
<1>13. DumperAt'
  BY <1>2, <1>7, <1>8 DEF DumperAt, TablesSame
<1>14. ControlInv'
  BY <1>7, <1>12, <1>13 DEF ControlInv
<1>15. TypeOK'
  BY <1>8, <1>14, PlacesTyped DEF RegistryInv, TypeOK, TablesSame
<1> QED
  BY <1>10, <1>11, <1>14, <1>15 DEF RegistryInv

(* An application starts.                                                   *)
LEMMA StartAppOK ==
  ASSUME RegistryInv, Disciplined, NEW a \in Apps, StartApp(a)
  PROVE  RegistryInv'
<1>1. app[a] = "new" /\ app' = [app EXCEPT ![a] = "up"]
  BY DEF StartApp, Disciplined
<1>2. TablesSame /\ pc' = pc
  BY DEF StartApp, TablesSame
<1>3. app \in [Apps -> {"new", "up", "exiting", "killed", "gone"}]
  BY Types DEF RegistryInv
<1>4. /\ app' \in [Apps -> {"new", "up", "exiting", "killed", "gone"}]
      /\ \A b \in Apps : (app[b] = "gone" <=> app'[b] = "gone")
                         /\ (app[b] = "exiting" => app'[b] = "exiting")
                         /\ (app[b] = "killed" <=> app'[b] = "killed")
  BY <1>1, <1>3
<1>5. LinkInv' /\ RankInv' /\ OwnerInv' /\ MemoryInv' /\ LoadInv'
  BY <1>2, TablesSameOK
<1>6. DumpInv'
  BY <1>2 DEF RegistryInv, DumpInv, TablesSame, Owner, LoadOf, Leaving
<1>7. UserInv'
  <2>1. Desc' = Desc /\ \A h \in Handles : Used(h)' = Used(h)
    BY <1>2 DEF TablesSame, Used
  <2>2. Leavers \subseteq Apps /\ \A b : Leaving(b)' = Leaving(b)
    BY <1>2, RegistryAssumption DEF Leavers, Leaving
  <2>3. UserInv /\ pc' = pc
    BY <1>2 DEF RegistryInv
  <2>4. \A h \in Handles : Used(h) =>
          /\ Desc[h].AppId \in Apps
          /\ app'[Desc[h].AppId] # "gone" \/ Desc[h].Late
          /\ Desc[h].Late => app'[Desc[h].AppId] \in {"killed", "gone"}
    BY <1>4, <2>3 DEF UserInv
  <2>5. \A h \in Handles : ~Used(h) /\ Desc[h].AppId \in Leavers =>
          \/ app'[Desc[h].AppId] = "gone"
          \/ Leaving(Desc[h].AppId) /\ h < pc[ES].i
    BY <1>4, <2>2, <2>3 DEF UserInv
  <2>6. \A b \in Apps : app'[b] = "killed" => b \in Killing
    BY <1>4, <2>3 DEF UserInv
  <2> QED
    BY <2>1, <2>2, <2>3, <2>4, <2>5, <2>6 DEF UserInv
<1>8. ControlInv
  BY DEF RegistryInv
<1>9. AppsAt' /\ DumperAt'
  BY <1>2, <1>8 DEF ControlInv, AppsAt, DumperAt, TablesSame, Removing,
     ValidAccess, Owner
<1>10. CleanerAt'
  BY <1>2, <1>4, <1>8, RegistryAssumption
     DEF ControlInv, CleanerAt, TablesSame, Removing, ValidAccess, Owner
<1>11. ControlInv'
  BY <1>2, <1>8, <1>9, <1>10 DEF ControlInv
<1>12. TypeOK'
  BY <1>2, <1>4 DEF RegistryInv, TypeOK, TablesSame
<1> QED
  BY <1>5, <1>6, <1>7, <1>11, <1>12 DEF RegistryInv

(* An application exits or is removed by force, and its clean-up begins.    *)
LEMMA BeginCleanUpOK ==
  ASSUME RegistryInv, NEW a \in Apps, NEW state, BeginCleanUp(a, state),
         (a \in Exiting /\ state = "exiting") \/ (a \in Killing /\ state = "killed")
  PROVE  RegistryInv'
<1>1. /\ app[a] = "up" /\ app' = [app EXCEPT ![a] = state] /\ pc[ES].at = "idle"
      /\ pc' = [pc EXCEPT ![ES] = [at |-> "dumps", arg |-> a, i |-> 0]]
  BY DEF BeginCleanUp, Go
<1>2. TablesSame
  BY DEF BeginCleanUp, TablesSame
<1>3. app \in [Apps -> {"new", "up", "exiting", "killed", "gone"}] /\ ControlInv
  BY Types DEF RegistryInv
<1>4. /\ app' \in [Apps -> {"new", "up", "exiting", "killed", "gone"}] /\ app'[a] = state
      /\ \A b \in Apps : app[b] = "gone" <=> app'[b] = "gone"
      /\ \A b \in Apps : app[b] = "killed" => app'[b] = "killed"
      /\ \A b \in Apps : app'[b] = "killed" => app[b] = "killed" \/ b \in Killing
  BY <1>1, <1>3
<1>5. /\ pc'[ES] = [at |-> "dumps", arg |-> a, i |-> 0]
      /\ \A y \in Apps \cup {TBL, ES} : y # ES => pc'[y] = pc[y]
      /\ pc' = [y \in Apps \cup {TBL, ES} |-> pc'[y]]
  BY <1>1, <1>3, GoFacts
<1>6. pc'[TBL] = pc[TBL] /\ \A b \in Apps : pc'[b] = pc[b]
  BY <1>5, ConstantsOK
<1>7. LinkInv' /\ RankInv' /\ OwnerInv' /\ MemoryInv' /\ LoadInv'
  BY <1>2, TablesSameOK
<1>8. \A b : ~Leaving(b) /\ ~Leaving(b)'
  BY <1>1, <1>5 DEF Leaving
<1>9. DumpInv'
  BY <1>2, <1>8 DEF RegistryInv, DumpInv, TablesSame, Owner, LoadOf
<1>10. UserInv'
  <2>1. Desc' = Desc /\ \A h \in Handles : Used(h)' = Used(h)
    BY <1>2 DEF TablesSame, Used
  <2>2. Leavers \subseteq Apps
    BY RegistryAssumption DEF Leavers
  <2> QED
    BY <1>4, <1>8, <2>1, <2>2 DEF RegistryInv, UserInv
<1>11. AppsAt'
  <2>1. Registry' = Registry /\ Desc' = Desc
    BY <1>2 DEF TablesSame
  <2> QED
    BY <1>3, <1>6, <2>1, AppsStay DEF ControlInv, Removing, ValidAccess, Owner
<1>12. DumperAt'
  BY <1>1, <1>2, <1>3, <1>5, <1>6 DEF ControlInv, DumperAt, TablesSame, Owner
<1>13. CleanerAt'
  BY <1>4, <1>5 DEF CleanerAt
<1>14. ControlInv'
  BY <1>5, <1>11, <1>12, <1>13 DEF ControlInv
<1>15. TypeOK'
  BY <1>2, <1>4, <1>14, PlacesTyped DEF RegistryInv, TypeOK, TablesSame
<1> QED
  BY <1>7, <1>9, <1>10, <1>14, <1>15 DEF RegistryInv

(* The clean-up of an application is complete: its descriptors are those it *)
(* took behind the walk, and none of its tables waits for a dump.           *)
LEMMA CleanUpDoneOK ==
  ASSUME RegistryInv, Disciplined, CleanUpDone
  PROVE  RegistryInv'
<1> DEFINE a == pc[ES].arg
<1>1. /\ pc[ES].at = "mark" /\ pc[ES].i = NumHandles
      /\ app' = [app EXCEPT ![a] = "gone"]
      /\ pc' = [pc EXCEPT ![ES] = Idle, ![a] = Idle]
  BY DEF CleanUpDone, HandlesToScan
<1>2. TablesSame
  BY DEF CleanUpDone, TablesSame
<1>3. app \in [Apps -> {"new", "up", "exiting", "killed", "gone"}] /\ ControlInv
  BY Types DEF RegistryInv
<1>5. /\ a \in Leavers /\ a \in Apps /\ a # NULL
      /\ (a \in Exiting /\ app[a] = "exiting") \/ (a \in Killing /\ app[a] = "killed")
      /\ \A h \in Handles : ~ValidAccess(a, h) \/ Desc[h].Late
  BY <1>1, <1>3, ConstantsOK, RegistryAssumption DEF ControlInv, CleanerAt, Leavers
<1>9. \A r \in Regs : Owner(r) = a => Registry[r].Name \notin DumpOnly
  <2>1. CASE app[a] = "exiting"
    <3>1. \A h \in Handles : ~ValidAccess(a, h)
      BY <1>5, <2>1 DEF RegistryInv, UserInv, ValidAccess, Used
    <3> QED
      BY <1>5, <3>1 DEF RegistryInv, OwnerInv
  <2>2. CASE a \in Killing
    BY <1>5, <2>2 DEF RegistryInv, OwnerInv, Disciplined
  <2> QED
    BY <1>5, <2>1, <2>2
<1>8a. \A b : Leaving(b) <=> b = a
  BY <1>1 DEF Leaving
<1> HIDE DEF a
<1>4. /\ pc'[ES] = Idle
      /\ \A b \in Apps : pc'[b] = pc[b] \/ pc'[b] = Idle
      /\ pc'[TBL] = pc[TBL]
      /\ pc' = [y \in Apps \cup {TBL, ES} |-> pc'[y]]
  BY <1>1, <1>3, <1>5, ConstantsOK DEF ControlInv
<1>6. /\ app' \in [Apps -> {"new", "up", "exiting", "killed", "gone"}] /\ app'[a] = "gone"
      /\ \A b \in Apps : b # a => app'[b] = app[b]
  BY <1>1, <1>3, <1>5
<1>7. LinkInv' /\ RankInv' /\ OwnerInv' /\ MemoryInv' /\ LoadInv'
  BY <1>2, TablesSameOK
<1>8. \A b : ~Leaving(b)'
  BY <1>4 DEF Leaving, Idle
<1>10. DumpInv'
  <2>1. DumpInv /\ OwnerInv
    BY DEF RegistryInv
  <2>2. \A r \in Regs : LET i == Registry[r].DumpControlIndex IN
          Owner(r) # NULL /\ i # None =>
            Dumps[i].State = "pending" /\ Dumps[i].RegRecPtr = r
    BY <2>1, <1>8a, <1>9 DEF DumpInv, OwnerInv
  <2> QED
    BY <2>1, <2>2, <1>2, <1>8 DEF DumpInv, TablesSame, Owner, LoadOf
<1>11. UserInv'
  <2>1. \A h \in Handles : Used(h)' = Used(h) /\ Desc'[h] = Desc[h]
    BY <1>2 DEF TablesSame, Used
  <2>2. \A h \in Handles : Used(h) => Desc[h].AppId # a \/ Desc[h].Late
    BY <1>5 DEF RegistryInv, UserInv, ValidAccess, Used
  <2> QED
    BY <1>5, <1>6, <1>8a, <2>1, <2>2, RegistryAssumption
       DEF RegistryInv, UserInv, Leavers
<1>12. AppsAt'
  <2>1. \A b \in Apps : pc'[b] = pc[b] \/ pc'[b].at = "idle"
    BY <1>4 DEF Idle
  <2>2. Registry' = Registry /\ Desc' = Desc
    BY <1>2 DEF TablesSame
  <2> QED
    BY <1>3, <2>1, <2>2, AppsStay DEF ControlInv, Removing, ValidAccess, Owner
<1>13. DumperAt'
  BY <1>2, <1>3, <1>4 DEF ControlInv, DumperAt, TablesSame, Owner, Idle
<1>14. CleanerAt'
  BY <1>4 DEF CleanerAt, Idle
<1>15. ControlInv'
  BY <1>4, <1>12, <1>13, <1>14 DEF ControlInv
<1>16. TypeOK'
  BY <1>2, <1>6, <1>15, PlacesTyped DEF RegistryInv, TypeOK, TablesSame
<1> QED
  BY <1>7, <1>10, <1>11, <1>15, <1>16 DEF RegistryInv

-----------------------------------------------------------------------------
(* Dumps *)

(* A step of a dump: only load buffers and control blocks change hands.     *)
DumpStep ==
  /\ Desc' = Desc /\ pool' = pool /\ lost' = lost /\ app' = app
  /\ \A r \in Regs : /\ Owner(r)' = Owner(r) /\ Registry'[r].Name = Registry[r].Name
                     /\ HeadOf(r)' = HeadOf(r)
                     /\ Registry'[r].DoubleBuffered = Registry[r].DoubleBuffered
                     /\ \A i \in {1, 2} : BufferAt(r, i)' = BufferAt(r, i)
                     /\ Registry'[r].DumpControlIndex # None =>
                          \/ Registry[r].DumpControlIndex # None
                          \/ Registry[r].Name \in DumpOnly
  /\ pc'[ES] = pc[ES] /\ \A a \in Apps : pc'[a] = pc[a]

LEMMA DumpStepOK ==
  ASSUME RegistryInv, DumpStep
  PROVE  /\ LinkInv' /\ RankInv' /\ OwnerInv' /\ MemoryInv' /\ UserInv'
         /\ AppsAt' /\ CleanerAt'
<1>1. LinkInv' /\ RankInv' /\ OwnerInv' /\ MemoryInv'
  BY LinksKept, OwnersKept, MemoryKept DEF RegistryInv, DumpStep
<1>2. UserInv'
  BY DEF RegistryInv, UserInv, DumpStep, Used, Leaving
<1>3. ControlInv /\ \A h \in Handles : Desc[h].RegIndex \in Regs
  BY Fields DEF RegistryInv
<1>4. ASSUME NEW a, NEW h, Removing(a, h)
      PROVE  /\ Desc'[h].UsedFlag /\ Desc'[h].AppId = a
             /\ Registry'[Desc'[h].RegIndex].OwnerAppId # a
  BY <1>3, <1>4 DEF Removing, ValidAccess, DumpStep, Owner
<1>5. AppsAt'
  <2>1. \A b \in Apps : pc'[b] = pc[b]
    BY DEF DumpStep
  <2>2. \A b \in Apps : Removing(b, pc[b].arg) => Removing(b, pc[b].arg)'
    BY <2>1, <1>4 DEF Removing, ValidAccess, Owner
  <2> QED
    BY <1>3, <2>1, <2>2, AppsStay DEF ControlInv
<1>6. CleanerAt'
  <2>1. pc'[ES] = pc[ES] /\ Desc' = Desc /\ app' = app
    BY DEF DumpStep
  <2>2. Removing(pc[ES].arg, pc[ES].i) => Removing(pc[ES].arg, pc[ES].i)'
    BY <2>1, <1>4 DEF Removing, ValidAccess, Owner
  <2> QED
    BY <1>3, <2>1, <2>2 DEF ControlInv, CleanerAt, ValidAccess
<1> QED
  BY <1>1, <1>2, <1>5, <1>6

(* CFE_TBL_DumpCmd takes a control block and a working buffer.              *)
LEMMA DumpCmdStartOK ==
  ASSUME RegistryInv, DumpCmdStart
  PROVE  RegistryInv'
<1>0. PICK r0, blk, bff :
        /\ r0 = pc[TBL].arg
        /\ blk = First({i \in Loads : Dumps[i].State = "free"})
        /\ bff = IF Registry[r0].LoadInProgress # None THEN Registry[r0].LoadInProgress
                 ELSE First({i \in Loads : ~Taken[i]})
  OBVIOUS
<1> DEFINE blocks == {i \in Loads : Dumps[i].State = "free"}
           free == {i \in Loads : ~Taken[i]}
           had == Registry[r0].LoadInProgress
           granted == /\ Registry[r0].DumpControlIndex = None /\ blocks # {}
                      /\ had # None \/ free # {}
<1>1. ControlInv /\ pc[TBL].at = "dump"
  BY DEF RegistryInv, DumpCmdStart
<1>2. /\ r0 \in Regs /\ Owner(r0) # NULL /\ Registry[r0].Name \in DumpOnly
      /\ \A i \in Loads : Dumps[i].State # "free" => Dumps[i].RegRecPtr # r0
      /\ pc[ES].at \in {"idle", "dumps"}
  BY <1>0, <1>1 DEF ControlInv, DumperAt
<1>3. pc' = [pc EXCEPT ![TBL] = Idle] /\ UNCHANGED <<Desc, pool, lost, app>>
  BY DEF DumpCmdStart, Done
<1>4. /\ pc'[TBL] = Idle
      /\ \A y \in Apps \cup {TBL, ES} : y # TBL => pc'[y] = pc[y]
      /\ pc' = [y \in Apps \cup {TBL, ES} |-> pc'[y]]
  BY <1>1, <1>3, GoFacts
<1>5. pc'[ES] = pc[ES] /\ \A a \in Apps : pc'[a] = pc[a]
  BY <1>4, ConstantsOK
<1>6. DumperAt'
  BY <1>4 DEF DumperAt, Idle
<1>7. /\ Registry \in [Regs -> RegRecs] /\ Dumps \in [Loads -> DumpRecs]
      /\ Taken \in [Loads -> BOOLEAN] /\ TypeOK
  BY Types DEF RegistryInv
<1>8. had \in Loads \cup {None}
  BY <1>2, <1>7, Fields DEF LoadOf
<1>9. \A a : ~Leaving(a) /\ ~Leaving(a)'
  BY <1>2, <1>5 DEF Leaving
<1>10. CASE ~granted
  <2>1. TablesSame
    BY <1>0, <1>3, <1>10 DEF DumpCmdStart, TablesSame
  <2>2. DumpStep
    BY <2>1, <1>3, <1>5 DEF DumpStep, TablesSame, Owner, HeadOf, BufferAt
  <2>3. LoadInv'
    BY <2>1, TablesSameOK
  <2>4. DumpInv'
    BY <2>1, <1>9 DEF RegistryInv, DumpInv, TablesSame, Owner, LoadOf
  <2>5. ControlInv'
    BY <1>4, <1>6, <2>2, DumpStepOK DEF ControlInv
  <2>6. TypeOK'
    BY <2>1, <1>3, <2>5, PlacesTyped DEF RegistryInv, TypeOK, TablesSame
  <2> QED
    BY <2>2, <2>3, <2>4, <2>5, <2>6, DumpStepOK DEF RegistryInv
<1>11. CASE granted
  <2>1. blk \in Loads /\ Dumps[blk].State = "free"
    <3>1. blocks \subseteq Nat /\ blocks # {}
      BY <1>11, ConstantsOK
    <3>2. blk \in blocks
      BY <1>0, <3>1, FirstFound
    <3> QED
      BY <3>2
  <2>2. bff \in Loads /\ (had = None => ~Taken[bff])
    <3>1. CASE had # None
      BY <3>1, <1>0, <1>8
    <3>2. CASE had = None
      <4>1. free \subseteq Nat /\ free # {}
        BY <3>2, <1>11, ConstantsOK
      <4>2. First(free) \in free
        BY <4>1, FirstFound
      <4> QED
        BY <4>2, <3>2, <1>0
    <3> QED
      BY <3>1, <3>2
  <2>3. /\ Dumps' = [Dumps EXCEPT ![blk] = [State |-> "pending", RegRecPtr |-> r0]]
        /\ Registry' = [Registry EXCEPT ![r0].LoadInProgress = bff,
                                        ![r0].DumpControlIndex = blk]
        /\ Taken' = [Taken EXCEPT ![bff] = TRUE]
    BY <1>0, <1>11 DEF DumpCmdStart
  <2>4. Registry[r0].DumpControlIndex = None /\ (had # None => bff = had)
    BY <1>0, <1>11
  <2>5. LoadOf(r0) = had
    BY DEF LoadOf
  <2> HIDE DEF had, blocks, free
  <2>6. Registry' \in [Regs -> RegRecs] /\ Dumps' \in [Loads -> DumpRecs]
        /\ Taken' \in [Loads -> BOOLEAN]
    <3>1. [Registry[r0] EXCEPT !.LoadInProgress = bff, !.DumpControlIndex = blk] \in RegRecs
      BY <1>2, <1>7, <2>1, <2>2, RecUpdate
    <3> QED
      BY <3>1, <1>2, <1>7, <2>1, <2>2, <2>3 DEF DumpRecs
  <2>7. /\ LoadOf(r0)' = bff /\ Registry'[r0].DumpControlIndex = blk
        /\ \A r \in Regs : r # r0 => Registry'[r] = Registry[r]
    BY <1>2, <1>7, <2>3 DEF LoadOf, RegRecs
  <2>8. DumpStep
    <3>1. /\ Owner(r0)' = Owner(r0) /\ Registry'[r0].Name = Registry[r0].Name
          /\ HeadOf(r0)' = HeadOf(r0)
          /\ Registry'[r0].DoubleBuffered = Registry[r0].DoubleBuffered
          /\ \A i \in {1, 2} : BufferAt(r0, i)' = BufferAt(r0, i)
      BY <1>2, <1>7, <2>3 DEF Owner, HeadOf, BufferAt, RegRecs
    <3> QED
      BY <3>1, <2>7, <1>2, <1>3, <1>5 DEF DumpStep, Owner, HeadOf, BufferAt
  <2>9. LoadInv'
    <3>1. ~Registry[r0].DoubleBuffered /\ HeadOf(r0) # None
      <4>1. PICK h \in Handles : ValidAccess(Owner(r0), h) /\ Desc[h].RegIndex = r0
        BY <1>2 DEF RegistryInv, OwnerInv
      <4>2. HeadOf(r0) # None
        BY <4>1 DEF RegistryInv, LinkInv, ValidAccess, Used
      <4>3. Registry[r0].Name \notin DoubleBuffered
        BY <1>2, RegistryAssumption
      <4> QED
        BY <4>2, <4>3, <1>2 DEF RegistryInv, OwnerInv
    <3>2. \A r \in Regs : /\ HeadOf(r)' = HeadOf(r)
                          /\ Registry'[r].DoubleBuffered = Registry[r].DoubleBuffered
      BY <2>8 DEF DumpStep
    <3>3. \A r \in Regs : r # r0 => LoadOf(r)' = LoadOf(r)
      BY <2>7 DEF LoadOf
    <3>4. \A i \in Loads : Taken'[i] = IF i = bff THEN TRUE ELSE Taken[i]
      BY <1>7, <2>2, <2>3
    <3>5. \A r \in Regs : LoadOf(r) \in Loads \cup {None}
      BY <1>7, Fields
    <3>6. \A r \in Regs : r # r0 => LoadOf(r) # bff
      BY <1>2, <2>2, <2>4, <2>5, <3>5, ConstantsOK DEF RegistryInv, LoadInv
    <3>7. LoadInv
      BY DEF RegistryInv
    <3>8. \A r \in Regs : LoadOf(r)' # None =>
            ~Registry'[r].DoubleBuffered /\ HeadOf(r)' # None /\ Taken'[LoadOf(r)']
      <4> TAKE r \in Regs
      <4>1. CASE r = r0
        BY <4>1, <2>2, <2>7, <3>1, <3>2, <3>4
      <4>2. CASE r # r0
        <5>1. LoadOf(r)' # None => LoadOf(r) \in Loads /\ Taken'[LoadOf(r)]
          BY <4>2, <3>3, <3>4, <3>5, <3>7 DEF LoadInv
        <5> QED
          BY <4>2, <5>1, <3>2, <3>3, <3>7 DEF LoadInv
      <4> QED
        BY <4>1, <4>2
    <3>9. \A r, s \in Regs : LoadOf(r)' # None /\ LoadOf(r)' = LoadOf(s)' => r = s
      BY <2>7, <3>3, <3>6, <3>7 DEF LoadInv
    <3>10. ASSUME NEW i \in Loads, Taken'[i] PROVE \E r \in Regs : LoadOf(r)' = i
      <4>1. CASE i = bff
        BY <4>1, <2>7, <1>2
      <4>2. CASE i # bff
        <5>1. PICK r \in Regs : LoadOf(r) = i
          BY <4>2, <3>4, <3>10, <3>7 DEF LoadInv
        <5>2. r # r0
          BY <5>1, <4>2, <2>4, <2>5, ConstantsOK
        <5> QED
          BY <5>1, <5>2, <3>3
      <4> QED
        BY <4>1, <4>2
    <3> QED
      BY <3>8, <3>9, <3>10 DEF LoadInv
  <2>10. DumpInv'
    <3>1. /\ Dumps'[blk].State = "pending" /\ Dumps'[blk].RegRecPtr = r0
          /\ \A i \in Loads : i # blk => Dumps'[i] = Dumps[i]
      BY <1>7, <2>1, <2>3
    <3>2. /\ \A r \in Regs : Owner(r)' = Owner(r) /\ Registry'[r].Name = Registry[r].Name
          /\ \A r \in Regs : r # r0 => LoadOf(r)' = LoadOf(r)
                 /\ Registry'[r].DumpControlIndex = Registry[r].DumpControlIndex
      BY <2>7, <2>8 DEF DumpStep, LoadOf
    <3>3. LoadOf(r0)' # None
      BY <2>2, <2>7, ConstantsOK
    <3>4. DumpInv
      BY DEF RegistryInv
    <3>5. \A i \in Loads : Dumps'[i].State # "free" =>
             /\ Dumps'[i].RegRecPtr \in Regs /\ Registry'[Dumps'[i].RegRecPtr].OwnerAppId # NULL
             /\ Registry'[Dumps'[i].RegRecPtr].Name \in DumpOnly
             /\ Registry'[Dumps'[i].RegRecPtr].LoadInProgress # None
             /\ Dumps'[i].State = "pending" =>
                  Registry'[Dumps'[i].RegRecPtr].DumpControlIndex = i
      <4> TAKE i \in Loads
      <4>1. CASE i = blk
        BY <4>1, <1>2, <2>7, <3>1, <3>2, <3>3 DEF LoadOf, Owner
      <4>2. CASE i # blk
        BY <4>2, <1>2, <3>1, <3>2, <3>4 DEF DumpInv, LoadOf, Owner
      <4> QED
        BY <4>1, <4>2
    <3>6. \A i, j \in Loads :
             /\ Dumps'[i].State # "free" /\ Dumps'[j].State # "free"
             /\ Dumps'[i].RegRecPtr = Dumps'[j].RegRecPtr
             => i = j
      BY <1>2, <3>1, <3>4 DEF DumpInv
    <3>7. \A r \in Regs : Owner(r)' # NULL /\ Registry'[r].DumpControlIndex # None =>
             LET i == Registry'[r].DumpControlIndex IN
             Dumps'[i].State = "pending" /\ Dumps'[i].RegRecPtr = r
      <4> TAKE r \in Regs
      <4>1. CASE r = r0
        BY <4>1, <2>7, <3>1
      <4>2. CASE r # r0
        <5>1. Registry[r].DumpControlIndex \in Loads \cup {None}
          BY <1>7, Fields
        <5> QED
          BY <4>2, <5>1, <1>9, <2>1, <3>1, <3>2, <3>4 DEF DumpInv
      <4> QED
        BY <4>1, <4>2
    <3> QED
      BY <1>9, <3>5, <3>6, <3>7 DEF DumpInv, Owner, LoadOf
  <2>11. ControlInv'
    BY <1>4, <1>6, <2>8, DumpStepOK DEF ControlInv
  <2>12. TypeOK'
    <3>1. \A x \in Apps \cup {TBL, ES} : pc'[x].at \in
             {"idle", "remove", "dump", "file", "dumps", "mark", "fault"}
      BY <2>11, PlacesTyped
    <3> QED
      BY <3>1, <2>6, <1>3, <1>7 DEF TypeOK, RegRecs, DumpRecs
  <2> QED
    BY <2>8, <2>9, <2>10, <2>11, <2>12, DumpStepOK DEF RegistryInv
<1> QED
  BY <1>10, <1>11

(* The owner of the table performs the dump.                                *)
LEMMA DumpToBufferOK ==
  ASSUME RegistryInv, Disciplined, NEW a \in Apps, NEW h \in Handles, DumpToBuffer(a, h)
  PROVE  RegistryInv'
<1>0. PICK r0, c0 : r0 = Desc[h].RegIndex /\ c0 = Registry[r0].DumpControlIndex
  OBVIOUS
<1>1. /\ Owner(r0) = a /\ c0 # None /\ app[a] \in {"up", "killed"}
      /\ Registry' = [Registry EXCEPT ![r0].DumpControlIndex = None]
      /\ Dumps' = [Dumps EXCEPT ![c0].State = "performed"]
      /\ UNCHANGED <<Desc, Taken, pool, lost, app, pc>>
  BY <1>0 DEF DumpToBuffer, Owner, Ready
<1>2. /\ Registry \in [Regs -> RegRecs] /\ Dumps \in [Loads -> DumpRecs]
      /\ TypeOK /\ ControlInv
  BY Types DEF RegistryInv
<1>3. r0 \in Regs /\ c0 \in Loads /\ Owner(r0) # NULL
  BY <1>0, <1>1, <1>2, Fields, ConstantsOK
<1>4. ~Leaving(a)
  <2>1. a \notin Killing
    BY <1>0, <1>1, <1>3 DEF RegistryInv, OwnerInv, Disciplined
  <2>2. app[a] = "up"
    BY <1>1, <2>1 DEF RegistryInv, UserInv
  <2> QED
    BY <1>2, <2>2 DEF ControlInv, CleanerAt, Leaving
<1>5. Dumps[c0].State = "pending" /\ Dumps[c0].RegRecPtr = r0
  BY <1>0, <1>1, <1>3, <1>4 DEF RegistryInv, DumpInv
<1>6. /\ Dumps'[c0].State = "performed" /\ Dumps'[c0].RegRecPtr = r0
      /\ \A i \in Loads : i # c0 => Dumps'[i] = Dumps[i]
      /\ Dumps' \in [Loads -> DumpRecs]
  BY <1>1, <1>2, <1>3, <1>5 DEF DumpRecs
<1>7. /\ Registry'[r0].DumpControlIndex = None
      /\ \A r \in Regs : r # r0 => Registry'[r] = Registry[r]
      /\ Registry' \in [Regs -> RegRecs]
  <2>1. [Registry[r0] EXCEPT !.DumpControlIndex = None] \in RegRecs
    BY <1>2, <1>3, RecUpdate
  <2> QED
    BY <2>1, <1>1, <1>2, <1>3 DEF RegRecs
<1>8. DumpStep /\ \A r \in Regs : LoadOf(r)' = LoadOf(r)
  <2>1. /\ Owner(r0)' = Owner(r0) /\ Registry'[r0].Name = Registry[r0].Name
        /\ HeadOf(r0)' = HeadOf(r0) /\ LoadOf(r0)' = LoadOf(r0)
        /\ Registry'[r0].DoubleBuffered = Registry[r0].DoubleBuffered
        /\ \A i \in {1, 2} : BufferAt(r0, i)' = BufferAt(r0, i)
    BY <1>1, <1>2, <1>3 DEF Owner, HeadOf, BufferAt, RegRecs, LoadOf
  <2> QED
    BY <2>1, <1>1, <1>7 DEF DumpStep, Owner, HeadOf, BufferAt, LoadOf
<1>9. LoadInv'
  BY <1>1, <1>8, LoadsKept DEF RegistryInv, DumpStep
<1>10. \A b : Leaving(b)' = Leaving(b)
  BY <1>1 DEF Leaving
<1>11. DumpInv'
  <2>1. DumpInv
    BY DEF RegistryInv
  <2>2. \A r \in Regs : /\ Owner(r)' = Owner(r) /\ LoadOf(r)' = LoadOf(r)
                        /\ Registry'[r].Name = Registry[r].Name
    BY <1>8 DEF DumpStep
  <2>3. \A i \in Loads : Dumps'[i].State # "free" =>
           /\ Dumps[i].State # "free" /\ Dumps'[i].RegRecPtr = Dumps[i].RegRecPtr
           /\ Dumps[i].RegRecPtr \in Regs
    BY <1>5, <1>6, <2>1 DEF DumpInv
  <2>4. \A i \in Loads : Dumps'[i].State = "pending" =>
           Registry'[Dumps'[i].RegRecPtr].DumpControlIndex = i
    <3> SUFFICES ASSUME NEW i \in Loads, Dumps'[i].State = "pending"
                 PROVE  Registry'[Dumps'[i].RegRecPtr].DumpControlIndex = i
      OBVIOUS
    <3>1. i # c0 /\ Dumps'[i] = Dumps[i]
      BY <1>6
    <3>2. Registry[Dumps[i].RegRecPtr].DumpControlIndex = i /\ Dumps[i].RegRecPtr \in Regs
      BY <3>1, <2>1 DEF DumpInv
    <3>3. Dumps[i].RegRecPtr # r0
      BY <3>1, <3>2, <1>0
    <3> QED
      BY <3>1, <3>2, <3>3, <1>7
  <2>5. \A r \in Regs : LET i == Registry'[r].DumpControlIndex IN
           Owner(r)' # NULL /\ i # None /\ ~Leaving(Owner(r)) =>
             Dumps'[i].State = "pending" /\ Dumps'[i].RegRecPtr = r
    <3> TAKE r \in Regs
    <3>1. CASE r = r0
      BY <3>1, <1>7
    <3>2. CASE r # r0
      BY <3>2, <1>2, <1>5, <1>6, <1>7, <2>1, <2>2, Fields DEF DumpInv
    <3> QED
      BY <3>1, <3>2
  <2>6. \A i, j \in Loads :
           /\ Dumps'[i].State # "free" /\ Dumps'[j].State # "free"
           /\ Dumps'[i].RegRecPtr = Dumps'[j].RegRecPtr
           => i = j
    BY <2>1, <2>3 DEF DumpInv
  <2>7. \A i \in Loads : Dumps'[i].State # "free" =>
           LET r == Dumps'[i].RegRecPtr IN
           /\ r \in Regs /\ Registry'[r].OwnerAppId # NULL /\ Registry'[r].Name \in DumpOnly
           /\ Registry'[r].LoadInProgress # None /\ ~Leaving(Registry'[r].OwnerAppId)
    BY <2>1, <2>2, <2>3 DEF DumpInv, Owner, LoadOf
  <2> QED
    BY <1>1, <2>2, <2>4, <2>5, <2>6, <2>7 DEF DumpInv, Owner, LoadOf, Leaving
<1>12. DumperAt'
  <2>1. pc' = pc
    BY <1>1
  <2>2. CASE pc[TBL].at = "dump"
    BY <2>1, <2>2, <1>2, <1>5, <1>6, <1>8, <1>3 DEF ControlInv, DumperAt, DumpStep, Owner
  <2>3. CASE pc[TBL].at = "file"
    BY <2>1, <2>3, <1>2, <1>5, <1>6 DEF ControlInv, DumperAt
  <2>4. CASE pc[TBL].at = "idle"
    BY <2>1, <2>4 DEF DumperAt
  <2> QED
    BY <2>2, <2>3, <2>4, <1>2 DEF ControlInv, DumperAt
<1>13. ControlInv'
  BY <1>1, <1>2, <1>8, <1>12, DumpStepOK, StayFacts DEF ControlInv
<1>14. TypeOK'
  BY <1>1, <1>2, <1>6, <1>7 DEF TypeOK, RegRecs, DumpRecs
<1> QED
  BY <1>8, <1>9, <1>11, <1>13, <1>14, DumpStepOK DEF RegistryInv

(* The dump's file has been written.  The table still has the load buffer:  *)
(* the index is good.                                                       *)
LEMMA HousekeepingCmdDoneOK ==
  ASSUME RegistryInv, HousekeepingCmdDone
  PROVE  RegistryInv'
<1>0. PICK r0, b0, c0 : /\ r0 = pc[TBL].arg /\ c0 = pc[TBL].i
                        /\ b0 = Registry[r0].LoadInProgress
  OBVIOUS
<1>1. /\ Registry \in [Regs -> RegRecs] /\ Dumps \in [Loads -> DumpRecs]
      /\ Taken \in [Loads -> BOOLEAN] /\ TypeOK /\ ControlInv
  BY Types DEF RegistryInv
<1>2. /\ c0 \in Loads /\ Dumps[c0].State = "performed" /\ Dumps[c0].RegRecPtr = r0
  BY <1>0, <1>1 DEF ControlInv, DumperAt, HousekeepingCmdDone
<1>3. r0 \in Regs /\ LoadOf(r0) = b0 /\ b0 # None /\ b0 \in Loads
  BY <1>0, <1>1, <1>2, Fields DEF RegistryInv, DumpInv, LoadOf
<1>4. /\ Taken' = [Taken EXCEPT ![b0] = FALSE]
      /\ Registry' = [Registry EXCEPT ![r0].LoadInProgress = None]
      /\ Dumps' = [Dumps EXCEPT ![c0].State = "free"]
      /\ pc' = [pc EXCEPT ![TBL] = Idle]
      /\ UNCHANGED <<Desc, pool, lost, app>>
  BY <1>0, <1>3 DEF HousekeepingCmdDone, Done
<1>5. /\ pc'[TBL] = Idle /\ pc'[ES] = pc[ES] /\ \A a \in Apps : pc'[a] = pc[a]
      /\ pc' = [y \in Apps \cup {TBL, ES} |-> pc'[y]]
  BY <1>1, <1>4, GoFacts, ConstantsOK
<1>6. /\ Dumps'[c0].State = "free"
      /\ \A i \in Loads : i # c0 => Dumps'[i] = Dumps[i]
      /\ Dumps' \in [Loads -> DumpRecs]
  BY <1>1, <1>2, <1>4 DEF DumpRecs
<1>7. /\ LoadOf(r0)' = None
      /\ \A r \in Regs : r # r0 => Registry'[r] = Registry[r]
      /\ Registry' \in [Regs -> RegRecs]
  <2>1. [Registry[r0] EXCEPT !.LoadInProgress = None] \in RegRecs
    BY <1>1, <1>3, RecUpdate
  <2> QED
    BY <2>1, <1>1, <1>3, <1>4 DEF RegRecs, LoadOf
<1>8. /\ DumpStep
      /\ \A r \in Regs :
           Registry'[r].DumpControlIndex = Registry[r].DumpControlIndex
  <2>1. /\ Owner(r0)' = Owner(r0) /\ Registry'[r0].Name = Registry[r0].Name
        /\ HeadOf(r0)' = HeadOf(r0)
        /\ Registry'[r0].DoubleBuffered = Registry[r0].DoubleBuffered
        /\ Registry'[r0].DumpControlIndex = Registry[r0].DumpControlIndex
        /\ \A i \in {1, 2} : BufferAt(r0, i)' = BufferAt(r0, i)
    BY <1>1, <1>3, <1>4 DEF Owner, HeadOf, BufferAt, RegRecs
  <2> QED
    BY <2>1, <1>4, <1>5, <1>7 DEF DumpStep, Owner, HeadOf, BufferAt
<1>9. LoadInv'
  <2>1. LoadInv
    BY DEF RegistryInv
  <2>2. \A i \in Loads : Taken'[i] = IF i = b0 THEN FALSE ELSE Taken[i]
    BY <1>1, <1>3, <1>4
  <2>3. \A r \in Regs : r # r0 => LoadOf(r)' = LoadOf(r) /\ LoadOf(r) # b0
    BY <1>3, <1>7, <2>1 DEF LoadOf, LoadInv
  <2>4. \A r \in Regs : /\ HeadOf(r)' = HeadOf(r)
                        /\ Registry'[r].DoubleBuffered = Registry[r].DoubleBuffered
    BY <1>8 DEF DumpStep
  <2>5. ASSUME NEW r \in Regs, LoadOf(r)' # None
        PROVE  ~Registry'[r].DoubleBuffered /\ HeadOf(r)' # None /\ Taken'[LoadOf(r)']
    <3>1. r # r0 /\ LoadOf(r) \in Loads
      BY <1>1, <1>7, <2>3, <2>5, Fields
    <3>2. Taken'[LoadOf(r)] = Taken[LoadOf(r)]
      BY <3>1, <2>2, <2>3
    <3> QED
      BY <2>1, <2>3, <2>4, <2>5, <3>1, <3>2 DEF LoadInv
  <2>6. \A r, s \in Regs : LoadOf(r)' # None /\ LoadOf(r)' = LoadOf(s)' => r = s
    BY <1>7, <2>1, <2>3 DEF LoadInv
  <2>7. ASSUME NEW i \in Loads, Taken'[i] PROVE \E r \in Regs : LoadOf(r)' = i
    <3>1. i # b0 /\ Taken[i]
      BY <2>2, <2>7
    <3>2. PICK r \in Regs : LoadOf(r) = i
      BY <3>1, <2>1 DEF LoadInv
    <3> QED
      BY <3>1, <3>2, <1>3, <2>3
  <2> QED
    BY <2>5, <2>6, <2>7 DEF LoadInv
<1>10. DumpInv'
  <2>1. DumpInv
    BY DEF RegistryInv
  <2>2. \A r \in Regs : Owner(r)' = Owner(r) /\ Registry'[r].Name = Registry[r].Name
    BY <1>8 DEF DumpStep
  <2>3. \A i \in Loads : Dumps'[i].State # "free" =>
           /\ i # c0 /\ Dumps'[i] = Dumps[i] /\ Dumps[i].RegRecPtr \in Regs \ {r0}
    BY <1>2, <1>6, <2>1 DEF DumpInv
  <2>4. \A r \in Regs : r # r0 => LoadOf(r)' = LoadOf(r)
    BY <1>7 DEF LoadOf
  <2>5. \A r \in Regs : LET i == Registry'[r].DumpControlIndex IN
           Owner(r)' # NULL /\ i # None /\ ~Leaving(Owner(r)) =>
             Dumps'[i].State = "pending" /\ Dumps'[i].RegRecPtr = r
    BY <1>1, <1>2, <1>6, <1>8, <2>1, <2>2, Fields DEF DumpInv
  <2>6. \A i, j \in Loads :
           /\ Dumps'[i].State # "free" /\ Dumps'[j].State # "free"
           /\ Dumps'[i].RegRecPtr = Dumps'[j].RegRecPtr
           => i = j
    BY <2>1, <2>3 DEF DumpInv
  <2>7. \A i \in Loads : Dumps'[i].State # "free" =>
           LET r == Dumps'[i].RegRecPtr IN
           /\ r \in Regs /\ Registry'[r].OwnerAppId # NULL /\ Registry'[r].Name \in DumpOnly
           /\ Registry'[r].LoadInProgress # None /\ ~Leaving(Registry'[r].OwnerAppId)
           /\ Dumps'[i].State = "pending" => Registry'[r].DumpControlIndex = i
    BY <1>8, <2>1, <2>2, <2>3, <2>4 DEF DumpInv, Owner, LoadOf
  <2> QED
    BY <1>5, <2>2, <2>5, <2>6, <2>7 DEF DumpInv, Owner, LoadOf, Leaving
<1>11. DumperAt'
  BY <1>5 DEF DumperAt, Idle
<1>12. ControlInv'
  BY <1>5, <1>8, <1>11, DumpStepOK DEF ControlInv
<1>13. TypeOK'
  <2>1. \A x \in Apps \cup {TBL, ES} : pc'[x].at \in
           {"idle", "remove", "dump", "file", "dumps", "mark", "fault"}
    BY <1>12, PlacesTyped
  <2> QED
    BY <2>1, <1>1, <1>3, <1>4, <1>6, <1>7 DEF TypeOK, RegRecs, DumpRecs
<1> QED
  BY <1>8, <1>9, <1>10, <1>12, <1>13, DumpStepOK DEF RegistryInv

(* The clean-up drops the dumps of the application's tables.                *)
LEMMA CleanUpDumpsOK ==
  ASSUME RegistryInv, Disciplined, CleanUpDumps
  PROVE  RegistryInv'
<1>0. PICK a : a = pc[ES].arg
  OBVIOUS
<1>1. /\ Dumps \in [Loads -> DumpRecs] /\ TypeOK /\ ControlInv
  BY Types DEF RegistryInv
<1>2. /\ pc[ES].at = "dumps" /\ pc[TBL].at = "idle"
      /\ Dumps' = DumpsDropped(a)
      /\ pc' = [pc EXCEPT ![ES] = [at |-> "mark", arg |-> a, i |-> 0]]
      /\ UNCHANGED <<Registry, Desc, Taken, pool, lost, app>>
  BY <1>0 DEF CleanUpDumps, MayDetach, Disciplined, Go
<1>3. /\ (a \in Exiting /\ app[a] = "exiting") \/ (a \in Killing /\ app[a] = "killed")
      /\ a \in Apps
  BY <1>0, <1>1, <1>2, RegistryAssumption DEF ControlInv, CleanerAt
<1>4. /\ pc'[ES] = [at |-> "mark", arg |-> a, i |-> 0]
      /\ \A y \in Apps \cup {TBL} : pc'[y] = pc[y]
      /\ pc' = [y \in Apps \cup {TBL, ES} |-> pc'[y]]
  BY <1>1, <1>2, GoFacts, ConstantsOK
<1>5. /\ \A b : ~Leaving(b)
      /\ \A b : (pc'[ES].at \in {"mark", "remove"} /\ pc'[ES].arg = b) <=> b = a
  BY <1>2, <1>4 DEF Leaving
<1>6. \A i \in Loads :
        /\ Dumps'[i].RegRecPtr = Dumps[i].RegRecPtr
        /\ Dumps'[i].State = IF /\ Dumps[i].State # "free"
                                /\ Owner(Dumps[i].RegRecPtr) = a
                             THEN "free" ELSE Dumps[i].State
        /\ Dumps'[i] \in DumpRecs
  BY <1>1, <1>2 DEF DumpsDropped, DumpRecs, Owner
<1>7. Dumps' \in [Loads -> DumpRecs]
  BY <1>2, <1>6 DEF DumpsDropped
<1>8. \A r \in Regs : /\ Owner(r)' = Owner(r) /\ HeadOf(r)' = HeadOf(r)
                      /\ LoadOf(r)' = LoadOf(r)
                      /\ \A i \in {1, 2} : BufferAt(r, i)' = BufferAt(r, i)
  BY <1>2 DEF Owner, HeadOf, LoadOf, BufferAt
<1>9. LinkInv' /\ RankInv' /\ OwnerInv' /\ MemoryInv' /\ LoadInv'
  BY <1>1, <1>2, <1>8, LinksKept, OwnersKept, MemoryKept, LoadsKept DEF RegistryInv
<1>10. DumpInv'
  <2>1. DumpInv
    BY DEF RegistryInv
  <2>2. \A i \in Loads : Dumps'[i].State # "free" =>
          /\ Dumps[i].State # "free" /\ Dumps'[i].State = Dumps[i].State
          /\ Owner(Dumps[i].RegRecPtr) # a
    BY <1>6
  <2>3. \A i \in Loads : Dumps'[i].State # "free" =>
          LET r == Dumps'[i].RegRecPtr IN
          /\ r \in Regs /\ Registry[r].OwnerAppId # NULL /\ Registry[r].Name \in DumpOnly
          /\ Registry[r].LoadInProgress # None /\ Registry[r].OwnerAppId # a
          /\ Dumps'[i].State = "pending" => Registry[r].DumpControlIndex = i
    BY <1>6, <2>1, <2>2 DEF DumpInv, Owner, LoadOf
  <2>4. \A i, j \in Loads :
          /\ Dumps'[i].State # "free" /\ Dumps'[j].State # "free"
          /\ Dumps'[i].RegRecPtr = Dumps'[j].RegRecPtr
          => i = j
    BY <1>6, <2>1, <2>2 DEF DumpInv
  <2>5. \A r \in Regs : LET i == Registry[r].DumpControlIndex IN
          Registry[r].OwnerAppId # NULL /\ i # None /\ Registry[r].OwnerAppId # a =>
            Dumps'[i].State = "pending" /\ Dumps'[i].RegRecPtr = r
    BY <1>1, <1>5, <1>6, <2>1, Fields DEF DumpInv, Owner
  <2> QED
    BY <1>2, <1>5, <2>3, <2>4, <2>5 DEF DumpInv, Owner, LoadOf, Leaving
<1>11. UserInv'
  BY <1>2, <1>5 DEF RegistryInv, UserInv, Used
<1>12. AppsAt'
  BY <1>1, <1>2, <1>4, AppsStay DEF ControlInv, Removing, ValidAccess, Owner
<1>13. DumperAt' /\ CleanerAt'
  BY <1>2, <1>3, <1>4, ConstantsOK DEF DumperAt, CleanerAt
<1>14. ControlInv'
  BY <1>4, <1>12, <1>13 DEF ControlInv
<1>15. TypeOK'
  <2>1. \A x \in Apps \cup {TBL, ES} : pc'[x].at \in
           {"idle", "remove", "dump", "file", "dumps", "mark", "fault"}
    BY <1>14, PlacesTyped
  <2> QED
    BY <2>1, <1>1, <1>2, <1>7 DEF TypeOK, DumpRecs
<1> QED
  BY <1>9, <1>10, <1>11, <1>14, <1>15 DEF RegistryInv

-----------------------------------------------------------------------------
(* The owner leaves its table *)

(* The record of table r, if application a owns it, loses its owner.        *)
Disowning(a, r) ==
  /\ Registry' = IF Owner(r) = a THEN Disowned(r) ELSE Registry
  /\ UNCHANGED <<Desc, Taken, Dumps, pool, lost, app>>

LEMMA DisowningFacts ==
  ASSUME TypeOK, NEW a \in Apps, NEW r0 \in Regs, Disowning(a, r0)
  PROVE  /\ Registry' \in [Regs -> RegRecs]
         /\ \A r \in Regs :
              /\ HeadOf(r)' = HeadOf(r) /\ LoadOf(r)' = LoadOf(r)
              /\ Registry'[r].DoubleBuffered = Registry[r].DoubleBuffered
              /\ Registry'[r].DumpControlIndex = Registry[r].DumpControlIndex
              /\ \A i \in {1, 2} : BufferAt(r, i)' = BufferAt(r, i)
              /\ Owner(r)' = IF r = r0 /\ Owner(r0) = a THEN NULL ELSE Owner(r)
              /\ Owner(r)' # NULL => Registry'[r].Name = Registry[r].Name
<1>1. Registry \in [Regs -> RegRecs]
  BY Types
<1>2. CASE Owner(r0) # a
  BY <1>1, <1>2 DEF Disowning, HeadOf, LoadOf, BufferAt, Owner
<1>3. CASE Owner(r0) = a
  <2>1. PICK x : x = [Registry[r0] EXCEPT !.OwnerAppId = NULL, !.Name = NULL]
    OBVIOUS
  <2>2. /\ x \in RegRecs /\ x.OwnerAppId = NULL
        /\ x.HeadOfAccessList = Registry[r0].HeadOfAccessList
        /\ x.LoadInProgress = Registry[r0].LoadInProgress
        /\ x.DoubleBuffered = Registry[r0].DoubleBuffered
        /\ x.DumpControlIndex = Registry[r0].DumpControlIndex
        /\ x.Buffers = Registry[r0].Buffers
    BY <1>1, <2>1 DEF RegRecs
  <2>3. Registry' = [Registry EXCEPT ![r0] = x]
    BY <1>1, <1>3, <2>1 DEF Disowning, Disowned
  <2>4. /\ Registry'[r0] = x /\ Registry' \in [Regs -> RegRecs]
        /\ \A r \in Regs : r # r0 => Registry'[r] = Registry[r]
    BY <1>1, <2>2, <2>3
  <2> QED
    BY <1>3, <2>2, <2>4 DEF HeadOf, LoadOf, BufferAt, Owner
<1> QED
  BY <1>2, <1>3

(* The clean-up has dropped the dumps of the same application as before.    *)
LeavingSame ==
  /\ pc'[ES].at \in {"mark", "remove"} <=> pc[ES].at \in {"mark", "remove"}
  /\ pc[ES].at \in {"mark", "remove"} => pc'[ES].arg = pc[ES].arg

(* What does not depend on where the tasks are.                             *)
LEMMA DisowningOK ==
  ASSUME RegistryInv, NEW a \in Apps, NEW r0 \in Regs, Disowning(a, r0),
         LeavingSame,
         \A i \in Loads : Dumps[i].State # "free" /\ Dumps[i].RegRecPtr = r0 =>
           Owner(r0) # a
  PROVE  /\ LinkInv' /\ RankInv' /\ OwnerInv' /\ MemoryInv' /\ LoadInv' /\ DumpInv'
         /\ \A b \in Apps : \A h : Removing(b, h) =>
              /\ h \in Handles /\ Desc'[h].UsedFlag /\ Desc'[h].AppId = b
              /\ Registry'[Desc'[h].RegIndex].OwnerAppId # b
<1>1. TypeOK /\ Desc' = Desc /\ Taken' = Taken /\ Dumps' = Dumps /\ pool' = pool
      /\ lost' = lost
  BY DEF RegistryInv, Disowning
<1>2. \A r \in Regs :
        /\ HeadOf(r)' = HeadOf(r) /\ LoadOf(r)' = LoadOf(r)
        /\ Registry'[r].DoubleBuffered = Registry[r].DoubleBuffered
        /\ Registry'[r].DumpControlIndex = Registry[r].DumpControlIndex
        /\ \A i \in {1, 2} : BufferAt(r, i)' = BufferAt(r, i)
        /\ Owner(r)' = IF r = r0 /\ Owner(r0) = a THEN NULL ELSE Owner(r)
        /\ Owner(r)' # NULL => Registry'[r].Name = Registry[r].Name
  BY <1>1, DisowningFacts
<1>3. LinkInv' /\ RankInv' /\ MemoryInv' /\ LoadInv'
  BY <1>1, <1>2, LinksKept, MemoryKept, LoadsKept DEF RegistryInv
<1>4. OwnerInv'
  BY <1>1, <1>2 DEF RegistryInv, OwnerInv, ValidAccess
<1>5. DumpInv'
  <2>1. DumpInv
    BY DEF RegistryInv
  <2>2. \A i \in Loads : Dumps[i].State # "free" =>
          LET r == Dumps[i].RegRecPtr IN
          /\ r \in Regs /\ Registry'[r].OwnerAppId = Registry[r].OwnerAppId
          /\ Registry'[r].Name = Registry[r].Name
    BY <1>2, <2>1 DEF DumpInv, Owner
  <2>3. \A i \in Loads : Dumps[i].State # "free" =>
          LET r == Dumps[i].RegRecPtr IN
          /\ r \in Regs /\ Registry'[r].OwnerAppId # NULL /\ Registry'[r].Name \in DumpOnly
          /\ Registry'[r].LoadInProgress # None /\ ~Leaving(Registry'[r].OwnerAppId)
          /\ Dumps[i].State = "pending" => Registry'[r].DumpControlIndex = i
    BY <1>2, <2>1, <2>2 DEF DumpInv, Owner, LoadOf
  <2>4. \A r \in Regs : LET i == Registry'[r].DumpControlIndex IN
          Owner(r)' # NULL /\ i # None /\ ~Leaving(Registry'[r].OwnerAppId) =>
            Dumps[i].State = "pending" /\ Dumps[i].RegRecPtr = r
    BY <1>2, <2>1 DEF DumpInv, Owner
  <2> QED
    BY <1>1, <2>1, <2>3, <2>4 DEF DumpInv, Owner, LoadOf, Leaving, LeavingSame
<1>6. \A b \in Apps : \A h : Removing(b, h) =>
        /\ h \in Handles /\ Desc'[h].UsedFlag /\ Desc'[h].AppId = b
        /\ Registry'[Desc'[h].RegIndex].OwnerAppId # b
  <2> SUFFICES ASSUME NEW b \in Apps, NEW h, Removing(b, h)
               PROVE  /\ h \in Handles /\ Desc'[h].UsedFlag /\ Desc'[h].AppId = b
                      /\ Registry'[Desc'[h].RegIndex].OwnerAppId # b
    OBVIOUS
  <2>1. h \in Handles /\ Desc[h].UsedFlag /\ Desc[h].AppId = b
        /\ Owner(Desc[h].RegIndex) # b
    BY DEF Removing, ValidAccess
  <2>2. Desc[h].RegIndex \in Regs
    BY <1>1, <2>1, Fields
  <2>3. Owner(Desc[h].RegIndex)' # b
    BY <1>1, <1>2, <2>1, <2>2, ConstantsOK
  <2> QED
    BY <1>1, <2>1, <2>3 DEF Owner
<1> QED
  BY <1>3, <1>4, <1>5, <1>6

LEMMA DisowningTypes ==
  ASSUME RegistryInv, NEW a \in Apps, NEW r0 \in Regs, Disowning(a, r0), ControlInv'
  PROVE  TypeOK'
<1>1. \A x \in Apps \cup {TBL, ES} : pc'[x].at \in
         {"idle", "remove", "dump", "file", "dumps", "mark", "fault"}
  BY PlacesTyped
<1>2. Registry' \in [Regs -> RegRecs]
  BY DisowningFacts DEF RegistryInv
<1> QED
  BY <1>1, <1>2 DEF RegistryInv, TypeOK, Disowning, RegRecs

(* CFE_TBL_Unregister, up to the removal of the descriptor.                 *)
LEMMA UnregisterOK ==
  ASSUME RegistryInv, Disciplined, NEW a \in Apps, NEW h \in Handles, Unregister(a, h)
  PROVE  RegistryInv'
<1>0. PICK r0 : r0 = Desc[h].RegIndex
  OBVIOUS
<1>1. TypeOK /\ ControlInv
  BY DEF RegistryInv
<1>2. r0 \in Regs
  BY <1>0, <1>1, Fields
<1>3. /\ pc[a].at = "idle" /\ a \in Unregistering /\ ValidAccess(a, h)
      /\ pc[TBL].at = "idle" /\ Disowning(a, r0)
      /\ pc' = [pc EXCEPT ![a] = [at |-> "remove", arg |-> h, i |-> None]]
  BY <1>0 DEF Unregister, Ready, MayDetach, Disciplined, Disowning, Owner, Go
<1>4. /\ pc'[a] = [at |-> "remove", arg |-> h, i |-> None]
      /\ pc'[ES] = pc[ES] /\ pc'[TBL] = pc[TBL]
      /\ \A b \in Apps : b # a => pc'[b] = pc[b]
      /\ pc' = [y \in Apps \cup {TBL, ES} |-> pc'[y]]
  BY <1>1, <1>3, GoFacts, ConstantsOK
<1>5. LeavingSame
  BY <1>4 DEF LeavingSame
<1>6. \A i \in Loads : Dumps[i].State # "free" /\ Dumps[i].RegRecPtr = r0 =>
        Owner(r0) # a
  BY <1>2, <1>3 DEF RegistryInv, DumpInv, OwnerInv, Disciplined
<1>7. /\ LinkInv' /\ RankInv' /\ OwnerInv' /\ MemoryInv' /\ LoadInv' /\ DumpInv'
      /\ \A b \in Apps : \A k : Removing(b, k) =>
           /\ k \in Handles /\ Desc'[k].UsedFlag /\ Desc'[k].AppId = b
           /\ Registry'[Desc'[k].RegIndex].OwnerAppId # b
  BY <1>2, <1>3, <1>5, <1>6, DisowningOK
<1>8. Desc' = Desc /\ app' = app
  BY <1>3 DEF Disowning
<1>9. UserInv'
  BY <1>4, <1>8, UsersStay DEF RegistryInv
<1>10. Registry'[r0].OwnerAppId # a
  BY <1>1, <1>2, <1>3, DisowningFacts, ConstantsOK DEF Owner
<1>11. AppsAt'
  <2> SUFFICES ASSUME NEW b \in Apps
               PROVE  \/ pc'[b].at = "idle"
                      \/ /\ pc'[b].at = "remove" /\ b \in Unregistering
                         /\ pc'[b].arg \in Handles /\ Desc'[pc'[b].arg].UsedFlag
                         /\ Desc'[pc'[b].arg].AppId = b
                         /\ Registry'[Desc'[pc'[b].arg].RegIndex].OwnerAppId # b
    BY DEF AppsAt, Removing, ValidAccess, Owner
  <2>1. CASE b = a
    BY <2>1, <1>0, <1>3, <1>4, <1>8, <1>10 DEF ValidAccess
  <2>2. CASE b # a
    BY <2>2, <1>1, <1>4, <1>7 DEF ControlInv, AppsAt
  <2> QED
    BY <2>1, <2>2
<1>12. DumperAt'
  BY <1>3, <1>4 DEF DumperAt
<1>13. CleanerAt'
  <2>1. pc[ES].arg \in Exiting \cup Killing => pc[ES].arg \in Apps
    BY RegistryAssumption
  <2>2. pc[ES].arg \in Exiting \cup Killing /\ Removing(pc[ES].arg, pc[ES].i) =>
          /\ pc[ES].i \in Handles
          /\ Desc'[pc[ES].i].UsedFlag /\ Desc'[pc[ES].i].AppId = pc[ES].arg
          /\ Registry'[Desc'[pc[ES].i].RegIndex].OwnerAppId # pc[ES].arg
    BY <2>1, <1>7
  <2> QED
    BY <2>2, <1>1, <1>4, <1>8 DEF ControlInv, CleanerAt, Removing, ValidAccess, Owner
<1>14. ControlInv'
  BY <1>4, <1>11, <1>12, <1>13 DEF ControlInv
<1>15. TypeOK'
  BY <1>2, <1>3, <1>14, DisowningTypes
<1> QED
  BY <1>7, <1>9, <1>14, <1>15 DEF RegistryInv

(* CFE_TBL_CleanUpApp comes to a descriptor.  If it carries the id of the   *)
(* application it is in use: none that the application left is beyond the   *)
(* place where the clean-up is.                                             *)
LEMMA CleanUpHandleOK ==
  ASSUME RegistryInv, Disciplined, CleanUpHandle
  PROVE  RegistryInv'
<1>0. PICK a, k, r0 : a = pc[ES].arg /\ k = pc[ES].i /\ r0 = Desc[k].RegIndex
  OBVIOUS
<1>1. TypeOK /\ ControlInv
  BY DEF RegistryInv
<1>2. pc[ES].at = "mark" /\ k < NumHandles /\ pc[TBL].at = "idle"
  BY <1>0 DEF CleanUpHandle, HandlesToScan, MayDetach, Disciplined
<1>3. /\ (a \in Exiting /\ app[a] = "exiting") \/ (a \in Killing /\ app[a] = "killed")
      /\ a \in Leavers /\ a \in Apps /\ k \in 0 .. NumHandles
      /\ \A h \in Handles : h < k => ~ValidAccess(a, h) \/ Desc[h].Late
  BY <1>0, <1>1, <1>2, RegistryAssumption DEF ControlInv, CleanerAt, Leavers
<1>4. k \in Handles
  BY <1>2, <1>3, ConstantsOK
<1>5. r0 \in Regs /\ Desc[k] \in DescRecs
  BY <1>0, <1>1, <1>4, Fields
<1>6. /\ Desc[k].AppId = a => Disowning(a, r0)
      /\ Desc[k].AppId = a => pc' = [pc EXCEPT ![ES] = [at |-> "remove", arg |-> a, i |-> k]]
      /\ Desc[k].AppId # a => UNCHANGED <<Registry, Desc, Taken, Dumps, pool, lost, app>>
      /\ Desc[k].AppId # a =>
           pc' = [pc EXCEPT ![ES] = [at |-> "mark", arg |-> a, i |-> k + 1]]
      /\ Desc' = Desc /\ app' = app
  BY <1>0 DEF CleanUpHandle, Disowning, Owner, Go
<1>7. \A b : Leaving(b) <=> b = a
  BY <1>0, <1>2 DEF Leaving
<1>8. CASE Desc[k].AppId = a
  <2>1. Disowning(a, r0)
    BY <1>6, <1>8
  <2>2. /\ pc'[ES] = [at |-> "remove", arg |-> a, i |-> k]
        /\ \A y \in Apps \cup {TBL} : pc'[y] = pc[y]
        /\ pc' = [y \in Apps \cup {TBL, ES} |-> pc'[y]]
    BY <1>1, <1>6, <1>8, GoFacts, ConstantsOK
  <2>3. LeavingSame
    BY <1>0, <1>2, <2>2 DEF LeavingSame
  <2>4. \A i \in Loads : Dumps[i].State # "free" /\ Dumps[i].RegRecPtr = r0 =>
          Owner(r0) # a
    BY <1>7 DEF RegistryInv, DumpInv
  <2>5. /\ LinkInv' /\ RankInv' /\ OwnerInv' /\ MemoryInv' /\ LoadInv' /\ DumpInv'
        /\ \A b \in Apps : \A h : Removing(b, h) =>
             /\ h \in Handles /\ Desc'[h].UsedFlag /\ Desc'[h].AppId = b
             /\ Registry'[Desc'[h].RegIndex].OwnerAppId # b
    BY <1>3, <1>5, <2>1, <2>3, <2>4, DisowningOK
  <2>6. UserInv'
    BY <1>0, <1>6, <1>7, <2>2 DEF RegistryInv, UserInv, Used, Leaving
  <2>7. Registry'[r0].OwnerAppId # a
    BY <1>1, <1>3, <1>5, <2>1, DisowningFacts, ConstantsOK DEF Owner
  <2>8. Desc[k].UsedFlag
    <3>1. ~(k < pc[ES].i)
      BY <1>0, <1>4, ConstantsOK
    <3> QED
      BY <3>1, <1>3, <1>4, <1>8, <1>5 DEF RegistryInv, UserInv, Used, DescRecs
  <2>9. AppsAt'
    BY <1>1, <2>2, <2>5, AppsStay DEF ControlInv, Removing, ValidAccess, Owner
  <2>10. DumperAt'
    BY <1>2, <2>2 DEF DumperAt
  <2>11. CleanerAt'
    BY <1>0, <1>3, <1>4, <1>6, <1>8, <2>2, <2>7, <2>8
       DEF CleanerAt, Removing, ValidAccess, Owner
  <2>12. ControlInv'
    BY <2>2, <2>9, <2>10, <2>11 DEF ControlInv
  <2>13. TypeOK'
    BY <1>3, <1>5, <2>1, <2>12, DisowningTypes
  <2> QED
    BY <2>5, <2>6, <2>12, <2>13 DEF RegistryInv
<1>9. CASE Desc[k].AppId # a
  <2>1. TablesSame /\ app' = app
    BY <1>6, <1>9 DEF TablesSame
  <2>2. /\ pc'[ES] = [at |-> "mark", arg |-> a, i |-> k + 1]
        /\ \A y \in Apps \cup {TBL} : pc'[y] = pc[y]
        /\ pc' = [y \in Apps \cup {TBL, ES} |-> pc'[y]]
    BY <1>1, <1>6, <1>9, GoFacts, ConstantsOK
  <2>3. LeavingSame
    BY <1>0, <1>2, <2>2 DEF LeavingSame
  <2>4. LinkInv' /\ RankInv' /\ OwnerInv' /\ MemoryInv' /\ LoadInv'
    BY <2>1, TablesSameOK
  <2>5. DumpInv'
    BY <2>1, <2>3 DEF RegistryInv, DumpInv, TablesSame, Owner, LoadOf, Leaving,
       LeavingSame
  <2>6. UserInv'
    <3>1. \A h \in Handles : h < k => h < k + 1
      BY <1>3, ConstantsOK
    <3> QED
      BY <3>1, <1>0, <2>1, <2>2, <2>3 DEF RegistryInv, UserInv, TablesSame, Used,
         Leaving, LeavingSame
  <2>7. AppsAt'
    BY <1>1, <2>1, <2>2, AppsStay DEF ControlInv, Removing, ValidAccess, Owner, TablesSame
  <2>8. DumperAt'
    BY <1>2, <2>2 DEF DumperAt
  <2>9. CleanerAt'
    <3>1. \A h \in Handles : h < k + 1 => h < k \/ h = k
      BY <1>3, ConstantsOK
    <3>2. k + 1 \in 0 .. NumHandles
      BY <1>2, <1>3, ConstantsOK
    <3> QED
      BY <3>1, <3>2, <1>3, <1>9, <2>1, <2>2 DEF CleanerAt, ValidAccess, TablesSame
  <2>10. ControlInv'
    BY <2>2, <2>7, <2>8, <2>9 DEF ControlInv
  <2>11. TypeOK'
    BY <2>1, <2>10, PlacesTyped DEF RegistryInv, TypeOK, TablesSame
  <2> QED
    BY <2>4, <2>5, <2>6, <2>10, <2>11 DEF RegistryInv
<1> QED
  BY <1>8, <1>9

-----------------------------------------------------------------------------
(* A new user at the head of an access list *)

(* The fields of the descriptor of a new user.                              *)
LEMMA NewDescFacts ==
  ASSUME NEW a \in Apps, NEW r \in Regs, NEW n \in Handles \cup {None}
  PROVE  /\ NewDesc(a, r, n) \in DescRecs
         /\ NewDesc(a, r, n).UsedFlag /\ NewDesc(a, r, n).AppId = a
         /\ NewDesc(a, r, n).Late <=> app[a] = "killed"
         /\ NewDesc(a, r, n).RegIndex = r
         /\ NewDesc(a, r, n).PrevLink = None /\ NewDesc(a, r, n).NextLink = n
<1>1. PICK late \in BOOLEAN : late = (app[a] = "killed")
  OBVIOUS
<1>2. NewDesc(a, r, n) = [UsedFlag |-> TRUE, AppId |-> a, Late |-> late, RegIndex |-> r,
                          PrevLink |-> None, NextLink |-> n]
  BY <1>1, Zenon DEF NewDesc
<1>3. /\ NewDesc(a, r, n) \in DescRecs
      /\ NewDesc(a, r, n).UsedFlag /\ NewDesc(a, r, n).AppId = a
      /\ NewDesc(a, r, n).Late = late /\ NewDesc(a, r, n).RegIndex = r
      /\ NewDesc(a, r, n).PrevLink = None /\ NewDesc(a, r, n).NextLink = n
  BY <1>2 DEF DescRecs
<1> QED
  BY <1>1, <1>3, Zenon

(* Descriptor h is given to application a and put before the users of r.    *)
NewUser(a, r, h) ==
  /\ Desc' \in [Handles -> DescRecs]
  /\ Desc'[h].UsedFlag /\ Desc'[h].AppId = a /\ Desc'[h].RegIndex = r
  /\ Desc'[h].PrevLink = None /\ Desc'[h].NextLink = HeadOf(r)
  /\ Desc'[h].Late <=> app[a] = "killed"
  /\ \A k \in Handles \ {h} :
       /\ Desc'[k].UsedFlag = Desc[k].UsedFlag /\ Desc'[k].AppId = Desc[k].AppId
       /\ Desc'[k].RegIndex = Desc[k].RegIndex /\ Desc'[k].NextLink = Desc[k].NextLink
       /\ Desc'[k].PrevLink = IF k = HeadOf(r) THEN h ELSE Desc[k].PrevLink
       /\ Desc'[k].Late = Desc[k].Late
  /\ Registry'[r].HeadOfAccessList = h
  /\ \A s \in Regs \ {r} :
       Registry'[s].HeadOfAccessList = Registry[s].HeadOfAccessList

LEMMA NewUserLinks ==
  ASSUME TypeOK, LinkInv, NEW a \in Apps, NEW r0 \in Regs, NEW h0 \in Handles,
         ~Used(h0), NewUser(a, r0, h0)
  PROVE  LinkInv'
<1>1. \A k \in Handles : /\ Used(k) \in BOOLEAN /\ Desc[k].RegIndex \in Regs
                         /\ Desc[k].PrevLink \in Handles \cup {None}
                         /\ Desc[k].NextLink \in Handles \cup {None}
  BY Fields
<1>2. \A r \in Regs : HeadOf(r) \in Handles \cup {None}
  BY Fields
<1>3. None \notin Handles
  BY ConstantsOK
<1>4. \A r \in Regs : HeadOf(r) # None =>
        Desc[HeadOf(r)].UsedFlag /\ Desc[HeadOf(r)].RegIndex = r
        /\ HeadOf(r) # h0 /\ HeadOf(r) \in Handles
  BY <1>2 DEF LinkInv, Used
<1>5. ASSUME NEW r \in Regs, Registry'[r].HeadOfAccessList # None
      PROVE  /\ Desc'[Registry'[r].HeadOfAccessList].UsedFlag
             /\ Desc'[Registry'[r].HeadOfAccessList].RegIndex = r
  <2>1. CASE r = r0
    BY <2>1 DEF NewUser
  <2>2. CASE r # r0
    BY <2>2, <1>4, <1>5 DEF NewUser, HeadOf
  <2> QED
    BY <2>1, <2>2
<1>6. ASSUME NEW h \in Handles, Desc'[h].UsedFlag
      PROVE  /\ Registry'[Desc'[h].RegIndex].HeadOfAccessList # None
             /\ Desc'[h].PrevLink = None
                  <=> h = Registry'[Desc'[h].RegIndex].HeadOfAccessList
             /\ LET n == Desc'[h].NextLink IN n # None =>
                  /\ Desc'[n].UsedFlag /\ Desc'[n].RegIndex = Desc'[h].RegIndex
                  /\ Desc'[n].PrevLink = h
             /\ LET p == Desc'[h].PrevLink IN p # None =>
                  /\ Desc'[p].UsedFlag /\ Desc'[p].RegIndex = Desc'[h].RegIndex
                  /\ Desc'[p].NextLink = h
  <2>1. CASE h = h0
    BY <2>1, <1>3, <1>4 DEF NewUser
  <2>2. CASE h # h0
    <3>1. /\ Used(h) /\ Desc'[h].RegIndex = Desc[h].RegIndex
          /\ Desc'[h].NextLink = Desc[h].NextLink
          /\ Desc'[h].PrevLink = IF h = HeadOf(r0) THEN h0 ELSE Desc[h].PrevLink
      BY <2>2, <1>6 DEF NewUser, Used
    <3>2. /\ HeadOf(Desc[h].RegIndex) # None
          /\ Desc[h].PrevLink = None <=> h = HeadOf(Desc[h].RegIndex)
          /\ LET n == Desc[h].NextLink IN n # None =>
               /\ Desc[n].UsedFlag /\ Desc[n].RegIndex = Desc[h].RegIndex
               /\ Desc[n].PrevLink = h /\ n # h0 /\ n \in Handles
          /\ LET p == Desc[h].PrevLink IN p # None =>
               /\ Desc[p].UsedFlag /\ Desc[p].RegIndex = Desc[h].RegIndex
               /\ Desc[p].NextLink = h /\ p # h0 /\ p \in Handles
      BY <3>1, <1>1 DEF LinkInv, Used
    <3>3. Registry'[Desc'[h].RegIndex].HeadOfAccessList =
            IF Desc[h].RegIndex = r0 THEN h0 ELSE HeadOf(Desc[h].RegIndex)
      BY <3>1, <1>1 DEF NewUser, HeadOf
    <3>4. h = HeadOf(r0) => Desc[h].RegIndex = r0
      BY <1>3, <1>4
    <3>5. /\ Registry'[Desc'[h].RegIndex].HeadOfAccessList # None
          /\ Desc'[h].PrevLink = None
               <=> h = Registry'[Desc'[h].RegIndex].HeadOfAccessList
      BY <2>2, <3>1, <3>2, <3>3, <3>4, <1>3
    <3>6. LET n == Desc'[h].NextLink IN n # None =>
            /\ Desc'[n].UsedFlag /\ Desc'[n].RegIndex = Desc'[h].RegIndex
            /\ Desc'[n].PrevLink = h
      <4>1. HeadOf(r0) # None => Desc[HeadOf(r0)].PrevLink = None
        BY <1>4 DEF LinkInv, Used
      <4> QED
        BY <4>1, <3>1, <3>2, <1>3 DEF NewUser
    <3>7. LET p == Desc'[h].PrevLink IN p # None =>
            /\ Desc'[p].UsedFlag /\ Desc'[p].RegIndex = Desc'[h].RegIndex
            /\ Desc'[p].NextLink = h
      <4>1. CASE h = HeadOf(r0)
        BY <4>1, <3>1, <3>4 DEF NewUser
      <4>2. CASE h # HeadOf(r0)
        BY <4>2, <3>1, <3>2 DEF NewUser
      <4> QED
        BY <4>1, <4>2
    <3> QED
      BY <3>5, <3>6, <3>7
  <2> QED
    BY <2>1, <2>2
<1> QED
  BY <1>5, <1>6 DEF LinkInv, Used, HeadOf

(* The new head has the least rank.                                         *)
LEMMA NewUserRanks ==
  ASSUME TypeOK, LinkInv, RankInv, NEW a \in Apps, NEW r0 \in Regs, NEW h0 \in Handles,
         ~Used(h0), NewUser(a, r0, h0)
  PROVE  RankInv'
<1>1. PICK k \in [Handles -> Nat] : Ranks(k)
  BY DEF RankInv
<1>2. PICK m : m = [h \in Handles |-> IF h = h0 THEN 0 ELSE k[h] + 1]
  OBVIOUS
<1>3. m \in [Handles -> Nat] /\ m[h0] = 0
      /\ \A h \in Handles : h # h0 => m[h] = k[h] + 1
  BY <1>1, <1>2
<1>4. ASSUME NEW h \in Handles, Desc'[h].UsedFlag, Desc'[h].PrevLink # None
      PROVE  m[Desc'[h].PrevLink] < m[h]
  <2>1. h # h0 /\ Used(h)
    BY <1>4 DEF NewUser, Used
  <2>2. CASE h = HeadOf(r0)
    <3>1. Desc'[h].PrevLink = h0
      BY <2>1, <2>2 DEF NewUser
    <3>2. m[h] = k[h] + 1 /\ k[h] \in Nat
      BY <2>1, <1>1, <1>3
    <3> QED
      BY <3>1, <3>2, <1>3
  <2>3. CASE h # HeadOf(r0)
    <3>1. Desc'[h].PrevLink = Desc[h].PrevLink
      BY <2>1, <2>3 DEF NewUser
    <3>2. PICK p : p = Desc[h].PrevLink
      OBVIOUS
    <3>3. p \in Handles /\ p # h0
      BY <2>1, <3>1, <3>2, <1>4, Fields DEF LinkInv
    <3>4. k[p] < k[h]
      BY <2>1, <3>1, <3>2, <1>1, <1>4 DEF Ranks
    <3>5. m[p] = k[p] + 1 /\ m[h] = k[h] + 1 /\ k[p] \in Nat /\ k[h] \in Nat
      BY <2>1, <3>3, <1>1, <1>3
    <3> QED
      BY <3>1, <3>2, <3>4, <3>5
  <2> QED
    BY <2>2, <2>3
<1>5. m \in [Handles -> Nat] /\ Ranks(m)'
  BY <1>3, <1>4 DEF Ranks, Used
<1> QED
  BY <1>5 DEF RankInv

(* The other records stay; the one of r0 was free and is new, or stays but   *)
(* for the head of its list.                                                *)
NewRecord(r0) ==
  /\ Registry' \in [Regs -> RegRecs]
  /\ \A r \in Regs \ {r0} : Registry'[r] = Registry[r]
  /\ \/ /\ HeadOf(r0) = None /\ Owner(r0) = NULL
        /\ Registry'[r0].DumpControlIndex = None
     \/ /\ HeadOf(r0) # None
        /\ Registry'[r0].OwnerAppId = Registry[r0].OwnerAppId
        /\ Registry'[r0].Name = Registry[r0].Name
        /\ Registry'[r0].LoadInProgress = Registry[r0].LoadInProgress
        /\ Registry'[r0].DumpControlIndex = Registry[r0].DumpControlIndex

LEMMA NewRecordDumps ==
  ASSUME RegistryInv, NEW r0 \in Regs, NewRecord(r0), Dumps' = Dumps, pc' = pc
  PROVE  DumpInv' /\ DumperAt'
<1>1. DumpInv /\ TypeOK /\ ControlInv
  BY DEF RegistryInv
<1>2. ASSUME NEW r \in Regs, Registry[r].OwnerAppId # NULL
      PROVE  /\ Registry'[r].OwnerAppId = Registry[r].OwnerAppId
             /\ Registry'[r].Name = Registry[r].Name
             /\ Registry'[r].LoadInProgress = Registry[r].LoadInProgress
             /\ Registry'[r].DumpControlIndex = Registry[r].DumpControlIndex
  BY <1>2 DEF NewRecord, Owner
<1>3. \A i \in Loads : Dumps[i].State # "free" =>
        LET r == Dumps[i].RegRecPtr IN
        /\ r \in Regs /\ Registry'[r].OwnerAppId # NULL /\ Registry'[r].Name \in DumpOnly
        /\ Registry'[r].LoadInProgress # None /\ ~Leaving(Registry'[r].OwnerAppId)
        /\ Dumps[i].State = "pending" => Registry'[r].DumpControlIndex = i
  BY <1>1, <1>2 DEF DumpInv, Owner, LoadOf
<1>4. \A r \in Regs : LET i == Registry'[r].DumpControlIndex IN
        Registry'[r].OwnerAppId # NULL /\ i # None /\ ~Leaving(Registry'[r].OwnerAppId) =>
          Dumps[i].State = "pending" /\ Dumps[i].RegRecPtr = r
  <2> TAKE r \in Regs
  <2>1. CASE Registry[r].OwnerAppId # NULL
    BY <2>1, <1>1, <1>2 DEF DumpInv, Owner
  <2>2. CASE Registry[r].OwnerAppId = NULL
    BY <2>2 DEF NewRecord, Owner
  <2> QED
    BY <2>1, <2>2
<1>5. DumpInv'
  BY <1>1, <1>3, <1>4 DEF DumpInv, Owner, LoadOf, Leaving
<1>6. DumperAt'
  BY <1>1, <1>2 DEF ControlInv, DumperAt, Owner
<1> QED
  BY <1>5, <1>6

LEMMA NewUserControl ==
  ASSUME RegistryInv, NEW a \in Apps, NEW r0 \in Regs, NEW h0 \in Handles,
         ~Used(h0), NewUser(a, r0, h0), NewRecord(r0),
         app[a] \in {"up", "killed"}, app' = app, Dumps' = Dumps, pc' = pc
  PROVE  DumpInv' /\ ControlInv' /\ UserInv'
<1>1. TypeOK /\ ControlInv /\ LinkInv
  BY DEF RegistryInv
<1>2. DumpInv' /\ DumperAt'
  BY NewRecordDumps
<1>3. ASSUME NEW b, NEW h, Removing(b, h)
      PROVE  /\ h \in Handles /\ Desc'[h].UsedFlag /\ Desc'[h].AppId = b
             /\ Registry'[Desc'[h].RegIndex].OwnerAppId # b
  <2>1. h \in Handles /\ Used(h) /\ Desc[h].AppId = b /\ h # h0
        /\ Owner(Desc[h].RegIndex) # b
    BY <1>3 DEF Removing, ValidAccess, Used
  <2>2. /\ Desc[h].RegIndex \in Regs /\ HeadOf(Desc[h].RegIndex) # None
    BY <2>1, <1>1, Fields DEF LinkInv
  <2>3. Registry'[Desc[h].RegIndex].OwnerAppId = Owner(Desc[h].RegIndex)
    BY <2>2 DEF NewRecord, Owner
  <2> QED
    BY <2>1, <2>3 DEF NewUser, Used
<1>4. AppsAt'
  BY <1>1, <1>3, AppsStay DEF ControlInv, Removing, ValidAccess, Owner
<1>5. pc[ES].at # "idle" /\ pc[ES].arg = a => app[a] = "killed"
  BY <1>1 DEF ControlInv, CleanerAt
<1>6. ASSUME NEW h \in Handles, NEW b, b = a => app[a] = "killed",
             ~ValidAccess(b, h) \/ Desc[h].Late,
             Desc'[h].UsedFlag, Desc'[h].AppId = b
      PROVE  Desc'[h].Late
  BY <1>6 DEF NewUser, ValidAccess
<1>7. CleanerAt'
  <2>1. Removing(pc[ES].arg, pc[ES].i) =>
          /\ pc[ES].i \in Handles
          /\ Desc'[pc[ES].i].UsedFlag /\ Desc'[pc[ES].i].AppId = pc[ES].arg
          /\ Registry'[Desc'[pc[ES].i].RegIndex].OwnerAppId # pc[ES].arg
    BY <1>3
  <2> QED
    BY <2>1, <1>1, <1>5, <1>6 DEF ControlInv, CleanerAt, Removing, ValidAccess, Owner
<1>8. ControlInv'
  BY <1>1, <1>2, <1>4, <1>7, StayFacts DEF ControlInv
<1>9. UserInv'
  <2>1. UserInv
    BY DEF RegistryInv
  <2>2. \A h \in Handles : Desc'[h].UsedFlag =>
          /\ Desc'[h].AppId \in Apps
          /\ app[Desc'[h].AppId] # "gone" \/ Desc'[h].Late
          /\ Desc'[h].Late => app[Desc'[h].AppId] \in {"killed", "gone"}
    <3> TAKE h \in Handles
    <3>1. CASE h = h0
      BY <3>1 DEF NewUser
    <3>2. CASE h # h0
      BY <3>2, <2>1 DEF UserInv, NewUser, Used
    <3> QED
      BY <3>1, <3>2
  <2>3. \A h \in Handles : ~Desc'[h].UsedFlag => ~Used(h) /\ Desc'[h].AppId = Desc[h].AppId
    BY DEF NewUser, Used
  <2> QED
    BY <2>1, <2>2, <2>3 DEF UserInv, Used, Leaving
<1> QED
  BY <1>2, <1>8, <1>9

(* CFE_TBL_Share.                                                           *)
LEMMA ShareOK ==
  ASSUME RegistryInv, NEW a \in Apps, NEW t \in Tables, Share(a, t)
  PROVE  RegistryInv'
<1>0. PICK r0, h0 : r0 = First(Registered(t)) /\ h0 = First(FreeHandles)
  OBVIOUS
<1>1. r0 \in Regs /\ Owner(r0) # NULL
  <2>1. Registered(t) \subseteq Nat /\ Registered(t) # {}
    BY ConstantsOK DEF Share, Registered
  <2>2. r0 \in Registered(t)
    BY <1>0, <2>1, FirstFound
  <2> QED
    BY <2>2 DEF Registered, Owner
<1>2. h0 \in Handles /\ ~Used(h0)
  <2>1. FreeHandles \subseteq Nat /\ FreeHandles # {}
    BY ConstantsOK DEF Share, FreeHandles
  <2>2. h0 \in FreeHandles
    BY <1>0, <2>1, FirstFound
  <2> QED
    BY <2>2 DEF FreeHandles, Used
<1>3. /\ Desc' = Linked(a, r0, h0) /\ app[a] \in {"up", "killed"}
      /\ Registry' = [Registry EXCEPT ![r0].HeadOfAccessList = h0]
      /\ UNCHANGED <<Taken, Dumps, pool, lost, app, pc>>
  BY <1>0 DEF Share, Ready
<1>4. /\ Registry \in [Regs -> RegRecs] /\ Desc \in [Handles -> DescRecs]
      /\ TypeOK /\ LinkInv
  BY Types DEF RegistryInv
<1>5. HeadOf(r0) # None /\ HeadOf(r0) \in Handles /\ HeadOf(r0) # h0
  <2>1. PICK h \in Handles : ValidAccess(Owner(r0), h) /\ Desc[h].RegIndex = r0
    BY <1>1 DEF RegistryInv, OwnerInv
  <2>2. HeadOf(r0) # None
    BY <2>1, <1>4 DEF LinkInv, ValidAccess, Used
  <2> QED
    BY <2>2, <1>1, <1>2, <1>4, Fields DEF LinkInv
<1>6. PICK x : x = [Registry[r0] EXCEPT !.HeadOfAccessList = h0]
  OBVIOUS
<1>7. /\ x \in RegRecs /\ x.HeadOfAccessList = h0
      /\ x.OwnerAppId = Registry[r0].OwnerAppId /\ x.Name = Registry[r0].Name
      /\ x.LoadInProgress = Registry[r0].LoadInProgress
      /\ x.DoubleBuffered = Registry[r0].DoubleBuffered
      /\ x.DumpControlIndex = Registry[r0].DumpControlIndex
      /\ x.Buffers = Registry[r0].Buffers
  BY <1>1, <1>2, <1>4, <1>6 DEF RegRecs
<1>8. /\ Registry' \in [Regs -> RegRecs] /\ Registry'[r0] = x
      /\ \A r \in Regs \ {r0} : Registry'[r] = Registry[r]
  <2>1. Registry' = [Registry EXCEPT ![r0] = x]
    BY <1>1, <1>3, <1>4, <1>6
  <2> QED
    BY <2>1, <1>1, <1>4, <1>7
<1>9. NewRecord(r0)
  BY <1>5, <1>7, <1>8 DEF NewRecord
<1>10. NewUser(a, r0, h0)
  <2>1. PICK d, e, hd :
          /\ hd = HeadOf(r0)
          /\ d = NewDesc(a, r0, hd)
          /\ e = [Desc[hd] EXCEPT !.PrevLink = h0]
    OBVIOUS
  <2>2. /\ d \in DescRecs /\ Desc[hd] \in DescRecs
        /\ d.UsedFlag /\ d.AppId = a /\ d.RegIndex = r0
        /\ d.PrevLink = None /\ d.NextLink = hd /\ (d.Late <=> app[a] = "killed")
    BY <2>1, <1>1, <1>4, <1>5, NewDescFacts
  <2>3. /\ e \in DescRecs /\ e.PrevLink = h0
        /\ e.UsedFlag = Desc[hd].UsedFlag /\ e.AppId = Desc[hd].AppId
        /\ e.RegIndex = Desc[hd].RegIndex /\ e.NextLink = Desc[hd].NextLink
        /\ e.Late = Desc[hd].Late
    BY <2>1, <2>2, <1>2 DEF DescRecs
  <2>4. Desc' = [[Desc EXCEPT ![h0] = d] EXCEPT ![hd] = e]
    BY <2>1, <1>2, <1>3, <1>4, <1>5 DEF Linked, HeadOf
  <2>5. /\ Desc' \in [Handles -> DescRecs] /\ Desc'[h0] = d /\ Desc'[hd] = e
        /\ \A k \in Handles \ {h0, hd} : Desc'[k] = Desc[k]
    BY <2>1, <2>2, <2>3, <2>4, <1>2, <1>4, <1>5
  <2>6. /\ Desc'[h0].UsedFlag /\ Desc'[h0].AppId = a /\ Desc'[h0].RegIndex = r0
        /\ Desc'[h0].PrevLink = None /\ Desc'[h0].NextLink = HeadOf(r0)
        /\ Desc'[h0].Late <=> app[a] = "killed"
    BY <2>1, <2>2, <2>5
  <2>7. ASSUME NEW k \in Handles \ {h0}
        PROVE  /\ Desc'[k].UsedFlag = Desc[k].UsedFlag /\ Desc'[k].AppId = Desc[k].AppId
               /\ Desc'[k].RegIndex = Desc[k].RegIndex
               /\ Desc'[k].NextLink = Desc[k].NextLink
               /\ Desc'[k].PrevLink = IF k = HeadOf(r0) THEN h0 ELSE Desc[k].PrevLink
               /\ Desc'[k].Late = Desc[k].Late
    <3>1. CASE k = hd
      BY <3>1, <2>1, <2>3, <2>5
    <3>2. CASE k # hd
      BY <3>2, <2>1, <2>5
    <3> QED
      BY <3>1, <3>2
  <2>8. /\ Registry'[r0].HeadOfAccessList = h0
        /\ \A s \in Regs \ {r0} :
             Registry'[s].HeadOfAccessList = Registry[s].HeadOfAccessList
    BY <1>7, <1>8
  <2> QED
    BY <2>5, <2>6, <2>7, <2>8 DEF NewUser
<1>11. LinkInv' /\ RankInv'
  BY <1>1, <1>2, <1>4, <1>10, NewUserLinks, NewUserRanks DEF RegistryInv
<1>12. DumpInv' /\ ControlInv' /\ UserInv'
  BY <1>1, <1>2, <1>3, <1>9, <1>10, NewUserControl
<1>13. \A r \in Regs :
         /\ Owner(r)' = Owner(r) /\ Registry'[r].Name = Registry[r].Name
         /\ LoadOf(r)' = LoadOf(r)
         /\ Registry'[r].DoubleBuffered = Registry[r].DoubleBuffered
         /\ HeadOf(r)' = None <=> HeadOf(r) = None
         /\ Registry'[r].Buffers = Registry[r].Buffers
         /\ Registry'[r].DumpControlIndex = Registry[r].DumpControlIndex
  BY <1>2, <1>5, <1>7, <1>8, ConstantsOK DEF Owner, LoadOf, HeadOf
<1>14. OwnerInv'
  <2> SUFFICES ASSUME NEW r \in Regs, Owner(r)' # NULL
               PROVE  \E h \in Handles : /\ Desc'[h].UsedFlag /\ Desc'[h].RegIndex = r
                                         /\ Desc'[h].AppId = Owner(r)
    BY <1>13 DEF OwnerInv, RegistryInv, ValidAccess
  <2>1. PICK h \in Handles : ValidAccess(Owner(r), h) /\ Desc[h].RegIndex = r
    BY <1>13 DEF RegistryInv, OwnerInv
  <2>2. h # h0
    BY <2>1, <1>2 DEF ValidAccess, Used
  <2> QED
    BY <2>1, <2>2, <1>10 DEF NewUser, ValidAccess
<1>15. MemoryInv'
  <2>1. \A r \in Regs, i \in {1, 2} : BufferAt(r, i)' = BufferAt(r, i)
    BY <1>13 DEF BufferAt
  <2>2. MemoryInv /\ pool' = pool /\ lost' = lost
    BY <1>3 DEF RegistryInv
  <2> QED
    BY <1>13, <2>1, <2>2 DEF MemoryInv
<1>16. LoadInv'
  <2>1. LoadInv /\ Taken' = Taken
    BY <1>3 DEF RegistryInv
  <2> QED
    BY <1>13, <2>1 DEF LoadInv
<1>17. TypeOK'
  BY <1>3, <1>4, <1>8, <1>10 DEF TypeOK, RegRecs, DescRecs, NewUser
<1> QED
  BY <1>11, <1>12, <1>14, <1>15, <1>16, <1>17 DEF RegistryInv

-----------------------------------------------------------------------------
(* A new table *)

(* Application a registers table t in the free entry r, with descriptor h   *)
(* and buffers b and c (NULL when it has one).                              *)
NewTable(a, t, r, h, b, c) ==
  /\ \E x \in RegRecs :
       /\ Registry' = [Registry EXCEPT ![r] = x]
       /\ x.OwnerAppId = a /\ x.Name = t
       /\ x.DoubleBuffered = (t \in DoubleBuffered)
       /\ x.Buffers = <<b, c>> /\ x.HeadOfAccessList = h
       /\ x.LoadInProgress = None /\ x.DumpControlIndex = None
  /\ Desc' = [Desc EXCEPT ![h] = NewDesc(a, r, None)]
  /\ pool' = pool \ {b, c}
  /\ UNCHANGED <<Taken, Dumps, lost, app, pc>>

(* The free entry holds nothing before, and the new table afterwards.       *)
LEMMA NewTableFacts ==
  ASSUME RegistryInv, NEW a \in Apps, NEW t \in Tables, NEW r0 \in Regs,
         NEW h0 \in Handles, NEW b0 \in Buffers, NEW c \in Buffers \cup {NULL},
         Owner(r0) = NULL, HeadOf(r0) = None, ~Used(h0),
         NewTable(a, t, r0, h0, b0, c)
  PROVE  /\ LoadOf(r0) = None /\ BufferAt(r0, 1) = NULL /\ BufferAt(r0, 2) = NULL
         /\ Registry' \in [Regs -> RegRecs] /\ Desc' \in [Handles -> DescRecs]
         /\ Registry'[r0].OwnerAppId = a /\ Registry'[r0].Name = t
         /\ Registry'[r0].DoubleBuffered = (t \in DoubleBuffered)
         /\ Registry'[r0].Buffers = <<b0, c>>
         /\ Registry'[r0].HeadOfAccessList = h0
         /\ Registry'[r0].LoadInProgress = None
         /\ Registry'[r0].DumpControlIndex = None
         /\ \A r \in Regs \ {r0} : Registry'[r] = Registry[r]
         /\ NewUser(a, r0, h0) /\ NewRecord(r0)
<1>1. /\ Registry \in [Regs -> RegRecs] /\ Desc \in [Handles -> DescRecs]
      /\ TypeOK /\ MemoryInv /\ LoadInv
  BY Types DEF RegistryInv
<1>2. LoadOf(r0) = None /\ BufferAt(r0, 1) = NULL /\ BufferAt(r0, 2) = NULL
  BY <1>1 DEF MemoryInv, LoadInv
<1>3. PICK x \in RegRecs :
        /\ Registry' = [Registry EXCEPT ![r0] = x]
        /\ x.OwnerAppId = a /\ x.Name = t
        /\ x.DoubleBuffered = (t \in DoubleBuffered)
        /\ x.Buffers = <<b0, c>> /\ x.HeadOfAccessList = h0
        /\ x.LoadInProgress = None /\ x.DumpControlIndex = None
  BY DEF NewTable
<1>4. PICK d : d = NewDesc(a, r0, None) /\ Desc' = [Desc EXCEPT ![h0] = d]
  BY DEF NewTable
<1>5. /\ d \in DescRecs /\ d.UsedFlag /\ d.AppId = a /\ d.RegIndex = r0
      /\ d.PrevLink = None /\ d.NextLink = None /\ (d.Late <=> app[a] = "killed")
  BY <1>4, NewDescFacts
<1>6. /\ Registry' \in [Regs -> RegRecs] /\ Registry'[r0] = x
      /\ \A r \in Regs \ {r0} : Registry'[r] = Registry[r]
  BY <1>1, <1>3
<1>7. /\ Desc' \in [Handles -> DescRecs] /\ Desc'[h0] = d
      /\ \A k \in Handles \ {h0} : Desc'[k] = Desc[k]
  BY <1>1, <1>4, <1>5
<1>8. /\ x.OwnerAppId = a /\ x.Name = t
      /\ x.DoubleBuffered = (t \in DoubleBuffered)
      /\ x.Buffers = <<b0, c>> /\ x.HeadOfAccessList = h0
      /\ x.LoadInProgress = None /\ x.DumpControlIndex = None
  BY <1>3
<1>9. NewRecord(r0)
  BY <1>6, <1>8 DEF NewRecord
<1>10. NewUser(a, r0, h0)
  <2>2. \A k \in Handles : k # HeadOf(r0)
    BY ConstantsOK
  <2> QED
    BY <2>2, <1>5, <1>6, <1>7, <1>8 DEF NewUser
<1> QED
  BY <1>2, <1>6, <1>7, <1>8, <1>9, <1>10

LEMMA NewTableMemory ==
  ASSUME RegistryInv, NEW a \in Apps, NEW t \in Tables, NEW r0 \in Regs,
         NEW h0 \in Handles, NEW b0 \in pool, NEW c \in pool \cup {NULL},
         Owner(r0) = NULL, HeadOf(r0) = None, ~Used(h0), b0 # c,
         c = NULL <=> t \notin DoubleBuffered,
         NewTable(a, t, r0, h0, b0, c)
  PROVE  MemoryInv' /\ LoadInv'
<1>1. /\ TypeOK /\ MemoryInv /\ LoadInv /\ pool \subseteq Buffers
      /\ None \notin Handles /\ NULL \notin Buffers
  BY ConstantsOK DEF RegistryInv, TypeOK
<1>2. /\ LoadOf(r0) = None /\ BufferAt(r0, 1) = NULL /\ BufferAt(r0, 2) = NULL
      /\ Registry'[r0].DoubleBuffered = (t \in DoubleBuffered)
      /\ Registry'[r0].Buffers = <<b0, c>>
      /\ Registry'[r0].HeadOfAccessList = h0
      /\ Registry'[r0].LoadInProgress = None
      /\ \A r \in Regs \ {r0} : Registry'[r] = Registry[r]
  BY <1>1, NewTableFacts
<1>3. /\ BufferAt(r0, 1)' = b0 /\ BufferAt(r0, 2)' = c
      /\ \A r \in Regs \ {r0}, i \in {1, 2} : BufferAt(r, i)' = BufferAt(r, i)
      /\ \A r \in Regs \ {r0} : LoadOf(r)' = LoadOf(r) /\ HeadOf(r)' = HeadOf(r)
      /\ LoadOf(r0)' = None /\ HeadOf(r0)' = h0
  BY <1>2 DEF BufferAt, LoadOf, HeadOf
<1>4. pool' = pool \ {b0, c} /\ lost' = lost /\ Taken' = Taken
  BY DEF NewTable
<1>5. LoadInv'
  BY <1>1, <1>2, <1>3, <1>4 DEF LoadInv
<1>6. \A r \in Regs : IF HeadOf(r)' = None
       THEN BufferAt(r, 1)' = NULL /\ BufferAt(r, 2)' = NULL
       ELSE /\ BufferAt(r, 1)' \in Buffers
            /\ IF Registry'[r].DoubleBuffered
               THEN BufferAt(r, 2)' \in Buffers /\ BufferAt(r, 2)' # BufferAt(r, 1)'
               ELSE BufferAt(r, 2)' = NULL
  <2> TAKE r \in Regs
  <2>1. CASE r = r0
    BY <2>1, <1>1, <1>2, <1>3
  <2>2. CASE r # r0
    BY <2>2, <1>1, <1>2, <1>3 DEF MemoryInv
  <2> QED
    BY <2>1, <2>2
<1>7. \A r \in Regs, i \in {1, 2} : BufferAt(r, i) \notin pool
  BY <1>1 DEF MemoryInv
<1>8. \A r \in Regs, i \in {1, 2} : BufferAt(r, i)' \notin pool'
  <2> TAKE r \in Regs, i \in {1, 2}
  <2>1. CASE r = r0
    BY <2>1, <1>3, <1>4
  <2>2. CASE r # r0
    BY <2>2, <1>3, <1>4, <1>7
  <2> QED
    BY <2>1, <2>2
<1>9. ASSUME NEW r \in Regs, NEW s \in Regs, NEW i \in {1, 2}, NEW j \in {1, 2},
             r # s, BufferAt(r, i)' # NULL
      PROVE  BufferAt(r, i)' # BufferAt(s, j)'
  <2>1. CASE r = r0
    <3>1. BufferAt(r, i)' \in pool /\ BufferAt(s, j)' = BufferAt(s, j)
      BY <2>1, <1>3, <1>9
    <3> QED
      BY <3>1, <1>7
  <2>2. CASE s = r0
    <3>1. BufferAt(s, j)' \in pool \cup {NULL} /\ BufferAt(r, i)' = BufferAt(r, i)
      BY <2>2, <1>3, <1>9
    <3> QED
      BY <3>1, <1>7, <1>9
  <2>3. CASE r # r0 /\ s # r0
    BY <2>3, <1>1, <1>3, <1>9 DEF MemoryInv
  <2> QED
    BY <2>1, <2>2, <2>3
<1>10. ASSUME NEW b \in Buffers
       PROVE  b \in pool' \cup lost' \/ \E r \in Regs, i \in {1, 2} : BufferAt(r, i)' = b
  <2>1. CASE b \in {b0, c}
    BY <2>1, <1>3
  <2>2. CASE b \in pool \cup lost /\ b \notin {b0, c}
    BY <2>2, <1>4
  <2>3. CASE b \notin pool \cup lost
    <3>1. PICK r \in Regs, i \in {1, 2} : BufferAt(r, i) = b
      BY <2>3, <1>1 DEF MemoryInv
    <3>2. r # r0
      BY <3>1, <1>1, <1>2
    <3> QED
      BY <3>1, <3>2, <1>3
  <2> QED
    BY <2>1, <2>2, <2>3
<1>11. MemoryInv'
  BY <1>6, <1>8, <1>9, <1>10 DEF MemoryInv
<1> QED
  BY <1>5, <1>11

LEMMA NewTableOK ==
  ASSUME RegistryInv, NEW a \in Apps, NEW t \in Tables, NEW r0 \in Regs,
         NEW h0 \in Handles, NEW b0 \in pool, NEW c \in pool \cup {NULL},
         Owner(r0) = NULL, HeadOf(r0) = None, ~Used(h0), b0 # c,
         c = NULL <=> t \notin DoubleBuffered, a = OwnerOf[t],
         app[a] \in {"up", "killed"},
         NewTable(a, t, r0, h0, b0, c)
  PROVE  RegistryInv'
<1>1. pool \subseteq Buffers /\ TypeOK /\ LinkInv /\ RankInv /\ OwnerInv
  BY DEF RegistryInv, TypeOK
<1>2. /\ NewUser(a, r0, h0) /\ NewRecord(r0)
      /\ Registry' \in [Regs -> RegRecs]
      /\ Registry'[r0].OwnerAppId = a /\ Registry'[r0].Name = t
      /\ Registry'[r0].DoubleBuffered = (t \in DoubleBuffered)
      /\ Registry'[r0].DumpControlIndex = None
      /\ \A r \in Regs \ {r0} : Registry'[r] = Registry[r]
  BY <1>1, NewTableFacts
<1>3. /\ pool' \subseteq Buffers /\ UNCHANGED <<Taken, Dumps, lost, app, pc>>
  BY <1>1 DEF NewTable
<1>4. LinkInv' /\ RankInv'
  BY <1>1, <1>2, NewUserLinks, NewUserRanks
<1>5. DumpInv' /\ ControlInv' /\ UserInv'
  BY <1>2, <1>3, NewUserControl
<1>6. MemoryInv' /\ LoadInv'
  BY NewTableMemory
<1>7. OwnerInv'
  <2> SUFFICES ASSUME NEW r \in Regs, Registry'[r].OwnerAppId # NULL
               PROVE  /\ Registry'[r].Name \in Tables
                      /\ Registry'[r].OwnerAppId = OwnerOf[Registry'[r].Name]
                      /\ Registry'[r].DoubleBuffered <=> Registry'[r].Name \in DoubleBuffered
                      /\ \E h \in Handles :
                           /\ Desc'[h].UsedFlag /\ Desc'[h].AppId = Registry'[r].OwnerAppId
                           /\ Desc'[h].RegIndex = r
                      /\ Registry'[r].DumpControlIndex # None =>
                           Registry'[r].Name \in DumpOnly
    BY DEF OwnerInv, Owner, ValidAccess
  <2>1. CASE r = r0
    BY <2>1, <1>2 DEF NewUser
  <2>2. CASE r # r0
    <3>1. Registry'[r] = Registry[r]
      BY <2>2, <1>2
    <3>2. PICK h \in Handles : ValidAccess(Owner(r), h) /\ Desc[h].RegIndex = r
      BY <3>1, <1>1 DEF OwnerInv, Owner
    <3>3. h # h0
      BY <3>2 DEF ValidAccess, Used
    <3>4. /\ Desc'[h].UsedFlag /\ Desc'[h].AppId = Registry'[r].OwnerAppId
          /\ Desc'[h].RegIndex = r
      BY <3>1, <3>2, <3>3, <1>2 DEF NewUser, ValidAccess, Owner
    <3> QED
      BY <3>1, <3>4, <1>1 DEF OwnerInv, Owner
  <2> QED
    BY <2>1, <2>2
<1>8. TypeOK'
  BY <1>1, <1>2, <1>3 DEF TypeOK, RegRecs, DescRecs, NewUser
<1> QED
  BY <1>4, <1>5, <1>6, <1>7, <1>8 DEF RegistryInv

(* The second buffer cannot be had: the entry is free as before, and the    *)
(* first buffer is lost.                                                    *)
LEMMA NoTableOK ==
  ASSUME RegistryInv, NEW r0 \in Regs, NEW b0 \in Buffers,
         Owner(r0) = NULL, HeadOf(r0) = None, pool = {b0},
         Registry' = [Registry EXCEPT ![r0] = NoRec], pool' = {},
         lost' = lost \cup {b0}, UNCHANGED <<Desc, Taken, Dumps, app, pc>>
  PROVE  RegistryInv'
<1>1. /\ Registry \in [Regs -> RegRecs] /\ TypeOK /\ LinkInv /\ RankInv /\ OwnerInv
      /\ MemoryInv /\ LoadInv /\ ControlInv /\ UserInv
  BY Types DEF RegistryInv
<1>2. /\ NoRec \in RegRecs /\ NoRec.OwnerAppId = NULL /\ NoRec.HeadOfAccessList = None
      /\ NoRec.LoadInProgress = None /\ NoRec.DumpControlIndex = None
      /\ NoRec.Buffers[1] = NULL /\ NoRec.Buffers[2] = NULL
  BY DEF NoRec, RegRecs
<1>3. /\ Registry' \in [Regs -> RegRecs] /\ Registry'[r0] = NoRec
      /\ \A r \in Regs \ {r0} : Registry'[r] = Registry[r]
  BY <1>1, <1>2
<1>4. LoadOf(r0) = None /\ BufferAt(r0, 1) = NULL /\ BufferAt(r0, 2) = NULL
  BY <1>1 DEF MemoryInv, LoadInv
<1>5. \A r \in Regs : /\ Owner(r)' = Owner(r) /\ HeadOf(r)' = HeadOf(r)
                      /\ LoadOf(r)' = LoadOf(r)
                      /\ BufferAt(r, 1)' = BufferAt(r, 1) /\ BufferAt(r, 2)' = BufferAt(r, 2)
  BY <1>2, <1>3, <1>4 DEF Owner, HeadOf, LoadOf, BufferAt
<1>6. NewRecord(r0)
  BY <1>2, <1>3 DEF NewRecord
<1>7. LinkInv' /\ RankInv'
  BY <1>1, <1>5, LinksKept
<1>8. DumpInv' /\ DumperAt'
  BY <1>6, NewRecordDumps
<1>9. OwnerInv'
  BY <1>1, <1>3, <1>5 DEF OwnerInv, ValidAccess
<1>10. MemoryInv'
  <2>1. \A r \in Regs, i \in {1, 2} : BufferAt(r, i)' = BufferAt(r, i)
    BY <1>5
  <2>2. \A r \in Regs : HeadOf(r)' # None =>
          Registry'[r].DoubleBuffered = Registry[r].DoubleBuffered
    BY <1>3, <1>5
  <2>3. \A b \in Buffers : b \in pool \cup lost => b \in pool' \cup lost'
    OBVIOUS
  <2> QED
    BY <1>1, <1>5, <2>1, <2>2, <2>3 DEF MemoryInv
<1>11. LoadInv'
  <2>1. \A r \in Regs : LoadOf(r) # None =>
          Registry'[r].DoubleBuffered = Registry[r].DoubleBuffered
    BY <1>3, <1>4
  <2> QED
    BY <1>1, <1>5, <2>1 DEF LoadInv
<1>12. \A b, h : h \in Handles => Owner(Desc[h].RegIndex)' = Owner(Desc[h].RegIndex)
  BY <1>1, <1>5, Fields
<1>13. AppsAt'
  BY <1>1, <1>12, AppsStay DEF ControlInv, Removing, ValidAccess
<1>14. CleanerAt'
  BY <1>1, <1>12 DEF ControlInv, CleanerAt, Removing, ValidAccess
<1>15. ControlInv'
  BY <1>1, <1>8, <1>13, <1>14, StayFacts DEF ControlInv
<1>16. UserInv'
  BY <1>1 DEF UserInv, Used, Leaving
<1>17. TypeOK'
  BY <1>1, <1>3 DEF TypeOK, RegRecs
<1> QED
  BY <1>7, <1>8, <1>9, <1>10, <1>11, <1>15, <1>16, <1>17 DEF RegistryInv

(* CFE_TBL_Register.                                                        *)
LEMMA RegisterOK ==
  ASSUME RegistryInv, NEW a \in Apps, NEW t \in Tables, Register(a, t)
  PROVE  RegistryInv'
<1>0. PICK r0, h0, b0, b1 :
        /\ r0 = First(FreeRegs) /\ h0 = First(FreeHandles)
        /\ b0 = First(pool) /\ b1 = First(pool \ {b0})
  OBVIOUS
<1>1. r0 \in Regs /\ Owner(r0) = NULL /\ HeadOf(r0) = None
  <2>1. FreeRegs \subseteq Nat /\ FreeRegs # {}
    BY ConstantsOK DEF Register, FreeRegs
  <2>2. r0 \in FreeRegs
    BY <1>0, <2>1, FirstFound
  <2> QED
    BY <2>2 DEF FreeRegs, Owner, HeadOf
<1>2. h0 \in Handles /\ ~Used(h0)
  <2>1. FreeHandles \subseteq Nat /\ FreeHandles # {}
    BY ConstantsOK DEF Register, FreeHandles
  <2>2. h0 \in FreeHandles
    BY <1>0, <2>1, FirstFound
  <2> QED
    BY <2>2 DEF FreeHandles, Used
<1>3. pool \subseteq Nat /\ pool \subseteq Buffers /\ NULL \notin pool
  BY ConstantsOK DEF RegistryInv, TypeOK
<1>4. b0 \in pool
  <2>1. pool # {}
    BY DEF Register
  <2> QED
    BY <2>1, <1>0, <1>3, FirstFound
<1>5. pool # {b0} => b1 \in pool \ {b0}
  <2>1. ASSUME pool # {b0} PROVE pool \ {b0} # {} /\ pool \ {b0} \subseteq Nat
    BY <2>1, <1>3, <1>4
  <2> QED
    BY <2>1, <1>0, FirstFound
<1>6. /\ app[a] \in {"up", "killed"} /\ a = OwnerOf[t] /\ UNCHANGED <<Taken, Dumps, app, pc>>
  BY DEF Register, Ready
<1>7. CASE t \notin DoubleBuffered
  <2>1. NewTable(a, t, r0, h0, b0, NULL)
    <3>0. PICK x :
            x = [NoRec EXCEPT !.OwnerAppId = a, !.Name = t, !.Buffers = <<b0, NULL>>,
                              !.DoubleBuffered = t \in DoubleBuffered,
                              !.HeadOfAccessList = h0]
      OBVIOUS
    <3>1. /\ x \in RegRecs /\ x.OwnerAppId = a /\ x.Name = t
          /\ x.DoubleBuffered = (t \in DoubleBuffered)
          /\ x.Buffers = <<b0, NULL>> /\ x.HeadOfAccessList = h0
          /\ x.LoadInProgress = None /\ x.DumpControlIndex = None
      <4>1. PICK bs : bs = <<b0, NULL>>
        OBVIOUS
      <4>2. bs \in (Buffers \cup {NULL}) \X (Buffers \cup {NULL})
        BY <4>1, <1>3, <1>4, <1>5, <1>7
      <4>3. x = [NoRec EXCEPT !.OwnerAppId = a, !.Name = t, !.Buffers = bs,
                              !.DoubleBuffered = t \in DoubleBuffered,
                              !.HeadOfAccessList = h0]
        BY <3>0, <4>1, Zenon
      <4>4. x \in RegRecs
        <5>1. NoRec \in RegRecs
          BY DEF NoRec, RegRecs
        <5>2. PICK y : y = [NoRec EXCEPT !.OwnerAppId = a, !.Name = t, !.Buffers = bs]
          OBVIOUS
        <5>3. y \in RegRecs
          BY <5>1, <5>2, <4>2 DEF RegRecs
        <5>4. x = [y EXCEPT !.DoubleBuffered = t \in DoubleBuffered,
                            !.HeadOfAccessList = h0]
          BY <4>3, <5>2, Zenon
        <5>5. (t \in DoubleBuffered) = FALSE
          BY <1>7
        <5>6. x = [y EXCEPT !.DoubleBuffered = FALSE, !.HeadOfAccessList = h0]
          BY <5>4, <5>5
        <5> QED
          BY <5>3, <5>6, <1>2 DEF RegRecs
      <4>5. /\ x.OwnerAppId = a /\ x.Name = t /\ x.Buffers = bs
            /\ x.DoubleBuffered = (t \in DoubleBuffered) /\ x.HeadOfAccessList = h0
            /\ x.LoadInProgress = None /\ x.DumpControlIndex = None
        BY <4>3 DEF NoRec
      <4> QED
        BY <4>1, <4>4, <4>5
    <3>2. Registry' = [Registry EXCEPT ![r0] = x]
      BY <3>0, <1>0, <1>7, Zenon DEF Register
    <3>3. Desc' = [Desc EXCEPT ![h0] = NewDesc(a, r0, None)]
      BY <1>0, <1>7, Zenon DEF Register
    <3>4. pool' = pool \ {b0, NULL} /\ lost' = lost
      BY <1>0, <1>3, <1>7 DEF Register
    <3> QED
      BY <3>1, <3>2, <3>3, <3>4, <1>6, Zenon DEF NewTable
  <2> QED
    BY <2>1, <1>1, <1>2, <1>3, <1>4, <1>6, <1>7, NewTableOK
<1>8. CASE t \in DoubleBuffered /\ pool # {b0}
  <2>1. NewTable(a, t, r0, h0, b0, b1)
    <3>0. PICK x :
            x = [NoRec EXCEPT !.OwnerAppId = a, !.Name = t, !.Buffers = <<b0, b1>>,
                              !.DoubleBuffered = t \in DoubleBuffered,
                              !.HeadOfAccessList = h0]
      OBVIOUS
    <3>1. /\ x \in RegRecs /\ x.OwnerAppId = a /\ x.Name = t
          /\ x.DoubleBuffered = (t \in DoubleBuffered)
          /\ x.Buffers = <<b0, b1>> /\ x.HeadOfAccessList = h0
          /\ x.LoadInProgress = None /\ x.DumpControlIndex = None
      <4>1. PICK bs : bs = <<b0, b1>>
        OBVIOUS
      <4>2. bs \in (Buffers \cup {NULL}) \X (Buffers \cup {NULL})
        BY <4>1, <1>3, <1>4, <1>5, <1>8
      <4>3. x = [NoRec EXCEPT !.OwnerAppId = a, !.Name = t, !.Buffers = bs,
                              !.DoubleBuffered = t \in DoubleBuffered,
                              !.HeadOfAccessList = h0]
        BY <3>0, <4>1, Zenon
      <4>4. x \in RegRecs
        <5>1. NoRec \in RegRecs
          BY DEF NoRec, RegRecs
        <5>2. PICK y : y = [NoRec EXCEPT !.OwnerAppId = a, !.Name = t, !.Buffers = bs]
          OBVIOUS
        <5>3. y \in RegRecs
          BY <5>1, <5>2, <4>2 DEF RegRecs
        <5>4. x = [y EXCEPT !.DoubleBuffered = t \in DoubleBuffered,
                            !.HeadOfAccessList = h0]
          BY <4>3, <5>2, Zenon
        <5>5. (t \in DoubleBuffered) = TRUE
          BY <1>8
        <5>6. x = [y EXCEPT !.DoubleBuffered = TRUE, !.HeadOfAccessList = h0]
          BY <5>4, <5>5
        <5> QED
          BY <5>3, <5>6, <1>2 DEF RegRecs
      <4>5. /\ x.OwnerAppId = a /\ x.Name = t /\ x.Buffers = bs
            /\ x.DoubleBuffered = (t \in DoubleBuffered) /\ x.HeadOfAccessList = h0
            /\ x.LoadInProgress = None /\ x.DumpControlIndex = None
        BY <4>3 DEF NoRec
      <4> QED
        BY <4>1, <4>4, <4>5
    <3>2. Registry' = [Registry EXCEPT ![r0] = x]
      BY <3>0, <1>0, <1>8, Zenon DEF Register
    <3>3. Desc' = [Desc EXCEPT ![h0] = NewDesc(a, r0, None)]
      BY <1>0, <1>8, Zenon DEF Register
    <3>4. pool' = pool \ {b0, b1} /\ lost' = lost
      BY <1>0, <1>3, <1>8 DEF Register
    <3> QED
      BY <3>1, <3>2, <3>3, <3>4, <1>6, Zenon DEF NewTable
  <2> QED
    BY <2>1, <1>1, <1>2, <1>3, <1>4, <1>5, <1>6, <1>8, NewTableOK
<1>9. CASE t \in DoubleBuffered /\ pool = {b0}
  <2>1. /\ Registry' = [Registry EXCEPT ![r0] = NoRec] /\ pool' = {}
        /\ lost' = lost \cup {b0} /\ UNCHANGED Desc
    BY <1>0, <1>9 DEF Register
  <2> QED
    BY <2>1, <1>1, <1>3, <1>4, <1>6, <1>9, NoTableOK
<1> QED
  BY <1>7, <1>8, <1>9

-----------------------------------------------------------------------------
(* A user leaves *)

(* A list whose head has no successor has no other user.                    *)
LEMMA SoleUser ==
  ASSUME TypeOK, LinkInv, RankInv, NEW h \in Handles, Used(h),
         Desc[h].PrevLink = None, Desc[h].NextLink = None,
         NEW k \in Handles, Used(k), Desc[k].RegIndex = Desc[h].RegIndex
  PROVE  k = h
<1> SUFFICES ASSUME k # h PROVE FALSE
  OBVIOUS
<1>1. PICK rk \in [Handles -> Nat] : Ranks(rk)
  BY DEF RankInv
<1>2. PICK S : S = {rk[x] : x \in {y \in Handles : /\ Used(y) /\ y # h
                                         /\ Desc[y].RegIndex = Desc[h].RegIndex}}
  OBVIOUS
<1>3. S \subseteq Nat /\ S # {}
  BY <1>1, <1>2
<1>4. PICK m \in S : \A n \in S : m <= n
  BY <1>3, LeastExists
<1>5. PICK x \in Handles : /\ Used(x) /\ x # h /\ Desc[x].RegIndex = Desc[h].RegIndex
                           /\ m = rk[x]
  BY <1>2, <1>4
<1>6. Desc[x].PrevLink # None
  BY <1>5 DEF LinkInv
<1>7. PICK p : p = Desc[x].PrevLink
  OBVIOUS
<1>8. /\ p \in Handles /\ Used(p) /\ Desc[p].RegIndex = Desc[x].RegIndex
      /\ Desc[p].NextLink = x
  BY <1>5, <1>6, <1>7, Fields DEF LinkInv
<1>9. p # h
  BY <1>5, <1>8, ConstantsOK
<1>10. rk[p] \in S
  BY <1>2, <1>5, <1>8, <1>9
<1>11. rk[p] < rk[x] /\ rk[p] \in Nat /\ rk[x] \in Nat
  BY <1>1, <1>5, <1>6, <1>7, <1>8 DEF Ranks
<1> QED
  BY <1>4, <1>5, <1>10, <1>11

(* Descriptor h of entry r leaves the list between p and n, whose head is   *)
(* hd afterwards.                                                           *)
LostUser(r, h, p, n, hd) ==
  /\ Desc' \in [Handles -> DescRecs] /\ Registry' \in [Regs -> RegRecs]
  /\ ~Desc'[h].UsedFlag /\ Desc'[h].AppId = Desc[h].AppId
  /\ \A k \in Handles \ {h} :
       /\ Desc'[k].UsedFlag = Desc[k].UsedFlag /\ Desc'[k].AppId = Desc[k].AppId
       /\ Desc'[k].RegIndex = Desc[k].RegIndex
       /\ Desc'[k].PrevLink = IF k = n THEN p ELSE Desc[k].PrevLink
       /\ Desc'[k].NextLink = IF k = p THEN n ELSE Desc[k].NextLink
       /\ Desc'[k].Late = Desc[k].Late
  /\ Registry'[r].HeadOfAccessList = hd
  /\ Registry'[r].OwnerAppId = Registry[r].OwnerAppId
  /\ Registry'[r].Name = Registry[r].Name
  /\ Registry'[r].DoubleBuffered = Registry[r].DoubleBuffered
  /\ Registry'[r].DumpControlIndex = Registry[r].DumpControlIndex
  /\ \A s \in Regs \ {r} : Registry'[s] = Registry[s]

(* The descriptor and its neighbours, before it leaves.                     *)
Listed(r, h, p, n, hd) ==
  /\ h \in Handles /\ Used(h) /\ r = Desc[h].RegIndex /\ r \in Regs
  /\ p = Desc[h].PrevLink /\ n = Desc[h].NextLink
  /\ hd = IF p = None THEN n ELSE HeadOf(r)
  /\ p # None => /\ p \in Handles /\ Used(p) /\ Desc[p].RegIndex = r
                 /\ Desc[p].NextLink = h
  /\ n # None => /\ n \in Handles /\ Used(n) /\ Desc[n].RegIndex = r
                 /\ Desc[n].PrevLink = h
  /\ p # h /\ n # h /\ (p # None => p # n)
  /\ HeadOf(r) # None /\ (p = None <=> h = HeadOf(r))
  /\ hd \in Handles \cup {None} /\ hd # h
  /\ hd = None => \A k \in Handles : Used(k) /\ Desc[k].RegIndex = r => k = h

LEMMA ListedFacts ==
  ASSUME RegistryInv, NEW h \in Handles, Used(h)
  PROVE  \E r, p, n, hd : Listed(r, h, p, n, hd)
<1>1. TypeOK /\ LinkInv /\ RankInv
  BY DEF RegistryInv
<1>2. PICK r, p, n : r = Desc[h].RegIndex /\ p = Desc[h].PrevLink /\ n = Desc[h].NextLink
  OBVIOUS
<1>3. PICK hd : hd = IF p = None THEN n ELSE HeadOf(r)
  OBVIOUS
<1>4. /\ r \in Regs /\ p \in Handles \cup {None} /\ n \in Handles \cup {None}
      /\ HeadOf(r) \in Handles \cup {None}
  BY <1>1, <1>2, Fields
<1>5. /\ HeadOf(r) # None /\ (p = None <=> h = HeadOf(r))
      /\ p # None => /\ p \in Handles /\ Used(p) /\ Desc[p].RegIndex = r
                     /\ Desc[p].NextLink = h
      /\ n # None => /\ n \in Handles /\ Used(n) /\ Desc[n].RegIndex = r
                     /\ Desc[n].PrevLink = h
  BY <1>1, <1>2, <1>4 DEF LinkInv
<1>6. PICK rk \in [Handles -> Nat] : Ranks(rk)
  BY <1>1 DEF RankInv
<1>7. /\ p # None => rk[p] < rk[h] /\ rk[p] \in Nat /\ rk[h] \in Nat
      /\ n # None => rk[h] < rk[n] /\ rk[n] \in Nat /\ rk[h] \in Nat
  BY <1>2, <1>5, <1>6, ConstantsOK DEF Ranks
<1>8. p # h /\ n # h /\ (p # None => p # n)
  <2>1. h # None
    BY ConstantsOK
  <2>2. \A x \in Nat : ~(x < x)
    OBVIOUS
  <2>3. \A x, y \in Nat : ~(x < y /\ y < x)
    OBVIOUS
  <2> QED
    BY <2>1, <2>2, <2>3, <1>7
<1>9. hd # h
  BY <1>3, <1>5, <1>8
<1>10. ASSUME hd = None, NEW k \in Handles, Used(k), Desc[k].RegIndex = r
       PROVE  k = h
  <2>1. p = None /\ n = None
    BY <1>3, <1>5, <1>10
  <2> QED
    BY <2>1, <1>1, <1>2, <1>10, SoleUser
<1>11. Listed(r, h, p, n, hd)
  BY <1>2, <1>3, <1>4, <1>5, <1>8, <1>9, <1>10 DEF Listed
<1> QED
  BY <1>11

LEMMA LostUserLinks ==
  ASSUME RegistryInv, NEW r, NEW h, NEW p, NEW n, NEW hd,
         Listed(r, h, p, n, hd), LostUser(r, h, p, n, hd)
  PROVE  LinkInv'
<1>1. TypeOK /\ LinkInv /\ h \in Handles /\ r \in Regs /\ None \notin Handles
  BY ConstantsOK DEF RegistryInv, Listed
<1>2. \A k \in Handles : /\ Used(k) \in BOOLEAN /\ Desc[k].RegIndex \in Regs
                         /\ Desc[k].PrevLink \in Handles \cup {None}
                         /\ Desc[k].NextLink \in Handles \cup {None}
  BY <1>1, Fields
<1>3. \A s \in Regs : HeadOf(s) \in Handles \cup {None}
  BY <1>1, Fields
<1>4. ASSUME NEW s \in Regs, Registry'[s].HeadOfAccessList # None
      PROVE  /\ Desc'[Registry'[s].HeadOfAccessList].UsedFlag
             /\ Desc'[Registry'[s].HeadOfAccessList].RegIndex = s
  <2>1. CASE s = r
    <3>1. hd # None /\ hd \in Handles /\ Used(hd) /\ Desc[hd].RegIndex = r /\ hd # h
      BY <2>1, <1>1, <1>4 DEF Listed, LostUser, LinkInv
    <3> QED
      BY <2>1, <3>1 DEF LostUser, Used
  <2>2. CASE s # r
    <3>1. /\ Registry'[s].HeadOfAccessList = HeadOf(s)
          /\ HeadOf(s) \in Handles /\ Used(HeadOf(s)) /\ Desc[HeadOf(s)].RegIndex = s
      BY <2>2, <1>1, <1>3, <1>4 DEF LostUser, LinkInv, HeadOf
    <3>2. HeadOf(s) # h
      BY <2>2, <3>1 DEF Listed
    <3> QED
      BY <3>1, <3>2 DEF LostUser, Used
  <2> QED
    BY <2>1, <2>2
<1>5. ASSUME NEW k \in Handles, Desc'[k].UsedFlag
      PROVE  /\ Registry'[Desc'[k].RegIndex].HeadOfAccessList # None
             /\ Desc'[k].PrevLink = None
                  <=> k = Registry'[Desc'[k].RegIndex].HeadOfAccessList
             /\ LET m == Desc'[k].NextLink IN m # None =>
                  /\ Desc'[m].UsedFlag /\ Desc'[m].RegIndex = Desc'[k].RegIndex
                  /\ Desc'[m].PrevLink = k
             /\ LET q == Desc'[k].PrevLink IN q # None =>
                  /\ Desc'[q].UsedFlag /\ Desc'[q].RegIndex = Desc'[k].RegIndex
                  /\ Desc'[q].NextLink = k
  <2>1. k # h
    BY <1>5 DEF LostUser
  <2>2. /\ Used(k) /\ Desc'[k].RegIndex = Desc[k].RegIndex
        /\ Desc'[k].PrevLink = IF k = n THEN p ELSE Desc[k].PrevLink
        /\ Desc'[k].NextLink = IF k = p THEN n ELSE Desc[k].NextLink
    BY <2>1, <1>5 DEF LostUser, Used
  <2>3. PICK s, m, q : /\ s = Desc[k].RegIndex /\ m = Desc[k].NextLink
                       /\ q = Desc[k].PrevLink
    OBVIOUS
  <2>4. /\ s \in Regs /\ HeadOf(s) # None /\ (q = None <=> k = HeadOf(s))
        /\ m # None => /\ m \in Handles /\ Used(m) /\ Desc[m].RegIndex = s
                       /\ Desc[m].PrevLink = k
        /\ q # None => /\ q \in Handles /\ Used(q) /\ Desc[q].RegIndex = s
                       /\ Desc[q].NextLink = k
    BY <2>2, <2>3, <1>1, <1>2 DEF LinkInv
  <2>5. Registry'[s].HeadOfAccessList = IF s = r THEN hd ELSE HeadOf(s)
    BY <2>4 DEF LostUser, HeadOf
  <2>6. s = r => hd # None
    BY <2>1, <2>2, <2>3 DEF Listed
  <2>7. /\ Registry'[Desc'[k].RegIndex].HeadOfAccessList # None
        /\ Desc'[k].PrevLink = None
             <=> k = Registry'[Desc'[k].RegIndex].HeadOfAccessList
    <3>1. CASE s = r
      BY <3>1, <2>1, <2>2, <2>3, <2>4, <2>5, <2>6, <1>1 DEF Listed
    <3>2. CASE s # r
      <4>1. k # n
        BY <3>2, <2>3, <1>1 DEF Listed
      <4> QED
        BY <4>1, <3>2, <2>2, <2>3, <2>4, <2>5
    <3> QED
      BY <3>1, <3>2
  <2>8. LET x == Desc'[k].NextLink IN x # None =>
          /\ Desc'[x].UsedFlag /\ Desc'[x].RegIndex = Desc'[k].RegIndex
          /\ Desc'[x].PrevLink = k
    <3>1. CASE k = p
      <4>1. Desc'[k].NextLink = n /\ s = r /\ k # None
        BY <3>1, <2>2, <2>3, <1>1 DEF Listed
      <4>2. n # None => /\ n \in Handles \ {h} /\ Used(n) /\ Desc[n].RegIndex = r
        BY DEF Listed
      <4> QED
        BY <4>1, <4>2, <3>1, <2>2, <2>3 DEF LostUser, Used
    <3>2. CASE k # p
      <4>1. Desc'[k].NextLink = m
        BY <3>2, <2>2, <2>3
      <4>2. m # None => m # h /\ m # n
        BY <3>2, <2>1, <2>4 DEF Listed
      <4> QED
        BY <4>1, <4>2, <2>2, <2>3, <2>4 DEF LostUser, Used
    <3> QED
      BY <3>1, <3>2
  <2>9. LET x == Desc'[k].PrevLink IN x # None =>
          /\ Desc'[x].UsedFlag /\ Desc'[x].RegIndex = Desc'[k].RegIndex
          /\ Desc'[x].NextLink = k
    <3>1. CASE k = n
      <4>1. Desc'[k].PrevLink = p /\ s = r /\ k # None
        BY <3>1, <2>2, <2>3, <1>1 DEF Listed
      <4>2. p # None => /\ p \in Handles \ {h} /\ Used(p) /\ Desc[p].RegIndex = r
        BY DEF Listed
      <4> QED
        BY <4>1, <4>2, <3>1, <2>2, <2>3 DEF LostUser, Used
    <3>2. CASE k # n
      <4>1. Desc'[k].PrevLink = q
        BY <3>2, <2>2, <2>3
      <4>2. q # None => q # h /\ q # p
        BY <3>2, <2>1, <2>4 DEF Listed
      <4> QED
        BY <4>1, <4>2, <2>2, <2>3, <2>4 DEF LostUser, Used
    <3> QED
      BY <3>1, <3>2
  <2> QED
    BY <2>7, <2>8, <2>9
<1> QED
  BY <1>4, <1>5 DEF LinkInv, HeadOf, Used

LEMMA LostUserRanks ==
  ASSUME RegistryInv, NEW r, NEW h, NEW p, NEW n, NEW hd,
         Listed(r, h, p, n, hd), LostUser(r, h, p, n, hd)
  PROVE  RankInv'
<1>1. PICK rk \in [Handles -> Nat] : Ranks(rk)
  BY DEF RegistryInv, RankInv
<1>2. h \in Handles /\ None \notin Handles
  BY ConstantsOK DEF Listed
<1>3. ASSUME NEW k \in Handles, Desc'[k].UsedFlag, Desc'[k].PrevLink # None
      PROVE  rk[Desc'[k].PrevLink] < rk[k]
  <2>1. /\ k # h /\ Used(k)
        /\ Desc'[k].PrevLink = IF k = n THEN p ELSE Desc[k].PrevLink
    BY <1>3 DEF LostUser, Used
  <2>2. CASE k = n
    <3>1. p \in Handles /\ Desc[k].PrevLink = h /\ Desc[h].PrevLink = p /\ p # None
      BY <2>1, <2>2, <1>2, <1>3 DEF Listed
    <3>2. rk[p] < rk[h] /\ rk[h] < rk[k]
      BY <3>1, <2>1, <1>1, <1>2 DEF Ranks, Listed
    <3>3. rk[p] \in Nat /\ rk[h] \in Nat /\ rk[k] \in Nat
      BY <3>1, <1>1, <1>2
    <3> QED
      BY <3>2, <3>3, <2>1, <2>2
  <2>3. CASE k # n
    BY <2>1, <2>3, <1>1, <1>3 DEF Ranks
  <2> QED
    BY <2>2, <2>3
<1>4. Ranks(rk)'
  BY <1>3 DEF Ranks, Used
<1> QED
  BY <1>1, <1>4 DEF RankInv

(* CFE_TBL_RemoveAccessLink takes a descriptor out of its list.             *)
LEMMA UnlinkedFacts ==
  ASSUME TypeOK, NEW r, NEW h, NEW p, NEW n, NEW hd,
         Listed(r, h, p, n, hd), Desc' = Unlinked(h)
  PROVE  /\ Desc' \in [Handles -> DescRecs]
         /\ ~Desc'[h].UsedFlag /\ Desc'[h].AppId = Desc[h].AppId
         /\ \A k \in Handles \ {h} :
              /\ Desc'[k].UsedFlag = Desc[k].UsedFlag /\ Desc'[k].AppId = Desc[k].AppId
              /\ Desc'[k].RegIndex = Desc[k].RegIndex
              /\ Desc'[k].PrevLink = IF k = n THEN p ELSE Desc[k].PrevLink
              /\ Desc'[k].NextLink = IF k = p THEN n ELSE Desc[k].NextLink
              /\ Desc'[k].Late = Desc[k].Late
<1>1. /\ h \in Handles /\ p \in Handles \cup {None} /\ n \in Handles \cup {None}
      /\ p = Desc[h].PrevLink /\ n = Desc[h].NextLink
      /\ p # h /\ n # h /\ (p # None => p # n) /\ None \notin Handles
  BY ConstantsOK DEF Listed
<1>2. Desc' = [k \in Handles |->
                 IF k = h THEN [Desc[k] EXCEPT !.UsedFlag = FALSE]
                 ELSE IF k = n THEN [Desc[k] EXCEPT !.PrevLink = p]
                 ELSE IF k = p THEN [Desc[k] EXCEPT !.NextLink = n]
                 ELSE Desc[k]]
  BY <1>1 DEF Unlinked
<1>3. \A k \in Handles : Desc[k] \in DescRecs
  BY Fields
<1>4. ASSUME NEW x \in DescRecs
      PROVE  /\ [x EXCEPT !.UsedFlag = FALSE] \in DescRecs
             /\ [x EXCEPT !.PrevLink = p] \in DescRecs
             /\ [x EXCEPT !.NextLink = n] \in DescRecs
  BY <1>1 DEF DescRecs
<1>5. Desc' \in [Handles -> DescRecs]
  BY <1>2, <1>3, <1>4
<1>6. ~Desc'[h].UsedFlag /\ Desc'[h].AppId = Desc[h].AppId
  <2>1. Desc'[h] = [Desc[h] EXCEPT !.UsedFlag = FALSE] /\ Desc[h] \in DescRecs
    BY <1>1, <1>2, <1>3
  <2> QED
    BY <2>1 DEF DescRecs
<1>7. ASSUME NEW k \in Handles \ {h}
      PROVE  /\ Desc'[k].UsedFlag = Desc[k].UsedFlag /\ Desc'[k].AppId = Desc[k].AppId
             /\ Desc'[k].RegIndex = Desc[k].RegIndex
             /\ Desc'[k].PrevLink = IF k = n THEN p ELSE Desc[k].PrevLink
             /\ Desc'[k].NextLink = IF k = p THEN n ELSE Desc[k].NextLink
             /\ Desc'[k].Late = Desc[k].Late
  <2>1. Desc[k] \in DescRecs
    BY <1>3
  <2>2. CASE k = n
    <3>1. Desc'[k] = [Desc[k] EXCEPT !.PrevLink = p] /\ k # p
      BY <2>2, <1>1, <1>2
    <3> QED
      BY <2>1, <2>2, <3>1 DEF DescRecs
  <2>3. CASE k # n /\ k = p
    <3>1. Desc'[k] = [Desc[k] EXCEPT !.NextLink = n]
      BY <2>3, <1>1, <1>2
    <3> QED
      BY <2>1, <2>3, <3>1 DEF DescRecs
  <2>4. CASE k # n /\ k # p
    BY <2>4, <1>2
  <2> QED
    BY <2>2, <2>3, <2>4
<1> QED
  BY <1>5, <1>6, <1>7

(* The memory of the table stays with its other users, or goes back.        *)
LEMMA RemoveFacts ==
  ASSUME RegistryInv, NEW r, NEW h, NEW p, NEW n, NEW hd,
         Listed(r, h, p, n, hd), RemoveAccessLink(h)
  PROVE  /\ LostUser(r, h, p, n, hd)
         /\ hd # None => /\ Registry'[r].Buffers = Registry[r].Buffers
                         /\ Registry'[r].LoadInProgress = Registry[r].LoadInProgress
                         /\ Taken' = Taken /\ pool' = pool
         /\ hd = None => /\ Registry'[r].Buffers[1] = NULL
                         /\ Registry'[r].Buffers[2] = NULL
                         /\ Registry'[r].LoadInProgress = None
                         /\ Taken' = LoadReturned(r)
                         /\ pool' = WithBuffersOf(Registry[r])
<1>1. /\ TypeOK /\ MemoryInv /\ LoadInv /\ Registry \in [Regs -> RegRecs]
  BY Types DEF RegistryInv
<1>2. /\ h \in Handles /\ r = Desc[h].RegIndex /\ r \in Regs
      /\ p = Desc[h].PrevLink /\ n = Desc[h].NextLink
      /\ hd = IF p = None THEN n ELSE HeadOf(r)
      /\ HeadOf(r) # None /\ hd \in Handles \cup {None}
  BY DEF Listed
<1>3. Desc' = Unlinked(h)
  BY DEF RemoveAccessLink
<1>4. hd = IF Desc[h].PrevLink = None THEN Desc[h].NextLink
                                      ELSE Registry[r].HeadOfAccessList
  BY <1>2 DEF HeadOf
<1>5. Registry[r] \in RegRecs
  BY <1>1, <1>2
<1>6. PICK x :
        /\ Registry' = [Registry EXCEPT ![r] = x] /\ x \in RegRecs
        /\ x.HeadOfAccessList = hd /\ x.OwnerAppId = Registry[r].OwnerAppId
        /\ x.Name = Registry[r].Name /\ x.DoubleBuffered = Registry[r].DoubleBuffered
        /\ x.DumpControlIndex = Registry[r].DumpControlIndex
        /\ hd # None => /\ x.Buffers = Registry[r].Buffers
                        /\ x.LoadInProgress = Registry[r].LoadInProgress
                        /\ Taken' = Taken /\ pool' = pool
        /\ hd = None => /\ x.Buffers[1] = NULL /\ x.Buffers[2] = NULL
                        /\ x.LoadInProgress = None
                        /\ Taken' = LoadReturned(r)
                        /\ pool' = WithBuffersOf(Registry[r])
  <2>1. CASE hd # None
    <3>1. /\ Registry' = [Registry EXCEPT ![r].HeadOfAccessList = hd]
          /\ Taken' = Taken /\ pool' = pool
      BY <2>1, <1>2, <1>4 DEF RemoveAccessLink
    <3>2. PICK x : x = [Registry[r] EXCEPT !.HeadOfAccessList = hd]
      OBVIOUS
    <3>3. /\ x \in RegRecs /\ x.HeadOfAccessList = hd
          /\ x.OwnerAppId = Registry[r].OwnerAppId
          /\ x.Name = Registry[r].Name /\ x.DoubleBuffered = Registry[r].DoubleBuffered
          /\ x.DumpControlIndex = Registry[r].DumpControlIndex
          /\ x.Buffers = Registry[r].Buffers
          /\ x.LoadInProgress = Registry[r].LoadInProgress
      BY <3>2, <1>2, <1>5 DEF RegRecs
    <3>4. Registry' = [Registry EXCEPT ![r] = x]
      BY <3>1, <3>2, <1>1, <1>2
    <3> QED
      BY <2>1, <3>1, <3>3, <3>4
  <2>2. CASE hd = None
    <3>1. PICK bs, l :
            /\ bs = IF Registry[r].DoubleBuffered THEN <<NULL, NULL>>
                                                  ELSE <<NULL, Registry[r].Buffers[2]>>
            /\ l = IF Registry[r].DoubleBuffered THEN Registry[r].LoadInProgress
                                                 ELSE None
      OBVIOUS
    <3>2. PICK x : x = [Registry[r] EXCEPT !.HeadOfAccessList = None, !.Buffers = bs,
                                           !.LoadInProgress = l]
      OBVIOUS
    <3>3. /\ Registry' = [Registry EXCEPT ![r] = x]
          /\ Taken' = LoadReturned(r) /\ pool' = WithBuffersOf(Registry[r])
      BY <2>2, <3>1, <3>2, <1>2, <1>4 DEF RemoveAccessLink
    <3>4. ~Registry[r].DoubleBuffered => Registry[r].Buffers[2] = NULL
      BY <1>1, <1>2 DEF MemoryInv, BufferAt
    <3>5. bs = <<NULL, NULL>>
      BY <3>1, <3>4
    <3>6. l = None
      BY <3>1, <1>1, <1>2 DEF LoadInv, LoadOf
    <3>7. /\ x \in RegRecs /\ x.HeadOfAccessList = hd
          /\ x.OwnerAppId = Registry[r].OwnerAppId
          /\ x.Name = Registry[r].Name /\ x.DoubleBuffered = Registry[r].DoubleBuffered
          /\ x.DumpControlIndex = Registry[r].DumpControlIndex
          /\ x.Buffers = bs /\ x.LoadInProgress = l
      <4>1. bs \in (Buffers \cup {NULL}) \X (Buffers \cup {NULL})
        BY <3>5
      <4> QED
        BY <4>1, <2>2, <3>2, <3>6, <1>5 DEF RegRecs
    <3>8. bs[1] = NULL /\ bs[2] = NULL
      BY <3>5
    <3> QED
      BY <2>2, <3>3, <3>6, <3>7, <3>8
  <2> QED
    BY <2>1, <2>2
<1>7. /\ Registry' \in [Regs -> RegRecs] /\ Registry'[r] = x
      /\ \A s \in Regs \ {r} : Registry'[s] = Registry[s]
  BY <1>1, <1>2, <1>6
<1>8. LostUser(r, h, p, n, hd)
  BY <1>1, <1>3, <1>6, <1>7, UnlinkedFacts DEF LostUser
<1> QED
  BY <1>6, <1>7, <1>8

(* What the other tables have stays theirs; a buffer that comes back to the *)
(* pool is nobody else's.                                                   *)
LEMMA RemoveMemory ==
  ASSUME RegistryInv, NEW r, NEW h, NEW p, NEW n, NEW hd,
         Listed(r, h, p, n, hd), RemoveAccessLink(h), lost' = lost
  PROVE  MemoryInv' /\ pool' \subseteq Buffers
<1>1. /\ TypeOK /\ MemoryInv /\ pool \subseteq Buffers
      /\ None \notin Handles /\ NULL \notin Buffers
  BY ConstantsOK DEF RegistryInv, TypeOK
<1>2. r \in Regs /\ HeadOf(r) # None
  BY DEF Listed
<1>3. /\ Registry'[r].HeadOfAccessList = hd
      /\ Registry'[r].DoubleBuffered = Registry[r].DoubleBuffered
      /\ \A s \in Regs \ {r} : Registry'[s] = Registry[s]
      /\ hd # None => Registry'[r].Buffers = Registry[r].Buffers /\ pool' = pool
      /\ hd = None => /\ Registry'[r].Buffers[1] = NULL /\ Registry'[r].Buffers[2] = NULL
                      /\ pool' = WithBuffersOf(Registry[r])
  BY RemoveFacts DEF LostUser
<1>4. \A s \in Regs \ {r} : /\ HeadOf(s)' = HeadOf(s)
                            /\ Registry'[s].DoubleBuffered = Registry[s].DoubleBuffered
                            /\ \A i \in {1, 2} : BufferAt(s, i)' = BufferAt(s, i)
  BY <1>3 DEF HeadOf, BufferAt
<1>5. CASE hd # None
  <2>1. \A s \in Regs, i \in {1, 2} : BufferAt(s, i)' = BufferAt(s, i)
    BY <1>3, <1>4, <1>5 DEF BufferAt
  <2>2. \A s \in Regs : HeadOf(s)' = None <=> HeadOf(s) = None
    BY <1>2, <1>3, <1>4, <1>5 DEF HeadOf
  <2>3. \A s \in Regs : Registry'[s].DoubleBuffered = Registry[s].DoubleBuffered
    BY <1>3, <1>4
  <2> QED
    BY <2>1, <2>2, <2>3, <1>1, <1>3, <1>5 DEF MemoryInv
<1>6. CASE hd = None
  <2>1. BufferAt(r, 1)' = NULL /\ BufferAt(r, 2)' = NULL /\ HeadOf(r)' = None
    BY <1>3, <1>6 DEF BufferAt, HeadOf
  <2>2. pool' = pool \cup ({BufferAt(r, 1), BufferAt(r, 2)} \ {NULL})
    BY <1>3, <1>6 DEF WithBuffersOf, BufferAt
  <2>3. pool' \subseteq Buffers
    BY <2>2, <1>1, <1>2, Fields
  <2>4. \A s \in Regs : IF HeadOf(s)' = None
         THEN BufferAt(s, 1)' = NULL /\ BufferAt(s, 2)' = NULL
         ELSE /\ BufferAt(s, 1)' \in Buffers
              /\ IF Registry'[s].DoubleBuffered
                 THEN BufferAt(s, 2)' \in Buffers /\ BufferAt(s, 2)' # BufferAt(s, 1)'
                 ELSE BufferAt(s, 2)' = NULL
    <3> TAKE s \in Regs
    <3>1. CASE s = r
      BY <3>1, <2>1
    <3>2. CASE s # r
      BY <3>2, <1>1, <1>4 DEF MemoryInv
    <3> QED
      BY <3>1, <3>2
  <2>5. ASSUME NEW s \in Regs, NEW i \in {1, 2} PROVE BufferAt(s, i)' \notin pool'
    <3>1. CASE s = r
      BY <3>1, <2>1, <2>3, <1>1
    <3>2. CASE s # r
      <4>1. BufferAt(s, i)' = BufferAt(s, i) /\ BufferAt(s, i) \notin pool
        BY <3>2, <1>1, <1>4 DEF MemoryInv
      <4>2. \A j \in {1, 2} : BufferAt(r, j) # NULL => BufferAt(r, j) # BufferAt(s, i)
        BY <3>2, <1>1, <1>2 DEF MemoryInv
      <4> QED
        BY <4>1, <4>2, <2>2
    <3> QED
      BY <3>1, <3>2
  <2>6. ASSUME NEW s \in Regs, NEW u \in Regs, NEW i \in {1, 2}, NEW j \in {1, 2},
               s # u, BufferAt(s, i)' # NULL
        PROVE  BufferAt(s, i)' # BufferAt(u, j)'
    <3>1. s # r
      BY <2>1, <2>6
    <3>2. CASE u = r
      BY <3>2, <2>1, <2>6
    <3>3. CASE u # r
      BY <3>1, <3>3, <2>6, <1>1, <1>4 DEF MemoryInv
    <3> QED
      BY <3>2, <3>3
  <2>7. ASSUME NEW b \in Buffers
        PROVE  b \in pool' \cup lost' \/ \E s \in Regs, i \in {1, 2} : BufferAt(s, i)' = b
    <3>1. CASE b \in pool \cup lost
      BY <3>1, <2>2
    <3>2. CASE b \notin pool \cup lost
      <4>1. PICK s \in Regs, i \in {1, 2} : BufferAt(s, i) = b
        BY <3>2, <1>1 DEF MemoryInv
      <4>2. CASE s = r
        BY <4>1, <4>2, <2>2, <1>1
      <4>3. CASE s # r
        BY <4>1, <4>3, <1>4
      <4> QED
        BY <4>2, <4>3
    <3> QED
      BY <3>1, <3>2
  <2>8. MemoryInv'
    BY <2>4, <2>5, <2>6, <2>7 DEF MemoryInv
  <2> QED
    BY <2>3, <2>8
<1> QED
  BY <1>5, <1>6

(* A load buffer comes back with the last user of its table.                *)
LEMMA RemoveLoads ==
  ASSUME RegistryInv, NEW r, NEW h, NEW p, NEW n, NEW hd,
         Listed(r, h, p, n, hd), RemoveAccessLink(h)
  PROVE  LoadInv' /\ Taken' \in [Loads -> BOOLEAN]
<1>1. TypeOK /\ LoadInv /\ Taken \in [Loads -> BOOLEAN]
  BY DEF RegistryInv, TypeOK
<1>2. r \in Regs /\ HeadOf(r) # None /\ LoadOf(r) \in Loads \cup {None}
  BY <1>1, Fields DEF Listed
<1>3. /\ Registry'[r].HeadOfAccessList = hd
      /\ Registry'[r].DoubleBuffered = Registry[r].DoubleBuffered
      /\ \A s \in Regs \ {r} : Registry'[s] = Registry[s]
      /\ hd # None => /\ Registry'[r].LoadInProgress = Registry[r].LoadInProgress
                      /\ Taken' = Taken
      /\ hd = None => /\ Registry'[r].LoadInProgress = None
                      /\ Taken' = LoadReturned(r)
  BY RemoveFacts DEF LostUser
<1>4. \A s \in Regs \ {r} : /\ HeadOf(s)' = HeadOf(s) /\ LoadOf(s)' = LoadOf(s)
                            /\ Registry'[s].DoubleBuffered = Registry[s].DoubleBuffered
  BY <1>3 DEF HeadOf, LoadOf
<1>5. CASE hd # None
  <2>1. \A s \in Regs : /\ LoadOf(s)' = LoadOf(s) /\ (HeadOf(s)' = None <=> HeadOf(s) = None)
                        /\ Registry'[s].DoubleBuffered = Registry[s].DoubleBuffered
    BY <1>2, <1>3, <1>4, <1>5 DEF HeadOf, LoadOf
  <2> QED
    BY <2>1, <1>1, <1>3, <1>5 DEF LoadInv
<1>6. CASE hd = None
  <2>1. LoadOf(r)' = None
    BY <1>3, <1>6 DEF LoadOf
  <2>2. /\ Taken' \in [Loads -> BOOLEAN]
        /\ \A i \in Loads : Taken'[i] = (Taken[i] /\ i # LoadOf(r))
    <3>1. CASE LoadOf(r) = None
      <4>1. Taken' = Taken
        BY <3>1, <1>3, <1>6 DEF LoadReturned, LoadOf
      <4> QED
        BY <3>1, <4>1, <1>1, ConstantsOK
    <3>2. CASE LoadOf(r) # None
      <4>1. ~Registry[r].DoubleBuffered
        BY <3>2, <1>1, <1>2 DEF LoadInv
      <4>2. Taken' = [Taken EXCEPT ![LoadOf(r)] = FALSE]
        BY <3>2, <4>1, <1>3, <1>6 DEF LoadReturned, LoadOf
      <4> QED
        BY <3>2, <4>2, <1>1, <1>2
    <3> QED
      BY <3>1, <3>2
  <2>3. ASSUME NEW s \in Regs, LoadOf(s)' # None
        PROVE  ~Registry'[s].DoubleBuffered /\ HeadOf(s)' # None /\ Taken'[LoadOf(s)']
    <3>1. s # r
      BY <2>1, <2>3
    <3>2. LoadOf(s)' = LoadOf(s) /\ LoadOf(s) # None /\ LoadOf(s) \in Loads
      BY <3>1, <2>3, <1>1, <1>4, Fields
    <3>3. LoadOf(s) # LoadOf(r)
      BY <3>1, <3>2, <1>1, <1>2 DEF LoadInv
    <3>4. ~Registry[s].DoubleBuffered /\ HeadOf(s) # None /\ Taken[LoadOf(s)]
      BY <3>2, <1>1 DEF LoadInv
    <3> QED
      BY <3>1, <3>2, <3>3, <3>4, <2>2, <1>4
  <2>4. ASSUME NEW s \in Regs, NEW u \in Regs, LoadOf(s)' # None, LoadOf(s)' = LoadOf(u)'
        PROVE  s = u
    <3>1. s # r /\ u # r
      BY <2>1, <2>4
    <3> QED
      BY <3>1, <2>4, <1>1, <1>4 DEF LoadInv
  <2>5. ASSUME NEW i \in Loads, Taken'[i] PROVE \E s \in Regs : LoadOf(s)' = i
    <3>1. Taken[i] /\ i # LoadOf(r)
      BY <2>2, <2>5
    <3>2. PICK s \in Regs : LoadOf(s) = i
      BY <3>1, <1>1 DEF LoadInv
    <3> QED
      BY <3>1, <3>2, <1>4
  <2>6. LoadInv'
    BY <2>3, <2>4, <2>5 DEF LoadInv
  <2> QED
    BY <2>2, <2>6
<1> QED
  BY <1>5, <1>6

(* A user that does not own its table leaves it to its owner: the dumps of  *)
(* the table go on.                                                         *)
LEMMA RemoveOwners ==
  ASSUME RegistryInv, NEW a, NEW r, NEW h, NEW p, NEW n, NEW hd,
         Listed(r, h, p, n, hd), RemoveAccessLink(h), Removing(a, h),
         Dumps' = Dumps, \A b : Leaving(b)' <=> Leaving(b)
  PROVE  OwnerInv' /\ DumpInv'
<1>1. TypeOK /\ OwnerInv /\ DumpInv /\ LinkInv
  BY DEF RegistryInv
<1>2. h \in Handles /\ Desc[h].AppId = a /\ Owner(r) # a /\ r \in Regs
  BY DEF Removing, ValidAccess, Listed
<1>3. /\ LostUser(r, h, p, n, hd)
      /\ hd # None => Registry'[r].LoadInProgress = Registry[r].LoadInProgress
  BY RemoveFacts
<1>4. \A s \in Regs : /\ Registry'[s].OwnerAppId = Registry[s].OwnerAppId
                      /\ Registry'[s].Name = Registry[s].Name
                      /\ Registry'[s].DoubleBuffered = Registry[s].DoubleBuffered
                      /\ Registry'[s].DumpControlIndex = Registry[s].DumpControlIndex
  BY <1>3 DEF LostUser
<1>5. ASSUME NEW s \in Regs, Owner(s) # NULL
      PROVE  \E k \in Handles \ {h} : ValidAccess(Owner(s), k) /\ Desc[k].RegIndex = s
  <2>1. PICK k \in Handles : ValidAccess(Owner(s), k) /\ Desc[k].RegIndex = s
    BY <1>1, <1>5 DEF OwnerInv
  <2>2. k # h
    BY <2>1, <1>2 DEF ValidAccess, Listed
  <2> QED
    BY <2>1, <2>2
<1>6. OwnerInv'
  <2> SUFFICES ASSUME NEW s \in Regs, Registry[s].OwnerAppId # NULL
               PROVE  \E k \in Handles : /\ Desc'[k].UsedFlag
                                         /\ Desc'[k].AppId = Registry[s].OwnerAppId
                                         /\ Desc'[k].RegIndex = s
    BY <1>1, <1>4 DEF OwnerInv, Owner, ValidAccess
  <2>1. PICK k \in Handles \ {h} : ValidAccess(Owner(s), k) /\ Desc[k].RegIndex = s
    BY <1>5 DEF Owner
  <2> QED
    BY <2>1, <1>3 DEF LostUser, ValidAccess, Owner
<1>7. \A s \in Regs : Owner(s) # NULL =>
        Registry'[s].LoadInProgress = Registry[s].LoadInProgress
  <2> SUFFICES ASSUME NEW s \in Regs, Owner(s) # NULL
               PROVE  Registry'[s].LoadInProgress = Registry[s].LoadInProgress
    OBVIOUS
  <2>1. CASE s = r
    <3>1. PICK k \in Handles \ {h} : ValidAccess(Owner(s), k) /\ Desc[k].RegIndex = s
      BY <1>5
    <3>2. hd # None
      BY <2>1, <3>1 DEF Listed, ValidAccess, Used
    <3> QED
      BY <2>1, <3>2, <1>3
  <2>2. CASE s # r
    BY <2>2, <1>3 DEF LostUser
  <2> QED
    BY <2>1, <2>2
<1>8. \A i \in Loads : Dumps[i].State # "free" =>
        LET s == Dumps[i].RegRecPtr IN
        /\ s \in Regs /\ Registry'[s].OwnerAppId # NULL /\ Registry'[s].Name \in DumpOnly
        /\ Registry'[s].LoadInProgress # None /\ ~Leaving(Registry'[s].OwnerAppId)
        /\ Dumps[i].State = "pending" => Registry'[s].DumpControlIndex = i
  BY <1>1, <1>4, <1>7 DEF DumpInv, Owner, LoadOf
<1>9. \A s \in Regs : LET i == Registry'[s].DumpControlIndex IN
        Registry'[s].OwnerAppId # NULL /\ i # None /\ ~Leaving(Registry'[s].OwnerAppId) =>
          Dumps[i].State = "pending" /\ Dumps[i].RegRecPtr = s
  BY <1>1, <1>4 DEF DumpInv, Owner
<1>10. \A b : (pc'[ES].at \in {"mark", "remove"} /\ pc'[ES].arg = b) <=> Leaving(b)
  BY DEF Leaving
<1>11. DumpInv'
  <2>1. \A i, j \in Loads :
          /\ Dumps[i].State # "free" /\ Dumps[j].State # "free"
          /\ Dumps[i].RegRecPtr = Dumps[j].RegRecPtr
          => i = j
    BY <1>1 DEF DumpInv
  <2>2. \A i \in Loads : Dumps'[i].State # "free" =>
          LET s == Dumps'[i].RegRecPtr IN
          /\ s \in Regs /\ Registry'[s].OwnerAppId # NULL /\ Registry'[s].Name \in DumpOnly
          /\ Registry'[s].LoadInProgress # None
          /\ ~(/\ pc'[ES].at \in {"mark", "remove"}
               /\ pc'[ES].arg = Registry'[s].OwnerAppId)
          /\ Dumps'[i].State = "pending" => Registry'[s].DumpControlIndex = i
    BY <1>8, <1>10
  <2>3. \A s \in Regs : LET i == Registry'[s].DumpControlIndex IN
          /\ Registry'[s].OwnerAppId # NULL /\ i # None
          /\ ~(/\ pc'[ES].at \in {"mark", "remove"}
               /\ pc'[ES].arg = Registry'[s].OwnerAppId)
          => Dumps'[i].State = "pending" /\ Dumps'[i].RegRecPtr = s
    BY <1>9, <1>10
  <2>4. \A i, j \in Loads :
          /\ Dumps'[i].State # "free" /\ Dumps'[j].State # "free"
          /\ Dumps'[i].RegRecPtr = Dumps'[j].RegRecPtr
          => i = j
    BY <2>1
  <2> QED
    BY <2>2, <2>3, <2>4 DEF DumpInv, Owner, LoadOf, Leaving
<1> QED
  BY <1>6, <1>11

(* The other descriptors that are being removed.                            *)
LEMMA RemovingKept ==
  ASSUME RegistryInv, NEW r, NEW h, NEW p, NEW n, NEW hd,
         Listed(r, h, p, n, hd), LostUser(r, h, p, n, hd),
         NEW b, NEW k, Removing(b, k), b # Desc[h].AppId
  PROVE  Removing(b, k)'
<1>1. k \in Handles /\ Used(k) /\ Desc[k].AppId = b /\ Owner(Desc[k].RegIndex) # b
  BY DEF Removing, ValidAccess, Used
<1>2. k # h
  BY <1>1
<1>3. Desc[k].RegIndex \in Regs
  BY <1>1, Fields DEF RegistryInv
<1>4. Registry'[Desc[k].RegIndex].OwnerAppId = Owner(Desc[k].RegIndex)
  BY <1>3 DEF LostUser, Owner
<1> QED
  BY <1>1, <1>2, <1>4 DEF LostUser, Removing, ValidAccess, Owner, Used

(* CFE_TBL_Unregister removes the descriptor.                               *)
LEMMA UnregisterRemoveOK ==
  ASSUME RegistryInv, Disciplined, NEW a \in Apps, UnregisterRemove(a)
  PROVE  RegistryInv'
<1>1. TypeOK /\ ControlInv /\ UserInv
  BY DEF RegistryInv
<1>2. PICK h : h = pc[a].arg
  OBVIOUS
<1>3. a \in Unregistering /\ Removing(a, h) /\ h \in Handles /\ Used(h) /\ Desc[h].AppId = a
  BY <1>1, <1>2 DEF ControlInv, AppsAt, UnregisterRemove, Removing, ValidAccess, Used
<1>4. PICK r, p, n, hd : Listed(r, h, p, n, hd)
  BY <1>3, ListedFacts
<1>5. /\ RemoveAccessLink(h) /\ pc' = [pc EXCEPT ![a] = Idle]
      /\ UNCHANGED <<Dumps, lost, app>> /\ pc[TBL].at = "idle"
  BY <1>2 DEF UnregisterRemove, Done, MayDetach, Disciplined
<1>6. /\ pc'[a] = Idle
      /\ \A y \in Apps \cup {TBL, ES} : y # a => pc'[y] = pc[y]
      /\ pc' = [y \in Apps \cup {TBL, ES} |-> pc'[y]]
  BY <1>1, <1>5, GoFacts
<1>7. pc'[ES] = pc[ES] /\ pc'[TBL] = pc[TBL]
  BY <1>6, ConstantsOK
<1>8. LostUser(r, h, p, n, hd)
  BY <1>4, <1>5, RemoveFacts
<1>9. LinkInv' /\ RankInv'
  BY <1>4, <1>8, LostUserLinks, LostUserRanks
<1>10. MemoryInv' /\ pool' \subseteq Buffers /\ LoadInv' /\ Taken' \in [Loads -> BOOLEAN]
  BY <1>4, <1>5, RemoveMemory, RemoveLoads
<1>11. OwnerInv' /\ DumpInv'
  <2>1. \A b : Leaving(b)' <=> Leaving(b)
    BY <1>7 DEF Leaving
  <2> QED
    BY <2>1, <1>3, <1>4, <1>5, RemoveOwners
<1>12. AppsAt'
  <2>1. \A b \in Apps : pc'[b] = pc[b] \/ pc'[b].at = "idle"
    BY <1>6 DEF Idle
  <2>2. ASSUME NEW b \in Apps, pc'[b] = pc[b], pc[b].at = "remove", Removing(b, pc[b].arg)
        PROVE  Removing(b, pc[b].arg)'
    <3>1. b # a
      BY <2>2, <1>6 DEF Idle
    <3>2. PICK k : k = pc[b].arg /\ k = pc'[b].arg
      BY <2>2
    <3>3. Removing(b, k)'
      BY <3>1, <3>2, <2>2, <1>3, <1>4, <1>8, RemovingKept
    <3> QED
      BY <3>2, <3>3
  <2> QED
    BY <2>1, <2>2, <1>1, AppsStay DEF ControlInv
<1>13. DumperAt'
  BY <1>5, <1>7 DEF DumperAt
<1>14. CleanerAt'
  <2>1. CASE pc[ES].at = "idle"
    BY <2>1, <1>7 DEF CleanerAt
  <2>2. CASE pc[ES].at # "idle"
    <3>1. PICK b, k : b = pc[ES].arg /\ k = pc[ES].i
      OBVIOUS
    <3>2. /\ pc[ES].at \in {"dumps", "mark", "remove"}
          /\ \/ b \in Exiting /\ app[b] = "exiting"
             \/ b \in Killing /\ app[b] = "killed"
          /\ pc[ES].at # "dumps" =>
               /\ k \in 0 .. NumHandles
               /\ \A x \in Handles : x < k => ~ValidAccess(b, x) \/ Desc[x].Late
          /\ pc[ES].at = "remove" => Removing(b, k)
      BY <2>2, <3>1, <1>1 DEF ControlInv, CleanerAt
    <3>3. b # a
      BY <3>2, <1>3 DEF Disciplined, Leavers
    <3>4. pc[ES].at = "remove" => Removing(b, k)'
      BY <3>2, <3>3, <1>3, <1>4, <1>8, RemovingKept
    <3>5. \A x \in Handles : Desc'[x].UsedFlag /\ Desc'[x].AppId = b =>
            ValidAccess(b, x) /\ Desc'[x].Late = Desc[x].Late
      BY <1>8 DEF LostUser, ValidAccess
    <3> QED
      BY <3>1, <3>2, <3>4, <3>5, <1>5, <1>7 DEF CleanerAt, ValidAccess
  <2> QED
    BY <2>1, <2>2
<1>15. ControlInv'
  BY <1>6, <1>12, <1>13, <1>14 DEF ControlInv
<1>16. UserInv'
  <2>1. ASSUME NEW k \in Handles
        PROVE  /\ Desc'[k].AppId = Desc[k].AppId
               /\ Desc'[k].UsedFlag => Used(k) /\ Desc'[k].Late = Desc[k].Late
               /\ ~Desc'[k].UsedFlag => k = h \/ ~Used(k)
    BY <1>8 DEF LostUser, Used
  <2>2. a \notin Leavers
    BY <1>3 DEF Disciplined
  <2>3. \A k \in Handles : ~Desc'[k].UsedFlag /\ Desc'[k].AppId \in Leavers => ~Used(k)
    BY <2>1, <2>2, <1>3
  <2>4. \A b : (pc'[ES].at \in {"mark", "remove"} /\ pc'[ES].arg = b) <=> Leaving(b)
    BY <1>7 DEF Leaving
  <2>5. app' = app
    BY <1>5
  <2> QED
    BY <2>1, <2>3, <2>4, <2>5, <1>1, <1>7 DEF UserInv, Used, Leaving
<1>17. TypeOK'
  <2>1. \A x \in Apps \cup {TBL, ES} : pc'[x].at \in
          {"idle", "remove", "dump", "file", "dumps", "mark", "fault"}
    BY <1>15, PlacesTyped
  <2> QED
    BY <2>1, <1>1, <1>5, <1>8, <1>10 DEF TypeOK, LostUser, RegRecs, DescRecs
<1> QED
  BY <1>9, <1>10, <1>11, <1>15, <1>16, <1>17 DEF RegistryInv

(* CFE_TBL_CleanUpApp removes the descriptor.                               *)
LEMMA CleanUpRemoveOK ==
  ASSUME RegistryInv, Disciplined, CleanUpRemove
  PROVE  RegistryInv'
<1>1. TypeOK /\ ControlInv /\ UserInv
  BY DEF RegistryInv
<1>2. PICK a, h : a = pc[ES].arg /\ h = pc[ES].i
  OBVIOUS
<1>3. /\ (a \in Exiting /\ app[a] = "exiting") \/ (a \in Killing /\ app[a] = "killed")
      /\ a \in Leavers /\ Removing(a, h) /\ h \in Handles /\ Used(h)
      /\ Desc[h].AppId = a /\ h \in 0 .. NumHandles
      /\ \A x \in Handles : x < h => ~ValidAccess(a, x) \/ Desc[x].Late
  BY <1>1, <1>2 DEF ControlInv, CleanerAt, CleanUpRemove, Removing, ValidAccess, Used,
     Leavers
<1>4. PICK r, p, n, hd : Listed(r, h, p, n, hd)
  BY <1>3, ListedFacts
<1>5. /\ RemoveAccessLink(h)
      /\ pc' = [pc EXCEPT ![ES] = [at |-> "mark", arg |-> a, i |-> h + 1]]
      /\ UNCHANGED <<Dumps, lost, app>> /\ pc[TBL].at = "idle" /\ pc[ES].at = "remove"
  BY <1>2 DEF CleanUpRemove, Go, MayDetach, Disciplined
<1>6. /\ pc'[ES] = [at |-> "mark", arg |-> a, i |-> h + 1]
      /\ \A y \in Apps \cup {TBL, ES} : y # ES => pc'[y] = pc[y]
      /\ pc' = [y \in Apps \cup {TBL, ES} |-> pc'[y]]
  BY <1>1, <1>5, GoFacts
<1>7. pc'[TBL] = pc[TBL] /\ \A b \in Apps : pc'[b] = pc[b]
  BY <1>6, ConstantsOK
<1>8. LostUser(r, h, p, n, hd)
  BY <1>4, <1>5, RemoveFacts
<1>9. LinkInv' /\ RankInv'
  BY <1>4, <1>8, LostUserLinks, LostUserRanks
<1>10. MemoryInv' /\ pool' \subseteq Buffers /\ LoadInv' /\ Taken' \in [Loads -> BOOLEAN]
  BY <1>4, <1>5, RemoveMemory, RemoveLoads
<1>11. \A b : Leaving(b)' <=> Leaving(b)
  BY <1>2, <1>5, <1>6 DEF Leaving
<1>12. OwnerInv' /\ DumpInv'
  BY <1>3, <1>4, <1>5, <1>11, RemoveOwners
<1>13. AppsAt'
  <2>1. ASSUME NEW b \in Apps, pc[b].at = "remove", Removing(b, pc[b].arg)
        PROVE  Removing(b, pc[b].arg)'
    <3>1. b \in Unregistering
      BY <2>1, <1>1 DEF ControlInv, AppsAt
    <3>2. b # a
      BY <3>1, <1>3 DEF Disciplined
    <3>3. PICK k : k = pc[b].arg /\ k = pc'[b].arg
      BY <1>7
    <3>4. Removing(b, k)'
      BY <3>2, <3>3, <2>1, <1>3, <1>4, <1>8, RemovingKept
    <3> QED
      BY <3>3, <3>4
  <2> QED
    BY <2>1, <1>1, <1>7, AppsStay DEF ControlInv
<1>14. DumperAt'
  BY <1>5, <1>7 DEF DumperAt
<1>15. h \in Nat /\ h + 1 \in 0 .. NumHandles
  BY <1>3, ConstantsOK
<1>16. CleanerAt'
  <2>1. ASSUME NEW x \in Handles, x < h + 1, Desc'[x].UsedFlag, Desc'[x].AppId = a
        PROVE  Desc'[x].Late
    <3>1. x # h /\ ValidAccess(a, x) /\ Desc'[x].Late = Desc[x].Late
      BY <2>1, <1>8 DEF LostUser, ValidAccess
    <3>2. x < h
      BY <3>1, <2>1, <1>15, ConstantsOK
    <3> QED
      BY <3>1, <3>2, <1>3
  <2> QED
    BY <2>1, <1>3, <1>5, <1>6, <1>15 DEF CleanerAt, ValidAccess
<1>17. ControlInv'
  BY <1>6, <1>13, <1>14, <1>16 DEF ControlInv
<1>18. UserInv'
  <2>1. ASSUME NEW k \in Handles
        PROVE  /\ Desc'[k].AppId = Desc[k].AppId
               /\ Desc'[k].UsedFlag => Used(k) /\ Desc'[k].Late = Desc[k].Late
               /\ ~Desc'[k].UsedFlag => k = h \/ ~Used(k)
    BY <1>8 DEF LostUser, Used
  <2>2. app' = app
    BY <1>5
  <2>3. \A k \in Handles : Desc'[k].UsedFlag =>
          /\ Desc'[k].AppId \in Apps
          /\ app'[Desc'[k].AppId] # "gone" \/ Desc'[k].Late
          /\ Desc'[k].Late => app'[Desc'[k].AppId] \in {"killed", "gone"}
    BY <2>1, <2>2, <1>1 DEF UserInv, Used
  <2>5. \A b \in Apps : app'[b] = "killed" => b \in Killing
    BY <2>2, <1>1 DEF UserInv
  <2>4. ASSUME NEW k \in Handles, ~Desc'[k].UsedFlag, Desc'[k].AppId \in Leavers
        PROVE  \/ app'[Desc'[k].AppId] = "gone"
               \/ /\ pc'[ES].at \in {"mark", "remove"} /\ pc'[ES].arg = Desc'[k].AppId
                  /\ k < pc'[ES].i
    <3>1. CASE k = h
      BY <3>1, <2>1, <1>3, <1>6, <1>15
    <3>2. CASE k # h
      <4>1. \/ app[Desc[k].AppId] = "gone"
            \/ Leaving(Desc[k].AppId) /\ k < h
        BY <3>2, <2>1, <2>4, <1>1, <1>2 DEF UserInv, Used
      <4>2. k < h => k < h + 1
        BY <1>15, ConstantsOK
      <4> QED
        BY <4>1, <4>2, <2>1, <2>2, <1>2, <1>6 DEF Leaving
    <3> QED
      BY <3>1, <3>2
  <2> QED
    BY <2>3, <2>4, <2>5 DEF UserInv, Used, Leaving
<1>19. TypeOK'
  <2>1. \A x \in Apps \cup {TBL, ES} : pc'[x].at \in
          {"idle", "remove", "dump", "file", "dumps", "mark", "fault"}
    BY <1>17, PlacesTyped
  <2> QED
    BY <2>1, <1>1, <1>5, <1>8, <1>10 DEF TypeOK, LostUser, RegRecs, DescRecs
<1> QED
  BY <1>9, <1>10, <1>12, <1>17, <1>18, <1>19 DEF RegistryInv

-----------------------------------------------------------------------------
(* The invariance *)

LEMMA InitHolds ==
  ASSUME Init
  PROVE  RegistryInv
<1>1. /\ Registry = [r \in Regs |-> NoRec]
      /\ Desc = [h \in Handles |-> [UsedFlag |-> FALSE, AppId |-> NULL, Late |-> FALSE,
                                    RegIndex |-> 0, PrevLink |-> None, NextLink |-> None]]
      /\ Taken = [i \in Loads |-> FALSE]
      /\ Dumps = [i \in Loads |-> [State |-> "free", RegRecPtr |-> None]]
      /\ pool = Buffers /\ lost = {}
      /\ app = [a \in Apps |-> "new"]
      /\ pc = [x \in Apps \cup {TBL, ES} |-> Idle]
  BY DEF Init
<1>2. \A r \in Regs : /\ Owner(r) = NULL /\ HeadOf(r) = None /\ LoadOf(r) = None
                      /\ BufferAt(r, 1) = NULL /\ BufferAt(r, 2) = NULL
                      /\ Registry[r] \in RegRecs
  BY <1>1 DEF NoRec, Owner, HeadOf, LoadOf, BufferAt, RegRecs
<1>3. \A h \in Handles : ~Used(h) /\ Desc[h].AppId = NULL /\ Desc[h] \in DescRecs
  <2>1. 0 \in Regs
    BY RegistryAssumption DEF Regs
  <2> QED
    BY <2>1, <1>1 DEF Used, DescRecs
<1>4. \A x \in Apps \cup {TBL, ES} : pc[x].at = "idle"
  BY <1>1 DEF Idle
<1>5. TypeOK
  <2>1. Registry \in [Regs -> RegRecs] /\ Desc \in [Handles -> DescRecs]
    BY <1>1, <1>2, <1>3
  <2>2. Taken \in [Loads -> BOOLEAN] /\ Dumps \in [Loads -> DumpRecs]
    BY <1>1 DEF DumpRecs
  <2>3. /\ pool \subseteq Buffers /\ lost \subseteq Buffers
        /\ app \in [Apps -> {"new", "up", "exiting", "killed", "gone"}]
    BY <1>1
  <2> QED
    BY <2>1, <2>2, <2>3, <1>4, Types
<1>6. LinkInv
  BY <1>2, <1>3 DEF LinkInv
<1>7. RankInv
  <2>1. [h \in Handles |-> 0] \in [Handles -> Nat]
    OBVIOUS
  <2>2. Ranks([h \in Handles |-> 0])
    BY <1>3 DEF Ranks
  <2> QED
    BY <2>1, <2>2 DEF RankInv
<1>8. OwnerInv
  BY <1>2 DEF OwnerInv
<1>9. MemoryInv
  BY <1>1, <1>2, ConstantsOK DEF MemoryInv
<1>10. LoadInv
  BY <1>1, <1>2 DEF LoadInv
<1>11. DumpInv
  <2>1. \A i \in Loads : Dumps[i].State = "free"
    BY <1>1
  <2> QED
    BY <2>1, <1>2 DEF DumpInv
<1>12. ControlInv
  BY <1>1, <1>4 DEF ControlInv, AppsAt, DumperAt, CleanerAt
<1>13. UserInv
  BY <1>1, <1>3, ConstantsOK, RegistryAssumption DEF UserInv, Leavers
<1> QED
  BY <1>5, <1>6, <1>7, <1>8, <1>9, <1>10, <1>11, <1>12, <1>13 DEF RegistryInv

LEMMA StutterHolds ==
  ASSUME RegistryInv, UNCHANGED vars
  PROVE  RegistryInv'
<1>1. /\ TablesSame /\ app' = app /\ pc' = pc
  BY DEF vars, TablesSame
<1>2. LinkInv' /\ RankInv' /\ OwnerInv' /\ MemoryInv' /\ LoadInv'
  BY <1>1, TablesSameOK
<1>3. TypeOK'
  BY <1>1 DEF RegistryInv, TypeOK, TablesSame
<1>4. DumpInv' /\ UserInv'
  BY <1>1 DEF RegistryInv, DumpInv, UserInv, TablesSame, Owner, LoadOf, Leaving, Used
<1>5. AppsAt' /\ CleanerAt'
  BY <1>1 DEF RegistryInv, ControlInv, AppsAt, CleanerAt, TablesSame, Removing,
     ValidAccess, Owner
<1>6. DumperAt'
  BY <1>1 DEF RegistryInv, ControlInv, DumperAt, TablesSame, Owner
<1>7. ControlInv'
  BY <1>1, <1>5, <1>6, StayFacts DEF RegistryInv, ControlInv
<1> QED
  BY <1>2, <1>3, <1>4, <1>7 DEF RegistryInv

LEMMA NextHolds ==
  ASSUME Disciplined, RegistryInv, [Next]_vars
  PROVE  RegistryInv'
<1>1. ASSUME NEW a \in Apps, NEW t \in Tables, Register(a, t) \/ Share(a, t)
      PROVE  RegistryInv'
  BY <1>1, RegisterOK, ShareOK
<1>2. ASSUME NEW a \in Apps, NEW h \in Handles, Unregister(a, h)
      PROVE  RegistryInv'
  BY <1>2, UnregisterOK
<1>3. ASSUME NEW a \in Apps, UnregisterRemove(a) \/ StartApp(a) \/ Manage(a)
      PROVE  RegistryInv'
  BY <1>3, UnregisterRemoveOK, StartAppOK, DumpToBufferOK DEF Manage
<1>8. ASSUME NEW a \in Apps, ExitApp(a) \/ KillApp(a)
      PROVE  RegistryInv'
  BY <1>8, BeginCleanUpOK DEF ExitApp, KillApp
<1>4. ASSUME NEW t \in Tables, DumpCmd(t)
      PROVE  RegistryInv'
  BY <1>4, DumpCmdOK
<1>5. CASE DumpTask
  BY <1>5, DumpCmdStartOK, HousekeepingCmdOK, HousekeepingCmdDoneOK DEF DumpTask
<1>6. CASE CleanUp
  BY <1>6, CleanUpDumpsOK, CleanUpHandleOK, CleanUpRemoveOK, CleanUpDoneOK DEF CleanUp
<1>7. CASE UNCHANGED vars
  BY <1>7, StutterHolds
<1> QED
  BY <1>1, <1>2, <1>3, <1>4, <1>5, <1>6, <1>7, <1>8 DEF Next

(* The invariant holds in every state that services used with discipline    *)
(* can reach, applications that are removed by force while their tasks run  *)
(* included (CFE_TBL_Register, CFE_TBL_Share, CFE_TBL_Unregister,          *)
(* CFE_TBL_RemoveAccessLink, the dump commands and CFE_TBL_CleanUpApp).     *)
THEOREM RegistryInvariance ==
  ASSUME Disciplined
  PROVE  Spec => []RegistryInv
<1>1. Init => RegistryInv
  BY InitHolds
<1>2. RegistryInv /\ [Next]_vars => RegistryInv'
  BY NextHolds
<1> QED
  BY <1>1, <1>2, PTL DEF Spec

-----------------------------------------------------------------------------
(* The properties *)

LEMMA ListsFollow == RegistryInv => AccessListsExact
<1> SUFFICES ASSUME RegistryInv, NEW r \in Regs
             PROVE  LET head == Registry[r].HeadOfAccessList IN
                    /\ IF head = None THEN Users(r) = {}
                                      ELSE head \in Users(r) /\ Desc[head].PrevLink = None
                    /\ \A h \in Users(r) :
                         /\ Desc[h].PrevLink = None <=> h = head
                         /\ Desc[h].NextLink # None =>
                              /\ Desc[h].NextLink \in Users(r)
                              /\ Desc[Desc[h].NextLink].PrevLink = h
                         /\ h # head => /\ Desc[h].PrevLink \in Users(r)
                                        /\ Desc[Desc[h].PrevLink].NextLink = h
  BY DEF AccessListsExact
<1>1. TypeOK /\ LinkInv
  BY DEF RegistryInv
<1>2. HeadOf(r) \in Handles \cup {None}
  BY <1>1, Fields
<1>3. \A h \in Handles : /\ Desc[h].PrevLink \in Handles \cup {None}
                         /\ Desc[h].NextLink \in Handles \cup {None}
  BY <1>1, Fields
<1>4. HeadOf(r) = None => Users(r) = {}
  BY <1>1 DEF Users, LinkInv, Used
<1>5. HeadOf(r) # None => HeadOf(r) \in Users(r) /\ Desc[HeadOf(r)].PrevLink = None
  BY <1>1, <1>2 DEF Users, LinkInv, Used
<1>6. ASSUME NEW h \in Users(r)
      PROVE  /\ Desc[h].PrevLink = None <=> h = HeadOf(r)
             /\ Desc[h].NextLink # None =>
                  Desc[h].NextLink \in Users(r) /\ Desc[Desc[h].NextLink].PrevLink = h
             /\ h # HeadOf(r) =>
                  Desc[h].PrevLink \in Users(r) /\ Desc[Desc[h].PrevLink].NextLink = h
  BY <1>1, <1>3 DEF Users, LinkInv, Used
<1> QED
  BY <1>4, <1>5, <1>6 DEF HeadOf

LEMMA MemoryFollows == RegistryInv => UsersHaveMemory
<1> SUFFICES ASSUME RegistryInv, NEW r \in Regs, Users(r) # {}
             PROVE  LET own == {Registry[r].Buffers[1], Registry[r].Buffers[2]} \ {NULL} IN
                    /\ Cardinality(own) = IF Registry[r].DoubleBuffered THEN 2 ELSE 1
                    /\ own \cap pool = {}
                    /\ \A s \in Regs \ {r} :
                         own \cap {Registry[s].Buffers[1], Registry[s].Buffers[2]} = {}
  BY DEF UsersHaveMemory
<1>1. MemoryInv /\ LinkInv /\ NULL \notin Buffers
  BY ConstantsOK DEF RegistryInv
<1>2. HeadOf(r) # None
  BY <1>1 DEF Users, LinkInv, Used
<1>3. PICK own : own = {BufferAt(r, 1), BufferAt(r, 2)} \ {NULL}
  OBVIOUS
<1>4. Cardinality(own) = IF Registry[r].DoubleBuffered THEN 2 ELSE 1
  <2>1. CASE Registry[r].DoubleBuffered
    <3>1. own = {BufferAt(r, 1), BufferAt(r, 2)} /\ BufferAt(r, 1) # BufferAt(r, 2)
      BY <2>1, <1>1, <1>2, <1>3 DEF MemoryInv
    <3>2. /\ IsFiniteSet({BufferAt(r, 1)}) /\ Cardinality({BufferAt(r, 1)}) = 1
      BY FS_Singleton
    <3>3. Cardinality({BufferAt(r, 1)} \cup {BufferAt(r, 2)}) = 2
      BY <3>1, <3>2, FS_AddElement
    <3>4. own = {BufferAt(r, 1)} \cup {BufferAt(r, 2)}
      BY <3>1
    <3> QED
      BY <2>1, <3>3, <3>4
  <2>2. CASE ~Registry[r].DoubleBuffered
    <3>1. own = {BufferAt(r, 1)}
      BY <2>2, <1>1, <1>2, <1>3 DEF MemoryInv
    <3> QED
      BY <2>2, <3>1, FS_Singleton
  <2> QED
    BY <2>1, <2>2
<1>5. own \cap pool = {}
  BY <1>1, <1>3 DEF MemoryInv
<1>6. \A s \in Regs \ {r} : own \cap {BufferAt(s, 1), BufferAt(s, 2)} = {}
  BY <1>1, <1>3 DEF MemoryInv
<1> QED
  BY <1>3, <1>4, <1>5, <1>6 DEF BufferAt

LEMMA AccountsFollow == RegistryInv => MemoryAccounted
<1> SUFFICES ASSUME RegistryInv PROVE MemoryAccounted
  OBVIOUS
<1>1. TypeOK /\ MemoryInv /\ LoadInv /\ DumpInv /\ OwnerInv /\ UserInv
  BY DEF RegistryInv
<1>2. BuffersAccounted
  <2>1. PICK held : held = UNION {{Registry[r].Buffers[1], Registry[r].Buffers[2]} \ {NULL}
                                    : r \in Regs}
    OBVIOUS
  <2>2. ASSUME NEW b \in held PROVE b \in Buffers
    <3>1. PICK r \in Regs : b \in {BufferAt(r, 1), BufferAt(r, 2)} \ {NULL}
      BY <2>1 DEF BufferAt
    <3>2. BufferAt(r, 1) \in Buffers \cup {NULL} /\ BufferAt(r, 2) \in Buffers \cup {NULL}
      BY <1>1, Fields
    <3> QED
      BY <3>1, <3>2
  <2>3. ASSUME NEW b \in Buffers PROVE b \in pool \cup lost \cup held
    <3>1. CASE b \in pool \cup lost
      BY <3>1
    <3>2. CASE b \notin pool \cup lost
      <4>1. PICK r \in Regs, i \in {1, 2} : BufferAt(r, i) = b
        BY <3>2, <1>1 DEF MemoryInv
      <4>2. b # NULL
        BY ConstantsOK
      <4>3. b \in {Registry[r].Buffers[1], Registry[r].Buffers[2]} \ {NULL}
        BY <4>1, <4>2 DEF BufferAt
      <4> QED
        BY <4>3, <2>1
    <3> QED
      BY <3>1, <3>2
  <2>4. pool \cup lost \subseteq Buffers
    BY <1>1 DEF TypeOK
  <2>5. Buffers = pool \cup lost \cup held
    BY <2>2, <2>3, <2>4
  <2> QED
    BY <2>1, <2>5 DEF BuffersAccounted
<1>3. LoadBuffersAccounted
  <2>1. ASSUME NEW i \in Loads
        PROVE  Cardinality({r \in Regs : Registry[r].LoadInProgress = i}) =
                 IF Taken[i] THEN 1 ELSE 0
    <3>1. i # None
      BY ConstantsOK
    <3>2. CASE Taken[i]
      <4>1. PICK r \in Regs : LoadOf(r) = i
        BY <3>2, <1>1 DEF LoadInv
      <4>2. {s \in Regs : Registry[s].LoadInProgress = i} = {r}
        BY <3>1, <4>1, <1>1 DEF LoadInv, LoadOf
      <4> QED
        BY <3>2, <4>2, FS_Singleton
    <3>3. CASE ~Taken[i]
      <4>1. {s \in Regs : Registry[s].LoadInProgress = i} = {}
        BY <3>1, <3>3, <1>1 DEF LoadInv, LoadOf
      <4> QED
        BY <3>3, <4>1, FS_EmptySet
    <3> QED
      BY <3>2, <3>3
  <2>2. \A i \in Loads : Dumps[i].State = "pending" =>
          Registry[Dumps[i].RegRecPtr].DumpControlIndex = i
    BY <1>1 DEF DumpInv
  <2> QED
    BY <2>1, <2>2 DEF LoadBuffersAccounted
<1>4. DeadAppsHoldNothing
  <2> SUFFICES ASSUME NEW a \in Apps, app[a] = "gone"
               PROVE  LET late == {h \in Handles : ValidAccess(a, h) /\ Desc[h].Late} IN
                      /\ \A h \in Handles : ValidAccess(a, h) => h \in late
                      /\ \A r \in Regs : Registry[r].OwnerAppId = a =>
                           \E h \in late : Desc[h].RegIndex = r
    BY DEF DeadAppsHoldNothing
  <2>1. \A h \in Handles : ValidAccess(a, h) => Desc[h].Late
    BY <1>1 DEF UserInv, ValidAccess, Used
  <2>2. \A r \in Regs : Registry[r].OwnerAppId = a =>
          \E h \in Handles : ValidAccess(a, h) /\ Desc[h].RegIndex = r
    BY <1>1, ConstantsOK DEF OwnerInv, Owner
  <2> QED
    BY <2>1, <2>2
<1> QED
  BY <1>1, <1>2, <1>3, <1>4 DEF MemoryAccounted

(* The access list of every table is a doubly linked list of exactly its    *)
(* users, for any number of tables, handles and applications, as long as    *)
(* the services are used with discipline (CFE_TBL_Share,                    *)
(* CFE_TBL_RemoveAccessLink).                                               *)
THEOREM AccessListsStayExact ==
  ASSUME Disciplined
  PROVE  Spec => []AccessListsExact
<1>1. Spec => []RegistryInv
  BY RegistryInvariance
<1> QED
  BY <1>1, ListsFollow, PTL

(* As long as no application that unregisters tables exits or is removed,   *)
(* and the rest of the discipline holds: a table with a user has the        *)
(* buffers its options ask for, and nobody else has them; the memory goes   *)
(* back with the last user, never before (CFE_TBL_Unregister,               *)
(* CFE_TBL_RemoveAccessLink).  Without it CFE_TBL_CleanUpApp may remove a   *)
(* descriptor a second time and give back the memory of others.             *)
THEOREM UsersKeepMemory ==
  ASSUME Disciplined
  PROVE  Spec => []UsersHaveMemory
<1>1. Spec => []RegistryInv
  BY RegistryInvariance
<1> QED
  BY <1>1, MemoryFollows, PTL

(* As long as the services are used with discipline, no buffer, load buffer *)
(* or dump is lost by an exit, a removal or an unregistration, and an       *)
(* application that is gone holds nothing but what its task took behind the *)
(* clean-up, before it was deleted (CFE_TBL_CleanUpApp).                    *)
THEOREM MemoryStaysAccounted ==
  ASSUME Disciplined
  PROVE  Spec => []MemoryAccounted
<1>1. Spec => []RegistryInv
  BY RegistryInvariance
<1> QED
  BY <1>1, AccountsFollow, PTL
=============================================================================

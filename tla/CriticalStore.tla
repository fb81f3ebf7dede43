--------------------------- MODULE CriticalStore ---------------------------
(***************************************************************************)
(* What the Critical Data Store promises to an application: under each name *)
(* it keeps a block of a given size and the data last copied to it, and a   *)
(* processor reset changes neither.  While an operation on a name is under  *)
(* way its data may read as invalid (the CRC does not match), and a reset   *)
(* that interrupts the operation may leave it so; no operation on one name  *)
(* ever touches another.                                                    *)
(***************************************************************************)
CONSTANTS Names, Sizes, Data,
          Fresh,           \* what a block may hold before anything is copied
          None, Invalid, Idle

VARIABLES size,            \* name -> size registered, or None
          value,           \* name -> what a restore returns, or Invalid
          doing            \* name -> the operation under way on it, or Idle

storeVars == <<size, value, doing>>

Operations == [kind : {"copy"}, data : Data]
         \cup [kind : {"register"}, size : Sizes]
         \cup [kind : {"delete"}]

StoreInit ==
  /\ size = [n \in Names |-> None]
  /\ value = [n \in Names |-> Invalid]
  /\ doing = [n \in Names |-> Idle]

(* An operation begins; from then on the data may read as invalid, unless   *)
(* what is copied is what the block holds already.                          *)
Begin(n, op) ==
  /\ doing[n] = Idle /\ doing' = [doing EXCEPT ![n] = op]
  /\ op.kind # "register" => size[n] # None
  /\ \/ UNCHANGED value
     \/ value' = [value EXCEPT ![n] = Invalid]
     \/ op.kind = "copy" /\ value' = [value EXCEPT ![n] = op.data]
  /\ UNCHANGED size

(* Meanwhile the data becomes invalid, or in a registration fresh: the new  *)
(* block may be the old one again.                                          *)
Spoil(n) ==
  /\ doing[n] # Idle
  /\ \E v \in {Invalid} \cup (IF doing[n].kind = "register" THEN {Fresh} ELSE {}) :
       value' = [value EXCEPT ![n] = v]
  /\ UNCHANGED <<size, doing>>

(* A copy ends with the data in place, a registration with a block of the   *)
(* size asked for (or it is refused, if the name had none), a deletion      *)
(* without the name.                                                        *)
End(n) ==
  /\ doing[n] # Idle /\ doing' = [doing EXCEPT ![n] = Idle]
  /\ CASE doing[n].kind = "copy" ->
            value' = [value EXCEPT ![n] = doing[n].data] /\ UNCHANGED size
       [] doing[n].kind = "register" ->
            \/ /\ size' = [size EXCEPT ![n] = doing[n].size]
               /\ \E v \in {Fresh, Invalid} : value' = [value EXCEPT ![n] = v]
            \/ size[n] = None /\ UNCHANGED <<size, value>>
       [] doing[n].kind = "delete" ->
            /\ size' = [size EXCEPT ![n] = None]
            /\ value' = [value EXCEPT ![n] = Invalid]

Reset == doing' = [n \in Names |-> Idle] /\ UNCHANGED <<size, value>>

StoreNext ==
  \/ Reset
  \/ \E n \in Names : Spoil(n) \/ End(n) \/ \E op \in Operations : Begin(n, op)

StoreSpec == StoreInit /\ [][StoreNext]_storeVars
=============================================================================

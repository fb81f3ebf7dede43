-------------------------- MODULE MCSBDestinations --------------------------
EXTENDS SBDestinations, TLC

CONSTANTS t1, t2, p1, p2

(* A pipe for each task.                                                   *)
MCOwnerOf == p1 :> t1 @@ p2 :> t2

(* The destination that is enabled and disabled.                           *)
MCCommands == {<<0, p2>>}
=============================================================================

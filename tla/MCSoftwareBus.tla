--------------------------- MODULE MCSoftwareBus ---------------------------
(***************************************************************************)
(* Instances of SoftwareBus: two applications A and B with a task each, and *)
(* Executive Services.  The operators named after a scenario say which      *)
(* calls each task's program makes in it.                                   *)
(***************************************************************************)
EXTENDS SoftwareBus, TLC

CONSTANTS A, B, core, tA, tB

MCApps == {A, B, core}
MCTasks == {tA, tB, ES}
MCAppOf == tA :> A @@ tB :> B @@ ES :> core

Program(ofA, ofB, ofES) == tA :> ofA @@ tB :> ofB @@ ES :> ofES

BufSymmetry == Permutations(Bufs)

(* A reads its pipe, resubscribes, deletes the pipe, exits and is started   *)
(* again; B sends, and reads what it subscribes to.                         *)
Orderly == Program(
  {"CreatePipe", "DeletePipe", "Subscribe", "Unsubscribe", "RcvMsg", "ExitApp"},
  {"CreatePipe", "Subscribe", "SendMsg", "RcvMsg"},
  {"CleanUpExited", "StartApp"})

(* A has several subscriptions and an option set when it deletes its pipe   *)
(* or exits, and may get the reports of its own requests and the messages   *)
(* it sends itself.                                                         *)
ManyRoutes == Program(
  {"CreatePipe", "DeletePipe", "SetPipeOpts", "Subscribe", "Unsubscribe",
   "ExitApp", "RcvMsg", "SendMsg"},
  {"PassMsg"},
  {"CleanUpExited", "StartApp"})

(* A reader that unsubscribes and subscribes again, and a sender.            *)
Resubscribe == Program(
  {"CreatePipe", "Subscribe", "Unsubscribe", "RcvMsg"},
  {"SendMsg"},
  {})

(* Two applications subscribe, and listen to the reports, at the same time. *)
TwoSubscribers == Program(
  {"CreatePipe", "Subscribe"},
  {"CreatePipe", "Subscribe"},
  {})

(* A sets an option and deletes its pipe; B creates one.                    *)
NextOwner == Program(
  {"CreatePipe", "SetPipeOpts", "DeletePipe"},
  {"CreatePipe"},
  {})

(* ES removes A while A's task is still making calls.                       *)
Forced == Program(
  {"CreatePipe", "DeletePipe", "Subscribe", "Unsubscribe", "RcvMsg"},
  {"SendMsg"},
  {"CleanUpForced"})
=============================================================================

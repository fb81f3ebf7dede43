--------------------------- MODULE MCEventServices ---------------------------
EXTENDS EventServices, TLC

CONSTANTS t1, t2

(* t1 meets every kind of error, two destinations at a time; t2 only a      *)
(* message that has no subscriber.                                          *)
MCOutcomes == t1 :> {<<>>, <<"NO_SUBS">>, <<"Q_FULL_ERR", "Q_FULL_ERR">>}
           @@ t2 :> {<<"NO_SUBS">>}
MCUses == t1 :> {"SendMsg", "SendEvent"}
       @@ t2 :> {"SendMsg", "SendEvent", "Register", "Unregister"}
MCIndex == t1 :> 0 @@ t2 :> 1
=============================================================================

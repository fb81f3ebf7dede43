--------------------------- MODULE MCAppLifeCycle ---------------------------
EXTENDS AppLifeCycle, TLC

CONSTANTS a1, a2

(* a1 polls RunLoop, has a child task and may fail; a2 never looks at a     *)
(* request.                                                                 *)
MCStartup == <<a1, a2>>
MCUses == a1 :> {"APP_RUN", "APP_ERROR", "Sync", "Child", "DeleteChild", "ExitChild",
                 "ChildExitApp", "Fault"}
       @@ a2 :> {"Sync"}
MCSyncs == a1 :> APPS_INIT @@ a2 :> OPERATIONAL

MCCommands == {<<"Start", a2>>, <<"Stop", a2>>, <<"Restart", a1>>, <<"Reload", a1>>}

(* Both wait for the start-up and poll RunLoop, as the sample application   *)
(* does.                                                                    *)
MCPolling == a1 :> {"APP_RUN", "Sync"} @@ a2 :> {"APP_RUN", "Sync"}
MCRestart == {<<"Restart", a1>>}
=============================================================================

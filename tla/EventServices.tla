---------------------------- MODULE EventServices ----------------------------
(***************************************************************************)
(* The Software Bus reports its errors as events and Event Services sends   *)
(* events over the Software Bus, so CFE_SB_SendMsg and CFE_EVS_SendEvent    *)
(* call each other on the stack of one task (cfe_sb_api.c, cfe_sb_priv.c,   *)
(* cfe_evs.c, cfe_evs_utils.c).  What ends the recursion is one flag for    *)
(* each task and kind of error (StopRecurseFlags).  What the bus does with  *)
(* a message is in SoftwareBus; here a send has any of the outcomes that    *)
(* its task may meet.                                                       *)
(***************************************************************************)
EXTENDS Integers, Sequences, FiniteSets

CONSTANTS
  Tasks,        \* tasks of the application App
  App, SB, EVS, \* ids of an application, of the bus and of Event Services
  Uses,         \* task -> the calls it makes
  Outcomes,     \* task -> set of sequences of Kinds: the errors of a send
  Kinds,        \* the errors that are reported (CFE_SB_..._EID_BIT)
  Index,        \* task -> its OSAL index
  NumFlags,     \* entries of StopRecurseFlags: CFE_PLATFORM_ES_MAX_APPLICATIONS
  Filtered,     \* the ids that have a binary filter for their event
  Masked,       \* the counts for which (Mask & Count) is not 0
  MaxCount,     \* CFE_EVS_MAX_FILTER_COUNT, the largest value of Count
  Killed,       \* child tasks that are deleted (CFE_ES_DeleteChildTask)
  NULL

Ids == {App, SB, EVS}

(* CFE_SB_RequestToSendEvent does not check the index: the code relies on   *)
(* it being small enough.                                                   *)
ASSUME EventAssumption ==
  /\ App # SB /\ App # EVS /\ SB # EVS /\ NULL \notin Kinds
  /\ \A t \in Tasks : Outcomes[t] \subseteq Seq(Kinds)
  /\ \A t \in Tasks :
       Uses[t] \subseteq {"SendMsg", "SendEvent", "Register", "Unregister"}
  /\ \A t, u \in Tasks : Index[t] = Index[u] => t = u
  /\ \A t \in Tasks : Index[t] \in 0 .. NumFlags - 1
  /\ Filtered \subseteq Ids \ {EVS} /\ MaxCount \in Nat \ {0}
  /\ Masked \subseteq 0 .. MaxCount
  /\ Killed \subseteq Tasks

VARIABLES
  StopRecurseFlags,  \* index -> the kinds whose flag is set
  AppData,           \* id -> [RegisterFlag, EventCount, Count]
  reports,           \* task -> its events "not registered" since EventCount was last 0
  stack              \* task -> its calls, the innermost first

vars == <<StopRecurseFlags, AppData, reports, stack>>

Steps == {"begin", "report", "filter", "count", "send", "sent", "return"}
SendMsgCall(errs) == [fn |-> "SendMsg", errs |-> errs, kind |-> NULL]
SendEventCall(x, step) ==
  [fn |-> "SendEvent", id |-> x, at |-> step, masked |-> FALSE]

(* EventCount is kept as none or some: only EVS_NotRegistered looks at it.  *)
TypeOK ==
  /\ StopRecurseFlags \in [0 .. NumFlags - 1 -> SUBSET Kinds]
  /\ AppData \in [Ids -> [RegisterFlag : BOOLEAN, EventCount : {0, 1},
                          Count : 0 .. MaxCount]]
  /\ reports \in [Tasks -> Nat]
  /\ \A t \in Tasks : \A i \in DOMAIN stack[t] :
       \/ /\ stack[t][i].fn = "SendMsg" /\ stack[t][i].errs \in Seq(Kinds)
          /\ stack[t][i].kind \in Kinds \cup {NULL}
       \/ stack[t][i] \in [fn : {"SendEvent"}, id : Ids, at : Steps, masked : BOOLEAN]

NoReports == [t \in Tasks |-> 0]
NoData == [RegisterFlag |-> FALSE, EventCount |-> 0, Count |-> 0]

(* The core applications have registered and sent their first events.       *)
Init ==
  /\ StopRecurseFlags = [i \in 0 .. NumFlags - 1 |-> {}]
  /\ AppData = [x \in Ids |-> [NoData EXCEPT !.RegisterFlag = x # App,
                                             !.EventCount = IF x = App THEN 0 ELSE 1]]
  /\ reports = NoReports
  /\ stack = [t \in Tasks |-> <<>>]

Calls(t, c)   == stack' = [stack EXCEPT ![t] = <<c>> \o @]
Becomes(t, f) == stack' = [stack EXCEPT ![t] = <<f>> \o Tail(@)]
Returns(t)    == stack' = [stack EXCEPT ![t] = Tail(@)]
BecomesAndCalls(t, f, c) == stack' = [stack EXCEPT ![t] = <<c, f>> \o Tail(@)]

Top(t) == Head(stack[t])
In(t, fn) == stack[t] # <<>> /\ Top(t).fn = fn

-----------------------------------------------------------------------------
(* The application's calls.                                                *)
MayCall(t, call) == stack[t] = <<>> /\ call \in Uses[t]

SendMsg(t, errs) ==
  /\ MayCall(t, "SendMsg")
  /\ Calls(t, SendMsgCall(errs))
  /\ UNCHANGED <<StopRecurseFlags, AppData, reports>>

SendEvent(t) ==
  /\ MayCall(t, "SendEvent")
  /\ Calls(t, SendEventCall(App, "begin"))
  /\ UNCHANGED <<StopRecurseFlags, AppData, reports>>

(* CFE_EVS_Register and CFE_EVS_Unregister.                                *)
Register(t) ==
  /\ MayCall(t, "Register")
  /\ AppData' = [AppData EXCEPT ![App] = [NoData EXCEPT !.RegisterFlag = TRUE]]
  /\ reports' = NoReports
  /\ UNCHANGED <<StopRecurseFlags, stack>>

Unregister(t) ==
  /\ MayCall(t, "Unregister") /\ AppData[App].RegisterFlag
  /\ AppData' = [AppData EXCEPT ![App] = NoData]
  /\ reports' = NoReports
  /\ UNCHANGED <<StopRecurseFlags, stack>>

(* A reset of the filters of x, by its command or by CFE_EVS_ResetFilter.   *)
ResetFilter(x) ==
  /\ x \in Filtered /\ AppData[x].RegisterFlag
  /\ AppData' = [AppData EXCEPT ![x].Count = 0]
  /\ UNCHANGED <<StopRecurseFlags, reports, stack>>

-----------------------------------------------------------------------------
(* CFE_SB_SendMsgFull, once the message has been handled.  As a mutant, the *)
(* flag is not cleared.                                                     *)
FlagSet(t, k) == [StopRecurseFlags EXCEPT ![Index[t]] = @ \cup {k}]
NoFlagCleared(t, k) == StopRecurseFlags
FlagCleared(t, k) == [StopRecurseFlags EXCEPT ![Index[t]] = @ \ {k}]

(* CFE_SB_RequestToSendEvent: an error is reported unless its kind is being *)
(* reported already.                                                        *)
RequestToSendEvent(t) ==
  /\ In(t, "SendMsg") /\ Top(t).errs # <<>> /\ Top(t).kind = NULL
  /\ LET f == Top(t)
         k == Head(f.errs)
     IN IF k \in StopRecurseFlags[Index[t]]
        THEN /\ Becomes(t, [f EXCEPT !.errs = Tail(f.errs)])
             /\ UNCHANGED StopRecurseFlags
        ELSE /\ StopRecurseFlags' = FlagSet(t, k)
             /\ BecomesAndCalls(t, [f EXCEPT !.kind = k], SendEventCall(SB, "begin"))
  /\ UNCHANGED <<AppData, reports>>

(* The errors of the send that are left once one has been reported.  As a   *)
(* mutant, it is not counted as reported.                                   *)
SameErrs(errs) == errs
LaterErrs(errs) == Tail(errs)

(* CFE_SB_FinishSendEvent, when the event has been sent.                   *)
FinishSendEvent(t) ==
  /\ In(t, "SendMsg") /\ Top(t).kind # NULL
  /\ StopRecurseFlags' = FlagCleared(t, Top(t).kind)
  /\ Becomes(t, [Top(t) EXCEPT !.kind = NULL, !.errs = LaterErrs(Top(t).errs)])
  /\ UNCHANGED <<AppData, reports>>

SendMsgReturn(t) ==
  /\ In(t, "SendMsg") /\ Top(t).errs = <<>>
  /\ Returns(t)
  /\ UNCHANGED <<StopRecurseFlags, AppData, reports>>

-----------------------------------------------------------------------------
(* CFE_EVS_SendEvent and CFE_EVS_SendEventWithAppID.                       *)
At(t, step) == In(t, "SendEvent") /\ Top(t).at = step

(* EVS_NotRegistered asks whether the application has been reported.  As a  *)
(* mutant, it does not.                                                     *)
ReportedNever(x) == TRUE
NotReported(x) == AppData[x].EventCount = 0

EventBegin(t) ==
  /\ At(t, "begin")
  /\ LET x == Top(t).id IN
     IF AppData[x].RegisterFlag \/ NotReported(x)
     THEN Becomes(t, [Top(t) EXCEPT !.at =
                        IF AppData[x].RegisterFlag THEN "filter" ELSE "report"])
     ELSE Returns(t)
  /\ UNCHANGED <<StopRecurseFlags, AppData, reports>>

(* The report itself.  No lock is held since the question: another task of  *)
(* the application may have asked it too, or have registered meanwhile.     *)
EventReport(t) ==
  /\ At(t, "report")
  /\ AppData' = [AppData EXCEPT ![Top(t).id].EventCount = 1]
  /\ reports' = [reports EXCEPT ![t] = @ + 1]
  /\ BecomesAndCalls(t, [Top(t) EXCEPT !.at = "return"], SendEventCall(EVS, "filter"))
  /\ UNCHANGED StopRecurseFlags

(* EVS_IsFiltered: the mask is applied, and a count that is not at its      *)
(* largest value is to go up.                                               *)
EventFilter(t) ==
  /\ At(t, "filter")
  /\ LET x == Top(t).id
         c == AppData[x].Count
     IN Becomes(t, [Top(t) EXCEPT
          !.masked = ~AppData[x].RegisterFlag \/ (x \in Filtered /\ c \in Masked),
          !.at = IF x \in Filtered /\ AppData[x].RegisterFlag /\ c < MaxCount
                   THEN "count" ELSE "send"])
  /\ UNCHANGED <<StopRecurseFlags, AppData, reports>>

(* The count after one more event, in the 16 bits it has (MaxCount is the   *)
(* largest value).  Another task may have raised it since the comparison,   *)
(* so a count at its largest value may wrap.                                *)
Counted(c) == (c + 1) % (MaxCount + 1)

(* The filter is locked when the count gets there, which is an event too.   *)
EventCount(t) ==
  /\ At(t, "count")
  /\ LET x == Top(t).id
         c == Counted(AppData[x].Count)
         f == [Top(t) EXCEPT !.at = "send"]
     IN /\ AppData' = [AppData EXCEPT ![x].Count = c]
        /\ IF c = MaxCount THEN BecomesAndCalls(t, f, SendEventCall(EVS, "filter"))
                           ELSE Becomes(t, f)
  /\ UNCHANGED <<StopRecurseFlags, reports>>

(* EVS_GenerateEventTelemetry: the event is a message.                     *)
EventSend(t, errs) ==
  /\ At(t, "send") /\ ~Top(t).masked
  /\ BecomesAndCalls(t, [Top(t) EXCEPT !.at = "sent"], SendMsgCall(errs))
  /\ UNCHANGED <<StopRecurseFlags, AppData, reports>>

EventMasked(t) ==
  /\ At(t, "send") /\ Top(t).masked
  /\ Returns(t)
  /\ UNCHANGED <<StopRecurseFlags, AppData, reports>>

EventSent(t) ==
  /\ At(t, "sent")
  /\ AppData' = [AppData EXCEPT ![Top(t).id].EventCount = 1]
  /\ Returns(t)
  /\ UNCHANGED <<StopRecurseFlags, reports>>

EventReturn(t) ==
  /\ At(t, "return")
  /\ Returns(t)
  /\ UNCHANGED <<StopRecurseFlags, AppData, reports>>

-----------------------------------------------------------------------------
(* A child task is deleted, wherever it is, and a new one gets its index.   *)
(* Nothing clears its flags.                                                *)
DeleteTask(t) ==
  /\ t \in Killed /\ stack[t] # <<>>
  /\ stack' = [stack EXCEPT ![t] = <<>>]
  /\ UNCHANGED <<StopRecurseFlags, AppData, reports>>

Continue(t) ==
  \/ RequestToSendEvent(t) \/ FinishSendEvent(t) \/ SendMsgReturn(t)
  \/ EventBegin(t) \/ EventReport(t) \/ EventFilter(t) \/ EventCount(t)
  \/ \E errs \in Outcomes[t] : EventSend(t, errs)
  \/ EventMasked(t) \/ EventSent(t) \/ EventReturn(t)

TaskStep(t) ==
  \/ \E errs \in Outcomes[t] : SendMsg(t, errs)
  \/ SendEvent(t) \/ Register(t) \/ Unregister(t)
  \/ Continue(t)

Next ==
  \/ \E t \in Tasks : TaskStep(t)
  \/ \E x \in Ids : ResetFilter(x)
  \/ \E t \in Tasks : DeleteTask(t)

Spec == Init /\ [][Next]_vars

(* A call goes on: no task waits for another here.                         *)
FairSpec == Spec /\ \A t \in Tasks : WF_vars(Continue(t))

-----------------------------------------------------------------------------
(* The kinds of error that task t is reporting, outermost last.             *)
Reporting(t) == {i \in DOMAIN stack[t] :
                   stack[t][i].fn = "SendMsg" /\ stack[t][i].kind # NULL}

(* No task reports a kind of error within a report of the same kind, so its *)
(* stack is bounded (CFE_SB_RequestToSendEvent).                            *)
RecursionBounded ==
  \A t \in Tasks : \A i, j \in Reporting(t) :
    stack[t][i].kind = stack[t][j].kind => i = j

(* A flag is set exactly while its task reports that kind of error: one     *)
(* that stayed set would silence the task for ever (CFE_SB_FinishSendEvent). *)
(* Where tasks are deleted as they report, a flag does stay set.            *)
FlagsMatchCalls ==
  \A t \in Tasks :
    LET kinds == {stack[t][i].kind : i \in Reporting(t)} IN
    /\ kinds \subseteq StopRecurseFlags[Index[t]]
    /\ t \notin Killed => StopRecurseFlags[Index[t]] = kinds

(* The recursion of SendMsg and SendEvent is cut off at each kind of error, *)
(* and only while that kind is being reported.                              *)
RecursionGuarded == TypeOK /\ RecursionBounded /\ FlagsMatchCalls

(* However often the calls of a task meet an application that is not        *)
(* registered, the task reports it at most once until a registration or its *)
(* end clears EventCount, so the application is reported at most once for   *)
(* each of its tasks (EVS_NotRegistered, which takes no lock).  The comment *)
(* there promises one report for the application: two tasks can make two.   *)
ReportedOnce == \A t \in Tasks : reports[t] <= 1

(* What the comment in EVS_NotRegistered promises.                         *)
ReportedByOneTask ==
  \A t, u \in Tasks : reports[t] > 0 /\ reports[u] > 0 => t = u

(* Every call returns, whatever goes wrong with the messages it sends.      *)
CallsReturn == \A t \in Tasks : stack[t] # <<>> ~> stack[t] = <<>>
=============================================================================

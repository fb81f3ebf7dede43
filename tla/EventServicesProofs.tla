------------------------- MODULE EventServicesProofs -------------------------
(***************************************************************************)
(* Proofs about EventServices: the mutual recursion of CFE_SB_SendMsg and   *)
(* CFE_EVS_SendEvent is guarded, whatever errors the sends meet and however *)
(* many tasks make them; and each task reports an application that is not   *)
(* registered at most once.                                                 *)
(***************************************************************************)
EXTENDS EventServices, SequenceTheorems, TLAPS

(* The frames of a task's stack.  A send that is reporting an error still   *)
(* has that error to account for.                                           *)
MsgFrame == {f \in [fn : {"SendMsg"}, errs : Seq(Kinds), kind : Kinds \cup {NULL}] :
               f.kind # NULL => f.errs # <<>>}
EventFrame == [fn : {"SendEvent"}, id : Ids, at : Steps, masked : BOOLEAN]
Frame == MsgFrame \cup EventFrame

IsReport(f) == f.fn = "SendMsg" /\ f.kind # NULL
KindsIn(s) == {s[i].kind : i \in {j \in DOMAIN s : IsReport(s[j])}}
OncePerKind(s) == \A i, j \in DOMAIN s :
  IsReport(s[i]) /\ IsReport(s[j]) /\ s[i].kind = s[j].kind => i = j

(* What a stack and the flags of its task have to do with each other.       *)
StackOK(t, s, flags) ==
  /\ s \in Seq(Frame) /\ OncePerKind(s)
  /\ KindsIn(s) \subseteq flags
  /\ t \notin Killed => flags = KindsIn(s)

CallsOK ==
  /\ stack \in [Tasks -> Seq(Frame)]
  /\ StopRecurseFlags \in [0 .. NumFlags - 1 -> SUBSET Kinds]
  /\ \A t \in Tasks : StackOK(t, stack[t], StopRecurseFlags[Index[t]])

AppDatum == [RegisterFlag : BOOLEAN, EventCount : {0, 1}, Count : 0 .. MaxCount]
DataOK == AppData \in [Ids -> AppDatum] /\ reports \in [Tasks -> Nat]

EventInv == CallsOK /\ DataOK

(* The bus and Event Services stay registered; once a task has reported the *)
(* application, its EventCount shows it.                                    *)
RegisteredOK ==
  /\ AppData[SB].RegisterFlag /\ AppData[EVS].RegisterFlag
  /\ \A t \in Tasks : \/ reports[t] = 0
                      \/ reports[t] = 1 /\ AppData[App].EventCount = 1

(* A task that is about to report is at the top of its stack, is about to   *)
(* report the application, and has not reported it yet.                     *)
NoReportIn(s) == \A i \in DOMAIN s : s[i].fn = "SendEvent" => s[i].at # "report"
AboutToReport ==
  \A t \in Tasks :
    /\ stack[t] # <<>> => NoReportIn(Tail(stack[t]))
    /\ At(t, "report") => Top(t).id = App /\ reports[t] = 0

-----------------------------------------------------------------------------
(* Stacks *)

(* A non-empty stack is its top frame on the rest.                          *)
LEMMA TopLemma ==
  ASSUME NEW s \in Seq(Frame), s # <<>>
  PROVE  Head(s) \in Frame /\ Tail(s) \in Seq(Frame) /\ s = <<Head(s)>> \o Tail(s)
<1>1. Len(s) \in Nat /\ Len(s) # 0 /\ s[1] \in Frame
  BY EmptySeq, LenProperties, ElementOfSeq
<1>2. Head(s) \in Frame /\ Tail(s) \in Seq(Frame)
  BY HeadTailProperties
<1>3. s = <<Head(s)>> \o Tail(s)
  OBVIOUS
<1> QED
  BY <1>2, <1>3

(* What one more frame adds to the kinds that are being reported.           *)
LEMMA PushLemma ==
  ASSUME NEW s \in Seq(Frame), NEW f \in Frame
  PROVE  LET n == <<f>> \o s
         IN /\ n \in Seq(Frame)
            /\ KindsIn(n) = KindsIn(s) \cup (IF IsReport(f) THEN {f.kind} ELSE {})
            /\ OncePerKind(n) <=> OncePerKind(s) /\ (IsReport(f) => f.kind \notin KindsIn(s))
            /\ Head(n) = f /\ Tail(n) = s /\ n # <<>>
<1> DEFINE n == <<f>> \o s
<1>1. n \in Seq(Frame) /\ Len(n) = Len(s) + 1 /\ Len(s) \in Nat
  OBVIOUS
<1>2. DOMAIN n = 1 .. Len(s) + 1 /\ DOMAIN s = 1 .. Len(s)
  BY <1>1, LenProperties
<1>3. n[1] = f /\ \A i \in DOMAIN s : i + 1 \in DOMAIN n /\ n[i + 1] = s[i]
  BY <1>1, <1>2
<1>4. \A i \in DOMAIN n : i = 1 \/ (i - 1 \in DOMAIN s /\ n[i] = s[i - 1])
  BY <1>1, <1>2
<1>5. 1 \in DOMAIN n
  BY <1>1, <1>2
<1>6. \A i \in DOMAIN s : i + 1 # 1 /\ i \in Int
  BY <1>1, <1>2
<1>7. Head(n) = f /\ Tail(n) = s /\ n # <<>>
  OBVIOUS
<1> HIDE DEF n
<1>8. KindsIn(n) = KindsIn(s) \cup (IF IsReport(f) THEN {f.kind} ELSE {})
  BY <1>3, <1>4, <1>5 DEF KindsIn
<1>9. ASSUME OncePerKind(n)
      PROVE  OncePerKind(s) /\ (IsReport(f) => f.kind \notin KindsIn(s))
  <2>1. ASSUME NEW i \in DOMAIN s, NEW j \in DOMAIN s, IsReport(s[i]), IsReport(s[j]),
               s[i].kind = s[j].kind
        PROVE  i = j
    <3>1. i + 1 = j + 1
      BY <1>3, <1>9, <2>1 DEF OncePerKind
    <3> QED
      BY <1>6, <3>1
  <2>2. ASSUME IsReport(f), NEW i \in DOMAIN s, IsReport(s[i]), s[i].kind = f.kind
        PROVE  FALSE
    BY <1>3, <1>5, <1>6, <1>9, <2>2 DEF OncePerKind
  <2> QED
    BY <2>1, <2>2 DEF OncePerKind, KindsIn
<1>10. ASSUME OncePerKind(s), IsReport(f) => f.kind \notin KindsIn(s)
       PROVE  OncePerKind(n)
  <2>1. ASSUME NEW i \in DOMAIN n, NEW j \in DOMAIN n, IsReport(n[i]), IsReport(n[j]),
               n[i].kind = n[j].kind
        PROVE  i = j
    <3>1. CASE i = 1 /\ j = 1
      BY <3>1
    <3>2. CASE i = 1 /\ j # 1
      BY <1>3, <1>4, <1>10, <2>1, <3>2 DEF KindsIn
    <3>3. CASE i # 1 /\ j = 1
      BY <1>3, <1>4, <1>10, <2>1, <3>3 DEF KindsIn
    <3>4. CASE i # 1 /\ j # 1
      <4>1. i - 1 = j - 1
        BY <1>4, <1>10, <2>1, <3>4 DEF OncePerKind
      <4>2. i \in Int /\ j \in Int
        BY <1>1, <1>2, <2>1
      <4> QED
        BY <4>1, <4>2
    <3> QED
      BY <3>1, <3>2, <3>3, <3>4
  <2> QED
    BY <2>1 DEF OncePerKind
<1> QED
  BY <1>1, <1>7, <1>8, <1>9, <1>10 DEF n

(* A step of task t that leaves its stack and its flags in order.           *)
LEMMA CallsStep ==
  ASSUME CallsOK, NEW t \in Tasks, NEW n, NEW flags \in SUBSET Kinds,
         stack' = [stack EXCEPT ![t] = n],
         StopRecurseFlags' = [StopRecurseFlags EXCEPT ![Index[t]] = flags],
         StackOK(t, n, flags)
  PROVE  CallsOK'
<1>1. \A u \in Tasks : Index[u] \in 0 .. NumFlags - 1 /\ (Index[u] = Index[t] => u = t)
  BY EventAssumption
<1>2. stack' \in [Tasks -> Seq(Frame)] /\ \A u \in Tasks : stack'[u] = IF u = t THEN n ELSE stack[u]
  BY DEF CallsOK, StackOK
<1>3. StopRecurseFlags' \in [0 .. NumFlags - 1 -> SUBSET Kinds]
  BY <1>1 DEF CallsOK
<1>4. \A u \in Tasks : StopRecurseFlags'[Index[u]]
                         = IF u = t THEN flags ELSE StopRecurseFlags[Index[u]]
  BY <1>1 DEF CallsOK
<1> QED
  BY <1>2, <1>3, <1>4 DEF CallsOK

(* A step that leaves the flags alone and touches no report.                *)
LEMMA CallsQuiet ==
  ASSUME CallsOK, NEW t \in Tasks, NEW n, UNCHANGED StopRecurseFlags,
         stack' = [stack EXCEPT ![t] = n], n \in Seq(Frame),
         KindsIn(n) = KindsIn(stack[t]), OncePerKind(n)
  PROVE  CallsOK'
<1>1. Index[t] \in 0 .. NumFlags - 1
  BY EventAssumption
<1> DEFINE flags == StopRecurseFlags[Index[t]]
<1>2. flags \in SUBSET Kinds /\ StackOK(t, stack[t], flags)
  BY <1>1 DEF CallsOK
<1>3. StopRecurseFlags' = [StopRecurseFlags EXCEPT ![Index[t]] = flags]
  BY <1>1 DEF CallsOK
<1>4. StackOK(t, n, flags)
  BY <1>2 DEF StackOK
<1> HIDE DEF flags
<1> QED
  BY <1>2, <1>3, <1>4, CallsStep

(* The ways a call begins, goes on and ends without a report.              *)
LEMMA CallsCases ==
  ASSUME CallsOK, NEW t \in Tasks, UNCHANGED StopRecurseFlags
  PROVE  /\ \A c \in Frame : ~IsReport(c) /\ Calls(t, c) => CallsOK'
         /\ stack[t] # <<>> /\ ~IsReport(Top(t)) =>
              /\ Returns(t) => CallsOK'
              /\ \A f \in Frame : ~IsReport(f) /\ Becomes(t, f) => CallsOK'
              /\ \A f, c \in Frame :
                   ~IsReport(f) /\ ~IsReport(c) /\ BecomesAndCalls(t, f, c) => CallsOK'
<1> DEFINE s == stack[t]
<1>1. s \in Seq(Frame) /\ OncePerKind(s)
  BY DEF CallsOK, StackOK
<1>2. ASSUME NEW c \in Frame, ~IsReport(c), Calls(t, c) PROVE CallsOK'
  <2> DEFINE n == <<c>> \o s
  <2>1. n \in Seq(Frame) /\ KindsIn(n) = KindsIn(s) /\ OncePerKind(n)
    BY <1>1, <1>2, PushLemma
  <2>2. stack' = [stack EXCEPT ![t] = n]
    BY <1>2 DEF Calls
  <2> HIDE DEF n
  <2> QED
    BY <2>1, <2>2, CallsQuiet
<1>3. ASSUME s # <<>>, ~IsReport(Top(t))
      PROVE  /\ Returns(t) => CallsOK'
             /\ \A f \in Frame : ~IsReport(f) /\ Becomes(t, f) => CallsOK'
             /\ \A f, c \in Frame :
                  ~IsReport(f) /\ ~IsReport(c) /\ BecomesAndCalls(t, f, c) => CallsOK'
  <2> DEFINE r == Tail(s)
  <2>1. Top(t) \in Frame /\ r \in Seq(Frame) /\ s = <<Top(t)>> \o r
    BY <1>1, <1>3, TopLemma DEF Top
  <2> HIDE DEF r
  <2>2. KindsIn(s) = KindsIn(r) /\ OncePerKind(r)
    <3>1. PICK f \in Frame : f = Top(t) /\ ~IsReport(f)
      BY <1>3, <2>1
    <3>2. /\ KindsIn(<<f>> \o r) = KindsIn(r)
          /\ OncePerKind(<<f>> \o r) <=> OncePerKind(r)
      BY <2>1, <3>1, PushLemma
    <3> QED
      BY <1>1, <2>1, <3>1, <3>2
  <2>3. Returns(t) => CallsOK'
    BY <2>1, <2>2, CallsQuiet DEF Returns, r
  <2>4. ASSUME NEW f \in Frame, ~IsReport(f)
        PROVE  LET n == <<f>> \o r
               IN n \in Seq(Frame) /\ KindsIn(n) = KindsIn(s) /\ OncePerKind(n)
    <3>1. <<f>> \o r \in Seq(Frame)
      BY <2>1
    <3>2. KindsIn(<<f>> \o r) = KindsIn(r) /\ (OncePerKind(<<f>> \o r) <=> OncePerKind(r))
      BY <2>1, <2>4, PushLemma
    <3> QED
      BY <3>1, <3>2, <2>2
  <2>5. ASSUME NEW f \in Frame, ~IsReport(f), Becomes(t, f) PROVE CallsOK'
    <3> DEFINE n == <<f>> \o r
    <3>1. stack' = [stack EXCEPT ![t] = n]
      BY <2>5 DEF Becomes, r
    <3>2. n \in Seq(Frame) /\ KindsIn(n) = KindsIn(s) /\ OncePerKind(n)
      BY <2>4, <2>5
    <3> HIDE DEF n
    <3> QED
      BY <3>1, <3>2, CallsQuiet
  <2>6. ASSUME NEW f \in Frame, NEW c \in Frame, ~IsReport(f), ~IsReport(c),
               BecomesAndCalls(t, f, c)
        PROVE  CallsOK'
    <3> DEFINE n == <<f>> \o r
               o == <<c>> \o n
    <3>1. n \in Seq(Frame) /\ KindsIn(n) = KindsIn(s) /\ OncePerKind(n)
      BY <2>4, <2>6
    <3>2. stack' = [stack EXCEPT ![t] = o]
      <4>1. <<c, f>> \o r = <<c>> \o (<<f>> \o r)
        BY <2>1
      <4> QED
        BY <2>6, <4>1 DEF BecomesAndCalls, r
    <3> HIDE DEF n
    <3>3. o \in Seq(Frame) /\ KindsIn(o) = KindsIn(s) /\ OncePerKind(o)
      BY <2>6, <3>1, PushLemma
    <3> HIDE DEF o
    <3> QED
      BY <3>2, <3>3, CallsQuiet
  <2> QED
    BY <2>3, <2>5, <2>6
<1> QED
  BY <1>2, <1>3

-----------------------------------------------------------------------------
(* The steps *)

LEMMA FrameLemma ==
  /\ \A errs \in Seq(Kinds) : SendMsgCall(errs) \in Frame /\ ~IsReport(SendMsgCall(errs))
  /\ \A x \in Ids, step \in Steps :
       SendEventCall(x, step) \in Frame /\ ~IsReport(SendEventCall(x, step))
  /\ \A f \in EventFrame : f \in Frame /\ ~IsReport(f)
<1>1. ASSUME NEW errs \in Seq(Kinds)
      PROVE  SendMsgCall(errs) \in Frame /\ ~IsReport(SendMsgCall(errs))
  BY DEF SendMsgCall, Frame, MsgFrame, IsReport
<1>2. ASSUME NEW x \in Ids, NEW step \in Steps
      PROVE  SendEventCall(x, step) \in EventFrame
  BY DEF SendEventCall, EventFrame
<1>3. ASSUME NEW f \in EventFrame PROVE f \in Frame /\ ~IsReport(f)
  BY DEF Frame, EventFrame, IsReport
<1> QED
  BY <1>1, <1>2, <1>3

(* The frame a task is in.                                                 *)
LEMMA InLemma ==
  ASSUME CallsOK, NEW t \in Tasks
  PROVE  /\ In(t, "SendMsg") => Top(t) \in MsgFrame /\ stack[t] # <<>>
         /\ In(t, "SendEvent") =>
              Top(t) \in EventFrame /\ stack[t] # <<>> /\ ~IsReport(Top(t))
<1>1. stack[t] \in Seq(Frame)
  BY DEF CallsOK
<1>2. In(t, "SendMsg") \/ In(t, "SendEvent") => Top(t) \in Frame /\ stack[t] # <<>>
  BY <1>1, TopLemma DEF In, Top
<1> QED
  BY <1>2 DEF In, Frame, MsgFrame, EventFrame, IsReport

LEMMA RequestToSendEventOK ==
  ASSUME EventInv, NEW t \in Tasks, RequestToSendEvent(t)
  PROVE  CallsOK'
<1>1. PICK f, k : f = Top(t) /\ k = Head(f.errs)
  OBVIOUS
<1>2. /\ stack[t] # <<>> /\ f \in MsgFrame /\ f.fn = "SendMsg" /\ f.errs # <<>> /\ f.kind = NULL
  BY <1>1, InLemma DEF RequestToSendEvent, In, EventInv
<1>3. f.errs \in Seq(Kinds) /\ k \in Kinds /\ Tail(f.errs) \in Seq(Kinds) /\ k # NULL
  <2>1. f.errs \in Seq(Kinds)
    BY <1>2 DEF MsgFrame
  <2>2. Head(f.errs) \in Kinds /\ Tail(f.errs) \in Seq(Kinds)
    BY <1>2, <2>1, HeadTailProperties
  <2> QED
    BY <1>1, <2>1, <2>2, EventAssumption
<1>4. ~IsReport(f)
  BY <1>2 DEF IsReport
<1>5. CASE k \in StopRecurseFlags[Index[t]]
  <2> DEFINE g == [f EXCEPT !.errs = Tail(f.errs)]
  <2>1. Becomes(t, g) /\ UNCHANGED StopRecurseFlags
    BY <1>1, <1>5 DEF RequestToSendEvent
  <2>2. g \in Frame /\ ~IsReport(g)
    BY <1>2, <1>3 DEF Frame, MsgFrame, IsReport
  <2> HIDE DEF g
  <2> QED
    BY <1>1, <1>2, <1>4, <2>1, <2>2, CallsCases DEF EventInv
<1>6. CASE k \notin StopRecurseFlags[Index[t]]
  <2> DEFINE g == [f EXCEPT !.kind = k]
             c == SendEventCall(SB, "begin")
             r == Tail(stack[t])
             flags == StopRecurseFlags[Index[t]] \cup {k}
             m == <<g>> \o r
             n == <<c>> \o m
  <2>1. BecomesAndCalls(t, g, c) /\ StopRecurseFlags' = FlagSet(t, k)
    BY <1>1, <1>6 DEF RequestToSendEvent
  <2>2. g \in Frame /\ IsReport(g) /\ g.kind = k
    BY <1>2, <1>3 DEF Frame, MsgFrame, IsReport
  <2>3. c \in Frame /\ ~IsReport(c)
    BY FrameLemma DEF Ids, Steps
  <2>4. Index[t] \in 0 .. NumFlags - 1
    BY EventAssumption
  <2>5. flags \in SUBSET Kinds /\ StackOK(t, stack[t], StopRecurseFlags[Index[t]])
    BY <1>3, <2>4 DEF EventInv, CallsOK
  <2>6. StopRecurseFlags' = [StopRecurseFlags EXCEPT ![Index[t]] = flags]
    BY <2>1 DEF FlagSet
  <2>7. r \in Seq(Frame) /\ stack[t] = <<f>> \o r /\ f \in Frame
    BY <1>1, <1>2, <2>5, TopLemma DEF StackOK, Top
  <2> HIDE DEF g, c, r
  <2>8. stack' = [stack EXCEPT ![t] = n]
    <3>1. <<c, g>> \o r = <<c>> \o (<<g>> \o r)
      BY <2>7
    <3> QED
      BY <2>1, <3>1 DEF BecomesAndCalls, r
  <2>9. KindsIn(stack[t]) = KindsIn(r) /\ OncePerKind(r)
    BY <1>4, <2>5, <2>7, PushLemma DEF StackOK
  <2>10. m \in Seq(Frame) /\ KindsIn(m) = KindsIn(r) \cup {k} /\ OncePerKind(m)
    <3>1. k \notin KindsIn(r)
      BY <1>6, <2>5, <2>9 DEF StackOK
    <3> QED
      BY <2>2, <2>7, <2>9, <3>1, PushLemma
  <2> HIDE DEF m
  <2>11. n \in Seq(Frame) /\ KindsIn(n) = KindsIn(m) /\ OncePerKind(n)
    BY <2>3, <2>10, PushLemma
  <2> HIDE DEF n
  <2>12. StackOK(t, n, flags)
    BY <2>5, <2>9, <2>10, <2>11 DEF StackOK
  <2> HIDE DEF flags
  <2> QED
    BY <2>5, <2>6, <2>8, <2>12, CallsStep DEF EventInv
<1> QED
  BY <1>5, <1>6

LEMMA FinishSendEventOK ==
  ASSUME EventInv, NEW t \in Tasks, FinishSendEvent(t)
  PROVE  CallsOK'
<1>1. PICK f, k : f = Top(t) /\ k = f.kind
  OBVIOUS
<1> DEFINE g == [f EXCEPT !.kind = NULL, !.errs = LaterErrs(f.errs)]
           r == Tail(stack[t])
           flags == StopRecurseFlags[Index[t]] \ {k}
           n == <<g>> \o r
<1>2. stack[t] # <<>> /\ f \in MsgFrame /\ f.fn = "SendMsg" /\ k # NULL
  BY <1>1, InLemma DEF FinishSendEvent, In, EventInv
<1>3. StopRecurseFlags' = FlagCleared(t, k) /\ Becomes(t, g)
  BY <1>1 DEF FinishSendEvent
<1>4. f.errs \in Seq(Kinds) /\ f.errs # <<>> /\ IsReport(f)
  BY <1>1, <1>2 DEF MsgFrame, IsReport
<1>5. LaterErrs(f.errs) \in Seq(Kinds)
  BY <1>4, HeadTailProperties DEF LaterErrs
<1>6. g \in Frame /\ ~IsReport(g)
  BY <1>2, <1>5 DEF Frame, MsgFrame, IsReport
<1>7. Index[t] \in 0 .. NumFlags - 1
  BY EventAssumption
<1>8. flags \in SUBSET Kinds /\ StackOK(t, stack[t], StopRecurseFlags[Index[t]])
  BY <1>7 DEF EventInv, CallsOK
<1>9. StopRecurseFlags' = [StopRecurseFlags EXCEPT ![Index[t]] = flags]
  BY <1>3 DEF FlagCleared
<1>10. stack' = [stack EXCEPT ![t] = n]
  BY <1>3 DEF Becomes
<1>11. r \in Seq(Frame) /\ stack[t] = <<f>> \o r /\ f \in Frame
  BY <1>1, <1>2, <1>8, TopLemma DEF StackOK, Top
<1> HIDE DEF g, r
<1>12. KindsIn(stack[t]) = KindsIn(r) \cup {k} /\ OncePerKind(r) /\ k \notin KindsIn(r)
  <2>1. /\ KindsIn(<<f>> \o r) = KindsIn(r) \cup {f.kind}
        /\ OncePerKind(<<f>> \o r) <=> OncePerKind(r) /\ f.kind \notin KindsIn(r)
    BY <1>4, <1>11, PushLemma
  <2> QED
    BY <1>1, <1>8, <1>11, <2>1 DEF StackOK
<1>13. n \in Seq(Frame) /\ KindsIn(n) = KindsIn(r) /\ OncePerKind(n)
  <2>1. OncePerKind(r)
    BY <1>12
  <2> QED
    BY <1>6, <1>11, <2>1, PushLemma
<1> HIDE DEF n
<1>14. StackOK(t, n, flags)
  BY <1>8, <1>12, <1>13 DEF StackOK
<1> HIDE DEF flags
<1> QED
  BY <1>8, <1>9, <1>10, <1>14, CallsStep DEF EventInv

LEMMA CountedLemma == \A c \in 0 .. MaxCount : Counted(c) \in 0 .. MaxCount
<1>1. MaxCount \in Nat
  BY EventAssumption
<1>2. ASSUME NEW n \in Int, NEW k \in Nat \ {0} PROVE n % k \in 0 .. k - 1
  OBVIOUS
<1>3. ASSUME NEW c \in 0 .. MaxCount PROVE Counted(c) \in 0 .. MaxCount
  <2>1. c + 1 \in Int /\ MaxCount + 1 \in Nat \ {0} /\ (MaxCount + 1) - 1 = MaxCount
    BY <1>1
  <2>2. (c + 1) % (MaxCount + 1) \in 0 .. (MaxCount + 1) - 1
    BY <1>2, <2>1
  <2> QED
    BY <2>1, <2>2 DEF Counted
<1> QED
  BY <1>3

(* What each step writes into EVS's table of applications.                  *)
LEMMA DataLemma ==
  ASSUME DataOK, NEW x \in Ids
  PROVE  /\ NoData \in AppDatum /\ [NoData EXCEPT !.RegisterFlag = TRUE] \in AppDatum
         /\ \A d \in AppDatum : AppData' = [AppData EXCEPT ![x] = d] =>
              AppData' \in [Ids -> AppDatum]
         /\ \A c \in 0 .. MaxCount : [AppData[x] EXCEPT !.Count = c] \in AppDatum
         /\ [AppData[x] EXCEPT !.EventCount = 1] \in AppDatum
<1>1. 0 \in 0 .. MaxCount
  BY EventAssumption
<1>2. AppData[x] \in AppDatum
  BY DEF DataOK
<1> QED
  BY <1>1, <1>2 DEF DataOK, AppDatum, NoData

(* Every step of a call inside CFE_EVS_SendEvent.                          *)
LEMMA EventStepOK ==
  ASSUME EventInv, NEW t \in Tasks,
         \/ EventBegin(t) \/ EventReport(t) \/ EventFilter(t) \/ EventCount(t)
         \/ \E errs \in Outcomes[t] : EventSend(t, errs)
         \/ EventMasked(t) \/ EventSent(t) \/ EventReturn(t)
  PROVE  EventInv'
<1>1. In(t, "SendEvent") /\ UNCHANGED StopRecurseFlags
  BY DEF EventBegin, EventReport, EventFilter, EventCount, EventSend, EventMasked, EventSent,
         EventReturn, At
<1>2. PICK f \in EventFrame : f = Top(t) /\ stack[t] # <<>> /\ ~IsReport(f)
  BY <1>1, InLemma DEF EventInv
<1>3. PICK x \in Ids : x = f.id
  BY <1>2 DEF EventFrame
<1>4. ASSUME NEW at \in Steps, NEW masked \in BOOLEAN
      PROVE  /\ [f EXCEPT !.at = at] \in EventFrame
             /\ [f EXCEPT !.masked = masked, !.at = at] \in EventFrame
  BY <1>2 DEF EventFrame
<1>5. \A c \in EventFrame : c \in Frame /\ ~IsReport(c)
  BY FrameLemma
<1>6. \A step \in Steps : SendEventCall(EVS, step) \in Frame /\ ~IsReport(SendEventCall(EVS, step))
  BY FrameLemma DEF Ids
<1>7. {"report", "filter", "count", "send", "sent", "return"} \subseteq Steps
  BY DEF Steps
<1>8. /\ Returns(t) => CallsOK'
      /\ \A g \in EventFrame : Becomes(t, g) => CallsOK'
      /\ \A g \in EventFrame, c \in Frame : ~IsReport(c) /\ BecomesAndCalls(t, g, c) => CallsOK'
  BY <1>1, <1>2, <1>5, CallsCases DEF EventInv
<1>9. CASE EventBegin(t)
  <2>1. Becomes(t, [f EXCEPT !.at = "filter"]) \/ Becomes(t, [f EXCEPT !.at = "report"]) \/ Returns(t)
    BY <1>2, <1>9 DEF EventBegin
  <2>2. CallsOK'
    BY <1>4, <1>7, <1>8, <2>1
  <2> QED
    BY <1>9, <2>2 DEF EventBegin, EventInv, DataOK
<1>15. CASE EventReport(t)
  <2>1. /\ AppData' = [AppData EXCEPT ![x].EventCount = 1]
        /\ reports' = [reports EXCEPT ![t] = @ + 1]
        /\ BecomesAndCalls(t, [f EXCEPT !.at = "return"], SendEventCall(EVS, "filter"))
    BY <1>2, <1>3, <1>15 DEF EventReport
  <2>2. CallsOK'
    BY <1>4, <1>6, <1>7, <1>8, <2>1
  <2>3. DataOK'
    BY <2>1, DataLemma DEF EventInv, DataOK
  <2> QED
    BY <2>2, <2>3 DEF EventInv
<1>10. CASE EventFilter(t)
  <2>1. PICK at \in Steps, masked \in BOOLEAN :
          Becomes(t, [f EXCEPT !.masked = masked, !.at = at])
    <3> DEFINE c == AppData[x].Count
    <3>1. PICK masked \in BOOLEAN :
            masked = (~AppData[x].RegisterFlag \/ (x \in Filtered /\ c \in Masked))
      OBVIOUS
    <3>2. PICK at \in Steps : at = IF x \in Filtered /\ AppData[x].RegisterFlag /\ c < MaxCount
                                   THEN "count" ELSE "send"
      BY <1>7
    <3> QED
      BY <1>2, <1>3, <1>10, <3>1, <3>2 DEF EventFilter
  <2> QED
    BY <1>4, <1>8, <1>10, <2>1 DEF EventFilter, EventInv, DataOK
<1>11. CASE EventCount(t)
  <2> DEFINE c == Counted(AppData[x].Count)
  <2>1. /\ AppData' = [AppData EXCEPT ![x].Count = c] /\ UNCHANGED reports
        /\ \/ BecomesAndCalls(t, [f EXCEPT !.at = "send"], SendEventCall(EVS, "filter"))
           \/ Becomes(t, [f EXCEPT !.at = "send"])
    BY <1>2, <1>3, <1>11 DEF EventCount
  <2>2. c \in 0 .. MaxCount
    BY CountedLemma DEF EventInv, DataOK, AppDatum
  <2> HIDE DEF c
  <2>3. DataOK'
    BY <2>1, <2>2, DataLemma DEF EventInv, DataOK
  <2>4. CallsOK'
    BY <1>4, <1>6, <1>7, <1>8, <2>1
  <2> QED
    BY <2>3, <2>4 DEF EventInv
<1>12. ASSUME NEW errs \in Outcomes[t], EventSend(t, errs)
       PROVE  EventInv'
  <2>1. SendMsgCall(errs) \in Frame /\ ~IsReport(SendMsgCall(errs))
    BY <1>12, FrameLemma, EventAssumption
  <2> QED
    BY <1>2, <1>4, <1>7, <1>8, <1>12, <2>1 DEF EventSend, EventInv, DataOK
<1>13. CASE EventMasked(t) \/ EventReturn(t)
  BY <1>8, <1>13 DEF EventMasked, EventReturn, EventInv, DataOK
<1>14. CASE EventSent(t)
  BY <1>2, <1>3, <1>8, <1>14, DataLemma DEF EventSent, EventInv, DataOK
<1> QED
  BY <1>9, <1>10, <1>11, <1>12, <1>13, <1>14, <1>15

LEMMA EventInvStep ==
  ASSUME EventInv, [Next]_vars
  PROVE  EventInv'
<1>1. CASE UNCHANGED vars
  BY <1>1 DEF vars, EventInv, CallsOK, DataOK
<1>2. ASSUME NEW t \in Tasks, NEW errs \in Outcomes[t], SendMsg(t, errs)
      PROVE  EventInv'
  <2>1. SendMsgCall(errs) \in Frame /\ ~IsReport(SendMsgCall(errs))
    BY <1>2, FrameLemma, EventAssumption
  <2> QED
    BY <1>2, <2>1, CallsCases DEF SendMsg, EventInv, DataOK
<1>3. ASSUME NEW t \in Tasks, SendEvent(t)
      PROVE  EventInv'
  <2>1. SendEventCall(App, "begin") \in Frame /\ ~IsReport(SendEventCall(App, "begin"))
    BY FrameLemma DEF Ids, Steps
  <2> QED
    BY <1>3, <2>1, CallsCases DEF SendEvent, EventInv, DataOK
<1>4. ASSUME NEW t \in Tasks, Register(t) \/ Unregister(t)
      PROVE  EventInv'
  <2>1. App \in Ids
    BY DEF Ids
  <2>2. CallsOK'
    BY <1>4 DEF Register, Unregister, EventInv, CallsOK
  <2>3. PICK d \in AppDatum : AppData' = [AppData EXCEPT ![App] = d]
    BY <1>4, <2>1, DataLemma DEF Register, Unregister, EventInv
  <2>4. DataOK'
    BY <1>4, <2>1, <2>3, DataLemma DEF Register, Unregister, NoReports, EventInv, DataOK
  <2> QED
    BY <2>2, <2>4 DEF EventInv
<1>5. ASSUME NEW x \in Ids, ResetFilter(x)
      PROVE  EventInv'
  <2>1. 0 \in 0 .. MaxCount
    BY EventAssumption
  <2>2. CallsOK'
    BY <1>5 DEF ResetFilter, EventInv, CallsOK
  <2> QED
    BY <1>5, <2>1, <2>2, DataLemma DEF ResetFilter, EventInv, DataOK
<1>6. ASSUME NEW t \in Tasks, SendMsgReturn(t)
      PROVE  EventInv'
  <2>1. Top(t) \in MsgFrame /\ stack[t] # <<>>
    BY <1>6, InLemma DEF SendMsgReturn, EventInv
  <2>2. ~IsReport(Top(t))
    BY <1>6, <2>1 DEF SendMsgReturn, MsgFrame, IsReport
  <2> QED
    BY <1>6, <2>1, <2>2, CallsCases DEF SendMsgReturn, EventInv, DataOK
<1>7. ASSUME NEW t \in Tasks, RequestToSendEvent(t) \/ FinishSendEvent(t)
      PROVE  EventInv'
  BY <1>7, RequestToSendEventOK, FinishSendEventOK
     DEF RequestToSendEvent, FinishSendEvent, EventInv, DataOK
<1>8. ASSUME NEW t \in Tasks, DeleteTask(t)
      PROVE  EventInv'
  <2>1. <<>> \in Seq(Frame) /\ OncePerKind(<<>>) /\ KindsIn(<<>>) = {}
    BY DEF OncePerKind, KindsIn
  <2>2. /\ t \in Killed /\ stack' = [stack EXCEPT ![t] = <<>>]
        /\ UNCHANGED <<StopRecurseFlags, AppData, reports>>
    BY <1>8 DEF DeleteTask
  <2>3. Index[t] \in 0 .. NumFlags - 1
    BY EventAssumption
  <2> DEFINE flags == StopRecurseFlags[Index[t]]
             n == <<>>
  <2>4. StopRecurseFlags' = [StopRecurseFlags EXCEPT ![Index[t]] = flags] /\ flags \in SUBSET Kinds
    BY <2>2, <2>3 DEF EventInv, CallsOK
  <2>5. StackOK(t, n, flags)
    BY <2>1, <2>2 DEF StackOK
  <2>6. stack' = [stack EXCEPT ![t] = n]
    BY <2>2
  <2> HIDE DEF n, flags
  <2>7. CallsOK'
    BY <2>4, <2>5, <2>6, CallsStep DEF EventInv
  <2> QED
    BY <2>2, <2>7 DEF EventInv, DataOK
<1> QED
  BY <1>1, <1>2, <1>3, <1>4, <1>5, <1>6, <1>7, <1>8, EventStepOK
     DEF Next, TaskStep, Continue

LEMMA EventInit == Init => EventInv
<1> SUFFICES ASSUME Init PROVE EventInv
  OBVIOUS
<1>1. <<>> \in Seq(Frame) /\ OncePerKind(<<>>) /\ KindsIn(<<>>) = {}
  BY DEF OncePerKind, KindsIn
<1>2. CallsOK
  <2>1. \A t \in Tasks : Index[t] \in 0 .. NumFlags - 1
    BY EventAssumption
  <2>2. \A t \in Tasks : StackOK(t, stack[t], StopRecurseFlags[Index[t]])
    BY <1>1, <2>1 DEF Init, StackOK
  <2> QED
    BY <1>1, <2>2 DEF Init, CallsOK
<1>3. DataOK
  <2>1. 0 \in 0 .. MaxCount
    BY EventAssumption
  <2>2. ASSUME NEW x \in Ids
        PROVE  [NoData EXCEPT !.RegisterFlag = x # App,
                              !.EventCount = IF x = App THEN 0 ELSE 1] \in AppDatum
    BY <2>1 DEF NoData, AppDatum
  <2> QED
    BY <2>2 DEF Init, DataOK, NoReports
<1> QED
  BY <1>2, <1>3 DEF EventInv

(* The frames and flags are well-formed through every step.                 *)
THEOREM EventInvariance == Spec => []EventInv
BY EventInit, EventInvStep, PTL DEF Spec

(* The recursion of CFE_SB_SendMsg and CFE_EVS_SendEvent is cut off at each *)
(* kind of error and only while that kind is being reported, for every      *)
(* number of tasks and kinds and every sequence of errors a send may meet.  *)
THEOREM RecursionIsGuarded == Spec => []RecursionGuarded
<1>1. ASSUME EventInv PROVE RecursionGuarded
  <2>1. TypeOK
    <3>1. \A t \in Tasks : \A i \in DOMAIN stack[t] : stack[t][i] \in Frame
      BY <1>1, LenProperties, ElementOfSeq DEF EventInv, CallsOK
    <3>2. \A f \in Frame : \/ /\ f.fn = "SendMsg" /\ f.errs \in Seq(Kinds)
                              /\ f.kind \in Kinds \cup {NULL}
                           \/ f \in EventFrame
      BY DEF Frame, MsgFrame
    <3> QED
      BY <1>1, <3>1, <3>2 DEF TypeOK, EventInv, CallsOK, DataOK, AppDatum, EventFrame
  <2>2. RecursionBounded
    BY <1>1 DEF RecursionBounded, Reporting, EventInv, CallsOK, StackOK, OncePerKind, IsReport
  <2>3. \A t \in Tasks : {stack[t][i].kind : i \in Reporting(t)} = KindsIn(stack[t])
    BY DEF KindsIn, Reporting, IsReport
  <2>4. FlagsMatchCalls
    BY <1>1, <2>3 DEF FlagsMatchCalls, EventInv, CallsOK, StackOK
  <2> QED
    BY <2>1, <2>2, <2>4 DEF RecursionGuarded
<1> QED
  BY <1>1, EventInvariance, PTL

-----------------------------------------------------------------------------
(* An application that is not registered *)

LEMMA RegisteredStep ==
  ASSUME EventInv, RegisteredOK, AboutToReport, [Next]_vars
  PROVE  RegisteredOK'
<1>1. App # SB /\ App # EVS /\ SB # EVS /\ {App, SB, EVS} \subseteq Ids
  BY EventAssumption DEF Ids
<1>2. \A x \in Ids : AppData[x] \in AppDatum
  BY DEF EventInv, DataOK
<1>3. CASE UNCHANGED <<AppData, reports>>
  BY <1>3 DEF RegisteredOK
<1>4. ASSUME NEW x \in Ids, NEW d, AppData' = [AppData EXCEPT ![x] = d]
      PROVE  \A y \in Ids : AppData'[y] = IF y = x THEN d ELSE AppData[y]
  BY <1>4 DEF EventInv, DataOK
<1>5. ASSUME NEW x \in Ids, NEW c, AppData' = [AppData EXCEPT ![x].Count = c],
             UNCHANGED reports
      PROVE  RegisteredOK'
  <2> DEFINE d == [AppData[x] EXCEPT !.Count = c]
  <2>1. d.RegisterFlag = AppData[x].RegisterFlag /\ d.EventCount = AppData[x].EventCount
    BY <1>2 DEF AppDatum
  <2>2. AppData' = [AppData EXCEPT ![x] = d]
    BY <1>5
  <2> HIDE DEF d
  <2>3. \A y \in Ids : /\ AppData'[y].RegisterFlag = AppData[y].RegisterFlag
                       /\ AppData'[y].EventCount = AppData[y].EventCount
    BY <1>4, <2>1, <2>2
  <2> QED
    BY <1>1, <1>5, <2>3 DEF RegisteredOK
<1>6. ASSUME NEW x \in Ids, AppData' = [AppData EXCEPT ![x].EventCount = 1],
             \/ UNCHANGED reports
             \/ x = App /\ \E t \in Tasks : /\ reports[t] = 0
                                         /\ reports' = [reports EXCEPT ![t] = @ + 1]
      PROVE  RegisteredOK'
  <2> DEFINE d == [AppData[x] EXCEPT !.EventCount = 1]
  <2>1. d.RegisterFlag = AppData[x].RegisterFlag /\ d.EventCount = 1
    BY <1>2 DEF AppDatum
  <2>2. AppData' = [AppData EXCEPT ![x] = d]
    BY <1>6
  <2> HIDE DEF d
  <2>3. \A y \in Ids : /\ AppData'[y].RegisterFlag = AppData[y].RegisterFlag
                       /\ AppData'[y].EventCount = IF y = x THEN 1 ELSE AppData[y].EventCount
    <3>1. \A y \in Ids : AppData'[y] = IF y = x THEN d ELSE AppData[y]
      BY <1>4, <2>2
    <3> QED
      BY <2>1, <3>1
  <2>4. CASE UNCHANGED reports
    BY <1>1, <2>3, <2>4 DEF RegisteredOK
  <2>5. CASE x = App /\ \E t \in Tasks : /\ reports[t] = 0
                                          /\ reports' = [reports EXCEPT ![t] = @ + 1]
    <3>1. AppData'[App].EventCount = 1 /\ \A u \in Tasks : reports'[u] \in {0, 1}
      BY <1>1, <2>3, <2>5 DEF RegisteredOK, EventInv, DataOK
    <3> QED
      BY <1>1, <2>3, <3>1 DEF RegisteredOK
  <2> QED
    BY <1>6, <2>4, <2>5
<1>7. ASSUME NEW t \in Tasks, Register(t) \/ Unregister(t)
      PROVE  RegisteredOK'
  <2>1. PICK d : AppData' = [AppData EXCEPT ![App] = d] /\ reports' = NoReports
    BY <1>7 DEF Register, Unregister
  <2>2. AppData'[SB] = AppData[SB] /\ AppData'[EVS] = AppData[EVS]
    BY <1>1, <1>4, <2>1
  <2> QED
    BY <2>1, <2>2 DEF RegisteredOK, NoReports
<1>8. ASSUME NEW x \in Ids, ResetFilter(x) PROVE RegisteredOK'
  BY <1>5, <1>8 DEF ResetFilter
<1>9. ASSUME NEW t \in Tasks, In(t, "SendEvent") PROVE Top(t).id \in Ids
  BY <1>9, InLemma DEF EventInv, EventFrame
<1>10. ASSUME NEW t \in Tasks, EventReport(t) PROVE RegisteredOK'
  <2>1. Top(t).id \in Ids
    BY <1>9, <1>10 DEF EventReport, At
  <2> QED
    BY <1>6, <1>10, <2>1 DEF EventReport, AboutToReport
<1>11. ASSUME NEW t \in Tasks, EventCount(t) PROVE RegisteredOK'
  <2>1. Top(t).id \in Ids
    BY <1>9, <1>11 DEF EventCount, At
  <2> QED
    BY <1>5, <1>11, <2>1 DEF EventCount
<1>12. ASSUME NEW t \in Tasks, EventSent(t) PROVE RegisteredOK'
  <2>1. Top(t).id \in Ids
    BY <1>9, <1>12 DEF EventSent, At
  <2> QED
    BY <1>6, <1>12, <2>1 DEF EventSent
<1> QED
  BY <1>3, <1>7, <1>8, <1>10, <1>11, <1>12
     DEF vars, Next, TaskStep, Continue, SendMsg, SendEvent, RequestToSendEvent,
         FinishSendEvent, SendMsgReturn, EventBegin, EventFilter, EventSend, EventMasked, EventReturn,
         DeleteTask

(* What the ways a stack changes do to the frames below the top.            *)
LEMMA ReportStack ==
  ASSUME CallsOK, AboutToReport, NEW t \in Tasks
  PROVE  /\ \A c \in Frame : stack[t] = <<>> /\ Calls(t, c) =>
              stack'[t] # <<>> /\ Head(stack'[t]) = c /\ NoReportIn(Tail(stack'[t]))
         /\ stack[t] # <<>> =>
              /\ Returns(t) /\ stack'[t] # <<>> =>
                   /\ NoReportIn(Tail(stack'[t]))
                   /\ Head(stack'[t]).fn = "SendEvent" => Head(stack'[t]).at # "report"
              /\ \A f \in Frame : Becomes(t, f) =>
                   Head(stack'[t]) = f /\ NoReportIn(Tail(stack'[t]))
              /\ \A f, c \in Frame :
                   /\ f.fn = "SendEvent" => f.at # "report"
                   /\ BecomesAndCalls(t, f, c)
                   => Head(stack'[t]) = c /\ NoReportIn(Tail(stack'[t]))
<1> DEFINE s == stack[t]
           r == Tail(s)
<1>1. s \in Seq(Frame) /\ stack \in [Tasks -> Seq(Frame)]
  BY DEF CallsOK
<1>2. ASSUME NEW q \in Seq(Frame), NEW f \in Frame
      PROVE  LET n == <<f>> \o q
             IN /\ Head(n) = f /\ Tail(n) = q /\ n # <<>>
                /\ NoReportIn(n) <=> NoReportIn(q) /\ (f.fn = "SendEvent" => f.at # "report")
  <2> DEFINE n == <<f>> \o q
  <2>1. Head(n) = f /\ Tail(n) = q /\ n # <<>>
    BY PushLemma
  <2>2. Len(q) \in Nat /\ DOMAIN n = 1 .. Len(q) + 1 /\ DOMAIN q = 1 .. Len(q)
    BY LenProperties
  <2>3. n[1] = f /\ 1 \in DOMAIN n /\ \A i \in DOMAIN q : i + 1 \in DOMAIN n /\ n[i + 1] = q[i]
    BY <2>2
  <2>4. \A i \in DOMAIN n : i = 1 \/ (i - 1 \in DOMAIN q /\ n[i] = q[i - 1])
    BY <2>2
  <2> HIDE DEF n
  <2>5. NoReportIn(n) <=> NoReportIn(q) /\ (f.fn = "SendEvent" => f.at # "report")
    BY <2>3, <2>4 DEF NoReportIn
  <2> QED
    BY <2>1, <2>5 DEF n
<1>3. ASSUME NEW c \in Frame, s = <<>>, Calls(t, c)
      PROVE  stack'[t] # <<>> /\ Head(stack'[t]) = c /\ NoReportIn(Tail(stack'[t]))
  <2>1. stack'[t] = <<c>> \o s
    BY <1>1, <1>3 DEF Calls
  <2>2. stack'[t] # <<>> /\ Head(stack'[t]) = c /\ Tail(stack'[t]) = s
    BY <1>1, <1>2, <1>3, <2>1
  <2>3. NoReportIn(<<>>)
    BY DEF NoReportIn
  <2> QED
    BY <1>3, <2>2, <2>3
<1>4. ASSUME s # <<>>
      PROVE  r \in Seq(Frame) /\ NoReportIn(r)
  BY <1>1, <1>4, TopLemma DEF AboutToReport
<1>5. ASSUME s # <<>>, Returns(t), stack'[t] # <<>>
      PROVE  /\ NoReportIn(Tail(stack'[t]))
             /\ Head(stack'[t]).fn = "SendEvent" => Head(stack'[t]).at # "report"
  <2>1. stack'[t] = r
    BY <1>1, <1>5 DEF Returns
  <2>2. r \in Seq(Frame) /\ NoReportIn(r) /\ r # <<>>
    BY <1>4, <1>5, <2>1
  <2> HIDE DEF r
  <2>3. Head(r) \in Frame /\ Tail(r) \in Seq(Frame) /\ r = <<Head(r)>> \o Tail(r)
    BY <2>2, TopLemma
  <2>4. NoReportIn(<<Head(r)>> \o Tail(r)) <=>
          NoReportIn(Tail(r)) /\ (Head(r).fn = "SendEvent" => Head(r).at # "report")
    BY <1>2, <2>3
  <2> QED
    BY <2>1, <2>2, <2>3, <2>4
<1>6. ASSUME s # <<>>, NEW f \in Frame, Becomes(t, f)
      PROVE  Head(stack'[t]) = f /\ NoReportIn(Tail(stack'[t]))
  <2>1. stack'[t] = <<f>> \o r
    BY <1>1, <1>6 DEF Becomes
  <2> HIDE DEF r
  <2>2. Head(stack'[t]) = f /\ Tail(stack'[t]) = r
    BY <1>2, <1>4, <1>6, <2>1
  <2> QED
    BY <1>4, <1>6, <2>2
<1>7. ASSUME s # <<>>, NEW f \in Frame, NEW c \in Frame, BecomesAndCalls(t, f, c),
             f.fn = "SendEvent" => f.at # "report"
      PROVE  Head(stack'[t]) = c /\ NoReportIn(Tail(stack'[t]))
  <2> DEFINE n == <<f>> \o r
  <2>1. stack'[t] = <<c>> \o n
    <3>1. <<c, f>> \o r = <<c>> \o (<<f>> \o r)
      BY <1>4, <1>7
    <3> QED
      BY <1>1, <1>7, <3>1 DEF BecomesAndCalls
  <2> HIDE DEF r
  <2>2. n \in Seq(Frame) /\ NoReportIn(n)
    BY <1>2, <1>4, <1>7, PushLemma
  <2> HIDE DEF n
  <2>3. Head(stack'[t]) = c /\ Tail(stack'[t]) = n
    BY <1>2, <2>1, <2>2
  <2> QED
    BY <2>2, <2>3
<1> QED
  BY <1>3, <1>5, <1>6, <1>7

(* What a task's step means for the report it may be about to make.         *)
LEMMA ReportTask ==
  ASSUME EventInv, RegisteredOK, AboutToReport, NEW t \in Tasks, TaskStep(t)
  PROVE  /\ stack'[t] # <<>> => NoReportIn(Tail(stack'[t]))
         /\ At(t, "report")' => /\ UNCHANGED reports
                                /\ Head(stack'[t]).id = App
                                /\ AppData[App].EventCount = 0
<1> USE DEF EventInv
<1>1. ASSUME NEW c \in Frame, stack[t] = <<>>, Calls(t, c), ~(c.fn = "SendEvent" /\ c.at = "report")
      PROVE  NoReportIn(Tail(stack'[t])) /\ ~At(t, "report")'
  BY <1>1, ReportStack DEF At, In, Top
<1>2. ASSUME stack[t] # <<>>, Returns(t)
      PROVE  (stack'[t] # <<>> => NoReportIn(Tail(stack'[t]))) /\ ~At(t, "report")'
  BY <1>2, ReportStack DEF At, In, Top
<1>3. ASSUME stack[t] # <<>>, NEW f \in Frame, Becomes(t, f)
      PROVE  /\ NoReportIn(Tail(stack'[t]))
             /\ At(t, "report")' => f.fn = "SendEvent" /\ f.at = "report" /\ Head(stack'[t]) = f
  BY <1>3, ReportStack DEF At, In, Top
<1>4. ASSUME stack[t] # <<>>, NEW f \in Frame, NEW c \in Frame, BecomesAndCalls(t, f, c),
             ~(f.fn = "SendEvent" /\ f.at = "report"), ~(c.fn = "SendEvent" /\ c.at = "report")
      PROVE  NoReportIn(Tail(stack'[t])) /\ ~At(t, "report")'
  BY <1>4, ReportStack DEF At, In, Top
<1>5. /\ \A errs \in Seq(Kinds) : SendMsgCall(errs) \in Frame /\ SendMsgCall(errs).fn = "SendMsg"
      /\ \A x \in Ids, step \in Steps : /\ SendEventCall(x, step) \in Frame
                                        /\ SendEventCall(x, step).at = step
  BY FrameLemma DEF SendMsgCall, SendEventCall
<1>6. {"begin", "filter", "count", "send", "sent", "return"} \subseteq Steps /\ {App, SB, EVS} = Ids
  BY DEF Steps, Ids
<1>7. Outcomes[t] \subseteq Seq(Kinds)
  BY EventAssumption
<1>8. CASE \E errs \in Outcomes[t] : SendMsg(t, errs)
  BY <1>1, <1>5, <1>7, <1>8 DEF SendMsg, MayCall
<1>9. CASE SendEvent(t)
  BY <1>1, <1>5, <1>6, <1>9 DEF SendEvent, MayCall
<1>10. CASE Register(t) \/ Unregister(t)
  BY <1>10 DEF Register, Unregister, MayCall, At, In
<1>11. CASE RequestToSendEvent(t) \/ FinishSendEvent(t) \/ SendMsgReturn(t)
  <2>1. PICK f \in MsgFrame : f = Top(t) /\ stack[t] # <<>>
    BY <1>11, InLemma DEF RequestToSendEvent, FinishSendEvent, SendMsgReturn
  <2>2. CASE SendMsgReturn(t)
    BY <1>2, <2>1, <2>2 DEF SendMsgReturn
  <2>3. CASE RequestToSendEvent(t)
    <3>1. f.errs \in Seq(Kinds) /\ f.errs # <<>> /\ f.kind = NULL
      BY <2>1, <2>3 DEF RequestToSendEvent, MsgFrame
    <3>2. Head(f.errs) \in Kinds /\ Tail(f.errs) \in Seq(Kinds)
      BY <3>1, HeadTailProperties
    <3> DEFINE g == [f EXCEPT !.errs = Tail(f.errs)]
               h == [f EXCEPT !.kind = Head(f.errs)]
               c == SendEventCall(SB, "begin")
    <3>3. g \in Frame /\ g.fn = "SendMsg" /\ h \in Frame /\ h.fn = "SendMsg"
      BY <2>1, <3>1, <3>2 DEF Frame, MsgFrame
    <3>4. c \in Frame /\ c.at # "report"
      BY <1>5, <1>6
    <3>5. Becomes(t, g) \/ BecomesAndCalls(t, h, c)
      BY <2>1, <2>3 DEF RequestToSendEvent
    <3> HIDE DEF g, h, c
    <3> QED
      BY <1>3, <1>4, <2>1, <3>3, <3>4, <3>5
  <2>4. CASE FinishSendEvent(t)
    <3> DEFINE g == [f EXCEPT !.kind = NULL, !.errs = LaterErrs(f.errs)]
    <3>1. f.errs \in Seq(Kinds) /\ f.errs # <<>>
      BY <2>1, <2>4 DEF FinishSendEvent, MsgFrame
    <3>2. LaterErrs(f.errs) \in Seq(Kinds)
      BY <3>1, HeadTailProperties DEF LaterErrs
    <3>3. g \in Frame /\ g.fn = "SendMsg"
      BY <2>1, <3>2 DEF Frame, MsgFrame
    <3>4. Becomes(t, g)
      BY <2>1, <2>4 DEF FinishSendEvent
    <3> HIDE DEF g
    <3> QED
      BY <1>3, <2>1, <3>3, <3>4
  <2> QED
    BY <1>11, <2>2, <2>3, <2>4
<1>12. CASE In(t, "SendEvent")
  <2>1. PICK f \in EventFrame : f = Top(t) /\ stack[t] # <<>>
    BY <1>12, InLemma
  <2>2. ASSUME NEW at \in Steps, NEW masked \in BOOLEAN
        PROVE  /\ [f EXCEPT !.at = at] \in Frame /\ [f EXCEPT !.at = at].at = at
               /\ [f EXCEPT !.masked = masked, !.at = at] \in Frame
               /\ [f EXCEPT !.masked = masked, !.at = at].at = at
               /\ [f EXCEPT !.masked = masked, !.at = at].id = f.id
    BY <2>1 DEF EventFrame, Frame
  <2>3. CASE EventBegin(t)
    <3>1. ASSUME Becomes(t, [f EXCEPT !.at = "filter"])
          PROVE  NoReportIn(Tail(stack'[t])) /\ ~At(t, "report")'
      BY <1>3, <1>6, <2>1, <2>2, <3>1
    <3>2. ASSUME Becomes(t, [f EXCEPT !.at = "report"]), ~AppData[f.id].RegisterFlag, NotReported(f.id)
          PROVE  /\ NoReportIn(Tail(stack'[t])) /\ Head(stack'[t]).id = App
                 /\ AppData[App].EventCount = 0
      <4> DEFINE g == [f EXCEPT !.at = "report"]
      <4>1. g \in Frame /\ g.id = f.id
        BY <2>1, <2>2 DEF Steps, EventFrame
      <4>2. f.id = App
        BY <2>1, <3>2 DEF EventFrame, Ids, RegisteredOK
      <4>3. NoReportIn(Tail(stack'[t])) /\ Head(stack'[t]) = g
        BY <2>1, <3>2, <4>1, ReportStack
      <4> QED
        BY <3>2, <4>1, <4>2, <4>3 DEF NotReported
    <3>3. ASSUME Returns(t)
          PROVE  (stack'[t] # <<>> => NoReportIn(Tail(stack'[t]))) /\ ~At(t, "report")'
      BY <1>2, <2>1, <3>3
    <3>4. \/ Becomes(t, [f EXCEPT !.at = "filter"]) \/ Returns(t)
          \/ /\ Becomes(t, [f EXCEPT !.at = "report"])
             /\ ~AppData[f.id].RegisterFlag /\ NotReported(f.id)
      BY <2>1, <2>3 DEF EventBegin
    <3> QED
      BY <2>3, <3>1, <3>2, <3>3, <3>4 DEF EventBegin
  <2>8. CASE EventReport(t)
    <3>1. BecomesAndCalls(t, [f EXCEPT !.at = "return"], SendEventCall(EVS, "filter"))
      BY <2>1, <2>8 DEF EventReport
    <3> QED
      BY <1>4, <1>5, <1>6, <2>1, <2>2, <3>1
  <2>4. CASE EventFilter(t)
    <3>1. PICK at \in {"count", "send"}, masked \in BOOLEAN :
            Becomes(t, [f EXCEPT !.masked = masked, !.at = at])
      <4> DEFINE x == f.id
                 c == AppData[x].Count
      <4>1. PICK masked \in BOOLEAN :
              masked = (~AppData[x].RegisterFlag \/ (x \in Filtered /\ c \in Masked))
        OBVIOUS
      <4>2. PICK at \in {"count", "send"} :
              at = IF x \in Filtered /\ AppData[x].RegisterFlag /\ c < MaxCount
                   THEN "count" ELSE "send"
        OBVIOUS
      <4> QED
        BY <2>1, <2>4, <4>1, <4>2 DEF EventFilter
    <3> DEFINE g == [f EXCEPT !.masked = masked, !.at = at]
    <3>2. g \in Frame /\ g.at = at /\ at # "report"
      BY <1>6, <2>2
    <3> HIDE DEF g
    <3>3. NoReportIn(Tail(stack'[t])) /\ ~At(t, "report")'
      BY <1>3, <2>1, <3>1, <3>2 DEF g
    <3> QED
      BY <3>3
  <2>5. CASE EventCount(t)
    <3>1. ASSUME Becomes(t, [f EXCEPT !.at = "send"])
          PROVE  NoReportIn(Tail(stack'[t])) /\ ~At(t, "report")'
      BY <1>3, <1>6, <2>1, <2>2, <3>1
    <3>2. ASSUME BecomesAndCalls(t, [f EXCEPT !.at = "send"], SendEventCall(EVS, "filter"))
          PROVE  NoReportIn(Tail(stack'[t])) /\ ~At(t, "report")'
      BY <1>4, <1>5, <1>6, <2>1, <2>2, <3>2
    <3> QED
      BY <2>1, <2>5, <3>1, <3>2 DEF EventCount
  <2>6. ASSUME NEW errs \in Outcomes[t], EventSend(t, errs)
        PROVE  NoReportIn(Tail(stack'[t])) /\ ~At(t, "report")'
    <3>1. BecomesAndCalls(t, [f EXCEPT !.at = "sent"], SendMsgCall(errs))
      BY <2>1, <2>6 DEF EventSend
    <3> QED
      BY <1>4, <1>5, <1>6, <1>7, <2>1, <2>2, <2>6, <3>1
  <2>7. CASE EventMasked(t) \/ EventSent(t) \/ EventReturn(t)
    BY <1>2, <2>1, <2>7 DEF EventMasked, EventSent, EventReturn
  <2> QED
    BY <1>8, <1>9, <1>10, <1>11, <2>3, <2>4, <2>5, <2>6, <2>7, <2>8 DEF TaskStep, Continue
<1> QED
  BY <1>8, <1>9, <1>10, <1>11, <1>12
     DEF TaskStep, Continue, EventBegin, EventReport, EventFilter, EventCount, EventSend, EventMasked,
         EventSent, EventReturn, At

LEMMA OthersStay ==
  ASSUME CallsOK, NEW t \in Tasks, TaskStep(t) \/ DeleteTask(t)
  PROVE  \A u \in Tasks \ {t} : stack'[u] = stack[u]
<1>1. UNCHANGED stack \/ \E n : stack' = [stack EXCEPT ![t] = n]
  <2>1. \A f, c : Calls(t, c) \/ Becomes(t, f) \/ Returns(t) \/ BecomesAndCalls(t, f, c) =>
                    \E n : stack' = [stack EXCEPT ![t] = n]
    BY DEF Calls, Becomes, Returns, BecomesAndCalls
  <2> QED
    BY <2>1 DEF TaskStep, Continue, SendMsg, SendEvent, Register, Unregister, DeleteTask,
         RequestToSendEvent, FinishSendEvent, SendMsgReturn, EventBegin, EventReport, EventFilter,
         EventCount, EventSend, EventMasked, EventSent, EventReturn
<1> QED
  BY <1>1 DEF CallsOK

LEMMA AboutToReportStep ==
  ASSUME EventInv, RegisteredOK, AboutToReport, [Next]_vars
  PROVE  AboutToReport'
<1>1. CASE UNCHANGED vars
  BY <1>1 DEF vars, AboutToReport, At, In, Top
<1>2. ASSUME NEW t \in Tasks, TaskStep(t)
      PROVE  AboutToReport'
  <2>1. \A u \in Tasks \ {t} : stack'[u] = stack[u] /\ reports'[u] \in {0, reports[u]}
    <3>1. \A u \in Tasks \ {t} : reports'[u] \in {0, reports[u]}
      BY <1>2 DEF TaskStep, Continue, SendMsg, SendEvent, Register, Unregister, NoReports,
           RequestToSendEvent, FinishSendEvent, SendMsgReturn, EventBegin, EventReport,
           EventFilter, EventCount, EventSend, EventMasked, EventSent, EventReturn,
           EventInv, DataOK
    <3> QED
      BY <1>2, <3>1, OthersStay DEF EventInv
  <2>2. /\ stack'[t] # <<>> => NoReportIn(Tail(stack'[t]))
        /\ At(t, "report")' => /\ UNCHANGED reports
                               /\ Head(stack'[t]).id = App
                               /\ AppData[App].EventCount = 0
    BY <1>2, ReportTask
  <2>3. At(t, "report")' => reports'[t] = 0
    BY <2>2 DEF RegisteredOK
  <2>4. \A u \in Tasks \ {t} : At(u, "report")' <=> At(u, "report")
    BY <2>1 DEF At, In, Top
  <2> QED
    BY <2>1, <2>2, <2>3, <2>4 DEF AboutToReport, Top
<1>3. ASSUME NEW x \in Ids, ResetFilter(x)
      PROVE  AboutToReport'
  BY <1>3 DEF ResetFilter, AboutToReport, At, In, Top
<1>4. ASSUME NEW t \in Tasks, DeleteTask(t)
      PROVE  AboutToReport'
  <2>1. stack'[t] = <<>> /\ \A u \in Tasks \ {t} : stack'[u] = stack[u]
    BY <1>4, OthersStay DEF DeleteTask, EventInv, CallsOK
  <2>2. ~At(t, "report")' /\ \A u \in Tasks \ {t} : At(u, "report")' <=> At(u, "report")
    BY <2>1 DEF At, In, Top
  <2>3. UNCHANGED reports
    BY <1>4 DEF DeleteTask
  <2> QED
    BY <2>1, <2>2, <2>3 DEF AboutToReport, Top
<1> QED
  BY <1>1, <1>2, <1>3, <1>4 DEF Next

(* Each task reports an application that is not registered at most once     *)
(* until EVS_NotRegistered's EventCount is cleared, whatever its calls run  *)
(* into and however its tasks overlap between the test of EventCount and    *)
(* its increment.                                                           *)
THEOREM NotRegisteredReportedOnce == Spec => []ReportedOnce
<1>1. Init => RegisteredOK /\ AboutToReport
  <2>1. ASSUME Init PROVE AppData[SB].RegisterFlag /\ AppData[EVS].RegisterFlag
    BY <2>1, EventAssumption DEF Init, NoData, Ids
  <2>2. ASSUME Init PROVE AboutToReport
    BY <2>2 DEF AboutToReport, Init, At, In
  <2> QED
    BY <2>1, <2>2 DEF RegisteredOK, Init, NoReports
<1>2. EventInv /\ RegisteredOK /\ AboutToReport /\ [Next]_vars => RegisteredOK' /\ AboutToReport'
  BY RegisteredStep, AboutToReportStep
<1>3. RegisteredOK => ReportedOnce
  BY DEF RegisteredOK, ReportedOnce
<1> QED
  BY <1>1, <1>2, <1>3, EventInvariance, PTL DEF Spec
=============================================================================

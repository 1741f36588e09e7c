----------------------- MODULE MonitorExecutionProofs -----------------------
(***************************************************************************)
(* Proofs about MonitorExecution, for any sets of monitors, items, calls   *)
(* and requests and any number of executions.                              *)
(***************************************************************************)
EXTENDS MonitorExecution, TLAPS

\* The transition operators stay within their types.
LEMMA EventOfType ==
  ASSUME NEW s, NEW b, NEW p
  PROVE  EventOf(s, b, p) \in Event
BY DEF EventOf, Event

LEMMA FlipOfType ==
  ASSUME NEW t, NEW b
  PROVE  FlipOf(t, b) \in Event
BY DEF FlipOf, Event

LEMMA ActiveAfterType ==
  ASSUME NEW s, NEW b \in BOOLEAN
  PROVE  ActiveAfter(s, b) \in BOOLEAN
BY DEF ActiveAfter

LEMMA WrittenType ==
  ASSUME NEW page \in MonitorLedger!Page, NEW e \in Event
  PROVE  MonitorLedger!Written(page, e) \in MonitorLedger!Page
BY DEF MonitorLedger!Written, MonitorLedger!Page, Event

LEMMA TrendWrittenType ==
  ASSUME NEW page \in TrendLedger!Page, NEW e \in Event
  PROVE  TrendLedger!Written(page, e) \in TrendLedger!Page
BY DEF TrendLedger!Written, TrendLedger!Page, Event

LEMMA ReopenedType ==
  /\ \A page \in MonitorLedger!Page :
       [page EXCEPT !.reopened = TRUE] \in MonitorLedger!Page
  /\ \A page \in TrendLedger!Page :
       [page EXCEPT !.reopened = TRUE] \in TrendLedger!Page
BY DEF MonitorLedger!Page, TrendLedger!Page

\* So do the updates of a call's record.
LEMMA NoCallType == NoCall \in CallRecord
BY DEF NoCall, CallRecord, Phases, Policies, Trivalent, Event

LEMMA PhaseUpdate ==
  ASSUME NEW r \in CallRecord, NEW p \in Phases
  PROVE  [r EXCEPT !.pc = p] \in CallRecord
BY DEF CallRecord

LEMMA AskingType ==
  ASSUME NEW m \in Monitors, NEW p \in Phases
  PROVE  Asking(m, p) \in CallRecord
BY NoCallType DEF Asking, CallRecord

LEMMA LoadUpdate ==
  ASSUME NEW r \in CallRecord, NEW p \in Policies, NEW b \in BOOLEAN
  PROVE  [r EXCEPT !.pc = "executing", !.policy = p, !.active = b]
           \in CallRecord
<1>1. "executing" \in Phases
  BY DEF Phases
<1>2. QED
  BY <1>1 DEF CallRecord

LEMMA ExecuteUpdate ==
  ASSUME NEW r \in CallRecord, NEW s \in Trivalent, NEW n \in Nat
  PROVE  [r EXCEPT !.pc = "evaluating", !.state = s, !.record = n]
           \in CallRecord
<1>1. "evaluating" \in Phases
  BY DEF Phases
<1>2. QED
  BY <1>1 DEF CallRecord

LEMMA BoardUpdate ==
  ASSUME NEW r \in CallRecord, NEW J \in SUBSET Items,
         NEW v \in [Items -> BOOLEAN], NEW f \in [Items -> Event]
  PROVE  [r EXCEPT !.pc = "committing", !.judged = J, !.verdict = v,
                   !.flip = f] \in CallRecord
<1>1. "committing" \in Phases
  BY DEF Phases
<1>2. QED
  BY <1>1 DEF CallRecord

LEMMA NoRequestType == NoRequest \in RequestRecord
BY DEF NoRequest, RequestRecord, Policies

-----------------------------------------------------------------------------
(* Type correctness, action by action. *)

LEMMA ReturnType ==
  ASSUME TypeOK, NEW c \in Calls, Return(c)
  PROVE  /\ call' \in [Calls -> CallRecord]
         /\ holder' \in [Monitors -> Calls \cup {Nobody}]
BY NoCallType DEF TypeOK, Return

LEMMA ForgetType ==
  ASSUME TypeOK, NEW ms, NEW is, Forget(ms, is)
  PROVE  /\ book' \in [Monitors -> MonitorLedger!Page]
         /\ trend' \in [Items -> TrendLedger!Page]
<1>1. /\ book \in [Monitors -> MonitorLedger!Page]
      /\ trend \in [Items -> TrendLedger!Page]
  BY DEF TypeOK
<1>2. QED
  BY <1>1, ReopenedType DEF Forget

LEMMA StartType ==
  ASSUME TypeOK, NEW c \in Calls, NEW m \in Monitors, Run(c, m) \/ TryRun(c, m)
  PROVE  TypeOK'
<1>1. Asking(m, "waiting") \in CallRecord /\ Asking(m, "locked") \in CallRecord
  BY AskingType DEF Phases
<1>2. CASE Run(c, m)
  BY <1>1, <1>2 DEF TypeOK, Run, tables, history
<1>3. CASE TryRun(c, m)
  BY <1>1, <1>3 DEF TypeOK, TryRun, tables, history
<1>4. QED
  BY <1>2, <1>3

LEMMA AcquireType ==
  ASSUME TypeOK, NEW c \in Calls, Acquire(c)
  PROVE  TypeOK'
<1>1. call[c] \in CallRecord
  BY DEF TypeOK
<1>2. [call[c] EXCEPT !.pc = "locked"] \in CallRecord
  BY <1>1, PhaseUpdate DEF Phases
<1>3. QED
  BY <1>2 DEF TypeOK, Acquire, tables, history

LEMMA LoadType ==
  ASSUME TypeOK, NEW c \in Calls, LoadFails(c) \/ Load(c)
  PROVE  TypeOK'
<1>1. CASE LoadFails(c)
  BY <1>1, ReturnType DEF TypeOK, LoadFails, tables, history
<1>2. CASE Load(c)
  <2>1. /\ call[c] \in CallRecord
        /\ policy[call[c].monitor] \in Policies
        /\ active[call[c].monitor] \in BOOLEAN
    BY <1>2 DEF TypeOK, Load
  <2>2. [call[c] EXCEPT !.pc = "executing",
                        !.policy = policy[call[c].monitor],
                        !.active = active[call[c].monitor]] \in CallRecord
    BY <2>1, LoadUpdate
  <2>3. QED
    BY <1>2, <2>2 DEF TypeOK, Load, tables, history
<1>3. QED
  BY <1>1, <1>2

LEMMA ExecuteType ==
  ASSUME TypeOK, NEW c \in Calls, NEW s \in Trivalent, Execute(c, s)
  PROVE  TypeOK'
<1>1. call[c] \in CallRecord /\ nextRecord \in Nat
  BY DEF TypeOK
<1>2. [call[c] EXCEPT !.pc = "evaluating", !.state = s,
                      !.record = nextRecord] \in CallRecord
  BY <1>1, ExecuteUpdate
<1>3. QED
  BY <1>2 DEF TypeOK, Execute, tables, history

LEMMA EvaluateBoardType ==
  ASSUME TypeOK, NEW c \in Calls, EvaluateBoard(c) \/ EvaluateBoardFails(c)
  PROVE  TypeOK'
<1>1. call[c] \in CallRecord
  BY DEF TypeOK
<1>2. CASE EvaluateBoard(c)
  <2> DEFINE mine == {i \in items : owner[i] = call[c].monitor /\ enabled[i]}
             verdict(t) == [i \in Items |->
                  i \in mine /\ ActiveAfter(t[i], ruleActive[i])]
             flip(t) == [i \in Items |->
                  IF i \in mine THEN FlipOf(t[i], ruleActive[i]) ELSE "none"]
  <2>1. PICK t \in [mine -> Trivalent] :
          call' = [call EXCEPT ![c] =
             [@ EXCEPT !.pc = "committing", !.judged = mine,
                       !.verdict = verdict(t), !.flip = flip(t)]]
    BY <1>2 DEF EvaluateBoard
  <2>2. mine \in SUBSET Items
    BY DEF TypeOK
  <2>3. verdict(t) \in [Items -> BOOLEAN]
    BY ActiveAfterType DEF TypeOK
  <2>4. flip(t) \in [Items -> Event]
    BY FlipOfType DEF Event
  <2> HIDE DEF mine, verdict, flip
  <2>5. [call[c] EXCEPT !.pc = "committing", !.judged = mine,
                        !.verdict = verdict(t), !.flip = flip(t)]
          \in CallRecord
    BY <1>1, <2>2, <2>3, <2>4, BoardUpdate
  <2>6. call' \in [Calls -> CallRecord]
    BY <2>1, <2>5 DEF TypeOK
  <2>7. QED
    BY <1>2, <2>6 DEF TypeOK, EvaluateBoard, tables, history
<1>3. CASE EvaluateBoardFails(c)
  <2>1. [call[c] EXCEPT !.pc = "committing"] \in CallRecord
    BY <1>1, PhaseUpdate DEF Phases
  <2>2. QED
    BY <1>3, <2>1 DEF TypeOK, EvaluateBoardFails, tables, history
<1>4. QED
  BY <1>2, <1>3

LEMMA CommitType ==
  ASSUME TypeOK, NEW c \in Calls, Commit(c)
  PROVE  TypeOK'
<1>1. /\ call[c] \in CallRecord
      /\ call[c].monitor \in Monitors
      /\ call[c].record \in Nat
      /\ call[c].active \in BOOLEAN
      /\ call[c].judged \subseteq Items
      /\ call[c].verdict \in [Items -> BOOLEAN]
      /\ call[c].flip \in [Items -> Event]
  BY DEF TypeOK, Commit, CallRecord
<1>2. call' \in [Calls -> CallRecord]
  <2>1. [call[c] EXCEPT !.pc = "committed"] \in CallRecord
    BY <1>1, PhaseUpdate DEF Phases
  <2>2. QED
    BY <2>1 DEF TypeOK, Commit
<1>3. CommittedEvent(c) \in Event
  BY EventOfType DEF CommittedEvent
<1>4. Notices(c) \subseteq [record : Nat, subject : Monitors \cup Items,
                            event : Event]
  BY <1>1, <1>3 DEF Notices
<1>5. /\ records' \subseteq [id : Nat, monitor : Monitors]
      /\ events' \subseteq [record : Nat, subject : Monitors \cup Items,
                            event : Event]
  BY <1>1, <1>4 DEF TypeOK, Commit
<1>6. active' \in [Monitors -> BOOLEAN]
  BY <1>1, ActiveAfterType DEF TypeOK, Commit
<1>7. /\ lastRecord' \in [Monitors -> Nat]
      /\ ruleActive' \in [Items -> BOOLEAN]
  BY <1>1 DEF TypeOK, Commit
<1>8. book' \in [Monitors -> MonitorLedger!Page]
  <2>1. book \in [Monitors -> MonitorLedger!Page]
    BY DEF TypeOK
  <2>2. QED
    BY <1>3, <2>1, WrittenType DEF Commit, Announce
<1>9. trend' \in [Items -> TrendLedger!Page]
  <2>1. trend \in [Items -> TrendLedger!Page]
    BY DEF TypeOK
  <2>2. QED
    BY <1>1, <2>1, TrendWrittenType DEF Commit, Announce
<1>10. QED
  BY <1>2, <1>5, <1>6, <1>7, <1>8, <1>9 DEF TypeOK, Commit

LEMMA ReturnsType ==
  ASSUME TypeOK, NEW c \in Calls, CommitFails(c) \/ Finish(c)
  PROVE  TypeOK'
<1>1. CASE CommitFails(c)
  BY <1>1, ReturnType DEF TypeOK, CommitFails, tables, history
<1>2. CASE Finish(c)
  <2>1. call[c].record \in Nat
    BY DEF TypeOK, CallRecord
  <2>2. sending' \subseteq Nat
    BY <1>2, <2>1 DEF TypeOK, Finish
  <2>3. QED
    BY <1>2, <2>2, ReturnType DEF TypeOK, Finish, tables, history
<1>3. QED
  BY <1>1, <1>2

LEMMA MonitorRequestType ==
  ASSUME TypeOK, MonitorRequest
  PROVE  TypeOK'
<1>1. ASSUME NEW m \in Monitors, NEW p \in Policies, CreateMonitor(m, p)
      PROVE  TypeOK'
  BY <1>1, ForgetType DEF TypeOK, CreateMonitor
<1>2. ASSUME NEW m \in Monitors, DeleteMonitor(m)
      PROVE  TypeOK'
  BY <1>2 DEF TypeOK, DeleteMonitor, history
<1>3. ASSUME NEW q \in Requests, NEW m \in Monitors, NEW p \in Policies,
             ReadMonitor(q, m, p)
      PROVE  TypeOK'
  <2>1. [NoRequest EXCEPT !.op = "updateMonitor", !.target = m, !.policy = p]
          \in RequestRecord
    BY NoRequestType DEF RequestRecord
  <2>2. QED
    BY <1>3, <2>1 DEF TypeOK, ReadMonitor, tables, history
<1>4. ASSUME NEW q \in Requests, NEW m \in Monitors, DeleteRecords(q, m)
      PROVE  TypeOK'
  <2>1. [NoRequest EXCEPT !.op = "deleteRecords", !.target = m]
          \in RequestRecord
    BY NoRequestType DEF RequestRecord
  <2>2. QED
    BY <1>4, <2>1 DEF TypeOK, DeleteRecords, history
<1>5. ASSUME NEW q \in Requests, WriteMonitor(q)
      PROVE  TypeOK'
  <2>1. /\ request[q].policy \in Policies
        /\ request' \in [Requests -> RequestRecord]
    BY <1>5, NoRequestType DEF TypeOK, RequestRecord, WriteMonitor, Done
  <2>2. CASE request[q].target \in monitors
    <3>1. /\ policy' = [policy EXCEPT ![request[q].target] = request[q].policy]
          /\ active' = [active EXCEPT ![request[q].target] = FALSE]
          /\ lastRecord' = [lastRecord EXCEPT ![request[q].target] = 0]
      BY <1>5, <2>2 DEF WriteMonitor
    <3>2. /\ policy' \in [Monitors -> Policies]
          /\ active' \in [Monitors -> BOOLEAN]
          /\ lastRecord' \in [Monitors -> Nat]
      BY <2>1, <3>1 DEF TypeOK
    <3>3. /\ book' \in [Monitors -> MonitorLedger!Page]
          /\ trend' \in [Items -> TrendLedger!Page]
      BY <1>5, <2>2, ForgetType DEF WriteMonitor
    <3>4. QED
      BY <1>5, <2>1, <3>2, <3>3 DEF TypeOK, WriteMonitor
  <2>3. CASE request[q].target \notin monitors
    BY <1>5, <2>1, <2>3 DEF TypeOK, WriteMonitor, history
  <2>4. QED
    BY <2>2, <2>3
<1>6. ASSUME NEW q \in Requests, ResetBoard(q)
      PROVE  TypeOK'
  <2>1. request' \in [Requests -> RequestRecord]
    BY <1>6, NoRequestType DEF TypeOK, ResetBoard, Done
  <2>2. ruleActive' \in [Items -> BOOLEAN]
    BY <1>6 DEF TypeOK, ResetBoard
  <2>3. /\ book' \in [Monitors -> MonitorLedger!Page]
        /\ trend' \in [Items -> TrendLedger!Page]
    BY <1>6, ForgetType DEF TypeOK, ResetBoard, history
  <2>4. QED
    BY <1>6, <2>1, <2>2, <2>3 DEF TypeOK, ResetBoard
<1>7. QED
  BY <1>1, <1>2, <1>3, <1>4, <1>5, <1>6 DEF MonitorRequest

LEMMA ItemRequestType ==
  ASSUME TypeOK, ItemRequest
  PROVE  TypeOK'
<1>1. ASSUME NEW i \in Items, NEW m \in Monitors, CreateItem(i, m)
      PROVE  TypeOK'
  BY <1>1, ForgetType DEF TypeOK, CreateItem
<1>2. ASSUME NEW i \in Items, DeleteItem(i)
      PROVE  TypeOK'
  BY <1>2 DEF TypeOK, DeleteItem, history
<1>3. ASSUME NEW q \in Requests, NEW i \in Items, NEW m \in Monitors,
             NEW e \in BOOLEAN, NEW reset \in BOOLEAN,
             ReadItem(q, i, m, e, reset)
      PROVE  TypeOK'
  <2>1. (~reset /\ ruleActive[i]) \in BOOLEAN
    BY DEF TypeOK
  <2>2. [op |-> "updateItem", target |-> i, policy |-> "once", owner |-> m,
         enabled |-> e, active |-> ~reset /\ ruleActive[i], reset |-> reset]
          \in RequestRecord
    BY <2>1 DEF RequestRecord, Policies
  <2>3. QED
    BY <1>3, <2>2 DEF TypeOK, ReadItem, tables, history
<1>4. ASSUME NEW q \in Requests, WriteItem(q)
      PROVE  TypeOK'
  <2>1. /\ request[q].owner \in Monitors \cup {Nobody}
        /\ request[q].enabled \in BOOLEAN
        /\ request[q].active \in BOOLEAN
        /\ request' \in [Requests -> RequestRecord]
    BY <1>4, NoRequestType DEF TypeOK, RequestRecord, WriteItem, Done
  <2>2. CASE request[q].target \in items /\ request[q].owner \in monitors
    BY <1>4, <2>1, <2>2, ForgetType DEF TypeOK, WriteItem
  <2>3. CASE ~(request[q].target \in items /\ request[q].owner \in monitors)
    BY <1>4, <2>1, <2>3 DEF TypeOK, WriteItem, history
  <2>4. QED
    BY <2>2, <2>3
<1>5. QED
  BY <1>1, <1>2, <1>3, <1>4 DEF ItemRequest

LEMMA InitType == Init => TypeOK
<1>1. \A m \in Monitors : MonitorLedger!BlankPage \in MonitorLedger!Page
  BY DEF MonitorLedger!BlankPage, MonitorLedger!Page
<1>2. \A i \in Items : TrendLedger!BlankPage \in TrendLedger!Page
  BY DEF TrendLedger!BlankPage, TrendLedger!Page
<1>3. ASSUME Init PROVE TypeOK
  BY <1>1, <1>2, <1>3, NoCallType, NoRequestType
     DEF Init, TypeOK, MonitorLedger!Init, TrendLedger!Init, Policies
<1>4. QED
  BY <1>3

LEMMA NextType == TypeOK /\ [Next]_vars => TypeOK'
<1> SUFFICES ASSUME TypeOK, [Next]_vars PROVE TypeOK'
  OBVIOUS
<1>1. CASE StartCall
  BY <1>1, StartType DEF StartCall
<1>2. ASSUME NEW c \in Calls, CallStep(c) PROVE TypeOK'
  BY <1>2, AcquireType, LoadType, ExecuteType, EvaluateBoardType, CommitType,
     ReturnsType DEF CallStep
<1>3. ASSUME NEW r \in sending, SenderReturns(r) PROVE TypeOK'
  BY <1>3 DEF TypeOK, SenderReturns, tables, history
<1>4. CASE MonitorRequest
  BY <1>4, MonitorRequestType
<1>5. CASE ItemRequest
  BY <1>5, ItemRequestType
<1>6. CASE Restart
  BY <1>6, NoCallType, NoRequestType DEF TypeOK, Restart, tables, history
<1>7. CASE UNCHANGED vars
  BY <1>7 DEF TypeOK, vars, tables, history
<1>8. QED
  BY <1>1, <1>2, <1>3, <1>4, <1>5, <1>6, <1>7 DEF Next

\* Every variable keeps its type through every interleaving of executions,
\* API requests and restarts.
THEOREM TypeCorrect == Spec => []TypeOK
<1>1. Init => TypeOK
  BY InitType
<1>2. TypeOK /\ [Next]_vars => TypeOK'
  BY NextType
<1>3. QED
  BY <1>1, <1>2, PTL DEF Spec

-----------------------------------------------------------------------------
(* What each step of a call does to its record, field by field.              *)

Untouched(c) == \A d \in Calls \ {c} : call'[d] = call[d]

SameBoard(c) ==
  /\ call'[c].judged = call[c].judged
  /\ call'[c].verdict = call[c].verdict
  /\ call'[c].flip = call[c].flip

LEMMA AcquireEffect ==
  ASSUME TypeOK, NEW c \in Calls, Acquire(c)
  PROVE  /\ Untouched(c)
         /\ call'[c].pc = "locked"
         /\ call'[c].monitor = call[c].monitor
         /\ SameBoard(c)
<1>1. call[c] \in CallRecord /\ Untouched(c)
  BY DEF TypeOK, Untouched, Acquire
<1>2. call'[c] = [call[c] EXCEPT !.pc = "locked"]
  BY DEF TypeOK, Acquire
<1>3. QED
  BY <1>1, <1>2 DEF CallRecord, SameBoard

LEMMA LoadEffect ==
  ASSUME TypeOK, NEW c \in Calls, Load(c)
  PROVE  /\ Untouched(c)
         /\ call'[c].pc = "executing"
         /\ call'[c].monitor = call[c].monitor
         /\ call'[c].active = active[call[c].monitor]
         /\ SameBoard(c)
<1>1. call[c] \in CallRecord /\ Untouched(c)
  BY DEF TypeOK, Untouched, Load
<1>2. call'[c] = [call[c] EXCEPT !.pc = "executing",
                                 !.policy = policy[call[c].monitor],
                                 !.active = active[call[c].monitor]]
  BY DEF TypeOK, Load
<1>3. QED
  BY <1>1, <1>2 DEF CallRecord, SameBoard

LEMMA ExecuteEffect ==
  ASSUME TypeOK, NEW c \in Calls, NEW s \in Trivalent, Execute(c, s)
  PROVE  /\ Untouched(c)
         /\ call'[c].pc = "evaluating"
         /\ call'[c].monitor = call[c].monitor
         /\ call'[c].active = call[c].active
         /\ call'[c].record = nextRecord
         /\ SameBoard(c)
<1>1. call[c] \in CallRecord /\ Untouched(c)
  BY DEF TypeOK, Untouched, Execute
<1>2. call'[c] = [call[c] EXCEPT !.pc = "evaluating", !.state = s,
                                 !.record = nextRecord]
  BY DEF TypeOK, Execute
<1>3. QED
  BY <1>1, <1>2 DEF CallRecord, SameBoard

\* The flip and the verdict of an item come from one reading of its activity,
\* and only items of the call's monitor are judged.
Judgement(r) ==
  /\ \A i \in r.judged :
       /\ i \in Items /\ owner[i] = r.monitor
       /\ \E t \in Trivalent : /\ r.verdict[i] = ActiveAfter(t, ruleActive[i])
                               /\ r.flip[i] = FlipOf(t, ruleActive[i])
  /\ \A i \in Items \ r.judged : r.flip[i] = "none"

LEMMA EvaluateEffect ==
  ASSUME TypeOK, NEW c \in Calls, EvaluateBoard(c)
  PROVE  /\ Untouched(c)
         /\ call'[c].pc = "committing"
         /\ call'[c].monitor = call[c].monitor
         /\ call'[c].active = call[c].active
         /\ call'[c].record = call[c].record
         /\ Judgement(call'[c])
<1>1. call[c] \in CallRecord /\ Untouched(c)
  BY DEF TypeOK, Untouched, EvaluateBoard
<1> DEFINE mine == {i \in items : owner[i] = call[c].monitor /\ enabled[i]}
           verdict(t) == [i \in Items |->
             i \in mine /\ ActiveAfter(t[i], ruleActive[i])]
           flip(t) == [i \in Items |->
             IF i \in mine THEN FlipOf(t[i], ruleActive[i]) ELSE "none"]
<1>2. PICK t \in [mine -> Trivalent] :
        call' = [call EXCEPT ![c] =
           [@ EXCEPT !.pc = "committing", !.judged = mine,
                     !.verdict = verdict(t), !.flip = flip(t)]]
  BY DEF EvaluateBoard
<1>3. \A i \in mine : /\ i \in Items /\ owner[i] = call[c].monitor
                      /\ t[i] \in Trivalent
  BY DEF TypeOK
<1>4. \A i \in mine : /\ verdict(t)[i] = ActiveAfter(t[i], ruleActive[i])
                      /\ flip(t)[i] = FlipOf(t[i], ruleActive[i])
  BY <1>3, ActiveAfterType DEF TypeOK
<1>5. \A i \in Items \ mine : flip(t)[i] = "none"
  OBVIOUS
<1> HIDE DEF mine, verdict, flip
<1>6. call'[c] = [call[c] EXCEPT !.pc = "committing", !.judged = mine,
                                 !.verdict = verdict(t), !.flip = flip(t)]
  BY <1>2 DEF TypeOK
<1>7. /\ call'[c].pc = "committing"
      /\ call'[c].monitor = call[c].monitor
      /\ call'[c].active = call[c].active
      /\ call'[c].record = call[c].record
      /\ call'[c].judged = mine
      /\ call'[c].verdict = verdict(t)
      /\ call'[c].flip = flip(t)
  BY <1>1, <1>6 DEF CallRecord
<1>8. QED
  BY <1>1, <1>3, <1>4, <1>5, <1>7 DEF Judgement

\* So what is judged active was active before, or is announced.
LEMMA JudgementRaises ==
  ASSUME NEW r, Judgement(r), NEW i \in r.judged, r.verdict[i]
  PROVE  r.flip[i] = "triggered" \/ ruleActive[i]
BY DEF Judgement, ActiveAfter, FlipOf, Trivalent

LEMMA EvaluateFailsEffect ==
  ASSUME TypeOK, NEW c \in Calls, EvaluateBoardFails(c)
  PROVE  /\ Untouched(c)
         /\ call'[c].pc = "committing"
         /\ call'[c].monitor = call[c].monitor
         /\ call'[c].active = call[c].active
         /\ call'[c].record = call[c].record
         /\ SameBoard(c)
<1>1. call[c] \in CallRecord /\ Untouched(c)
  BY DEF TypeOK, Untouched, EvaluateBoardFails
<1>2. call'[c] = [call[c] EXCEPT !.pc = "committing"]
  BY DEF TypeOK, EvaluateBoardFails
<1>3. QED
  BY <1>1, <1>2 DEF CallRecord, SameBoard

LEMMA CommitEffect ==
  ASSUME TypeOK, NEW c \in Calls, Commit(c)
  PROVE  /\ Untouched(c)
         /\ call'[c].pc = "committed"
         /\ call'[c].monitor = call[c].monitor
         /\ SameBoard(c)
<1>1. call[c] \in CallRecord /\ Untouched(c)
  BY DEF TypeOK, Untouched, Commit
<1>2. call'[c] = [call[c] EXCEPT !.pc = "committed"]
  BY DEF TypeOK, Commit
<1>3. QED
  BY <1>1, <1>2 DEF CallRecord, SameBoard

LEMMA ReturnEffect ==
  ASSUME TypeOK, NEW c \in Calls, LoadFails(c) \/ CommitFails(c) \/ Finish(c)
  PROVE  /\ Untouched(c)
         /\ call'[c].pc = "idle"
         /\ call'[c] = NoCall
         /\ holder' = [holder EXCEPT ![call[c].monitor] = Nobody]
<1>1. /\ call' = [call EXCEPT ![c] = NoCall]
      /\ holder' = [holder EXCEPT ![call[c].monitor] = Nobody]
  BY DEF LoadFails, CommitFails, Finish, Return
<1>2. Untouched(c) /\ call'[c] = NoCall
  BY <1>1 DEF TypeOK, Untouched
<1>3. NoCall.pc = "idle"
  BY DEF NoCall
<1>4. QED
  BY <1>1, <1>2, <1>3

LEMMA StartEffect ==
  ASSUME TypeOK, NEW c \in Calls, NEW m \in Monitors, Run(c, m) \/ TryRun(c, m)
  PROVE  /\ Untouched(c)
         /\ call'[c].pc \in {"waiting", "locked"}
         /\ call'[c].monitor = m
         /\ call'[c].judged = {}
         /\ \A i \in Items : call'[c].flip[i] = "none"
<1>1. /\ Asking(m, "waiting").pc = "waiting"
      /\ Asking(m, "locked").pc = "locked"
      /\ Asking(m, "waiting").monitor = m
      /\ Asking(m, "locked").monitor = m
      /\ Asking(m, "waiting").judged = {}
      /\ Asking(m, "locked").judged = {}
      /\ \A i \in Items : /\ Asking(m, "waiting").flip[i] = "none"
                          /\ Asking(m, "locked").flip[i] = "none"
  BY DEF Asking, NoCall
<1>2. QED
  BY <1>1 DEF TypeOK, Untouched, Run, TryRun

-----------------------------------------------------------------------------
(* The lock. *)

\* Requests, senders and creations leave the calls and the locks alone.
LEMMA OutsideSteps ==
  ASSUME \/ \E r \in sending : SenderReturns(r)
         \/ MonitorRequest
         \/ ItemRequest
         \/ UNCHANGED vars
  PROVE  UNCHANGED <<call, holder, nextRecord>>
BY DEF SenderReturns, MonitorRequest, CreateMonitor, DeleteMonitor,
       ReadMonitor, WriteMonitor, DeleteRecords, ResetBoard, ItemRequest,
       CreateItem, DeleteItem, ReadItem, WriteItem, vars

\* Inside the lock, a call moves from phase to phase without changing hands.
LEMMA InsideLock ==
  ASSUME LockHeld, NEW c \in Calls, Untouched(c), holder' = holder,
         call[c].pc \in Inside, call'[c].monitor = call[c].monitor
  PROVE  LockHeld'
<1> SUFFICES ASSUME NEW d \in Calls
             PROVE  /\ call'[d].pc # "idle" => call'[d].monitor \in Monitors
                    /\ call'[d].pc \in Inside =>
                         holder'[call'[d].monitor] = d
  BY DEF LockHeld
<1>1. CASE d = c
  BY <1>1 DEF LockHeld, Inside
<1>2. CASE d # c
  BY <1>2 DEF LockHeld, Untouched
<1>3. QED
  BY <1>1, <1>2

\* A call that gets a free mutex, or waits for one, disturbs nobody.
LEMMA EnterLock ==
  ASSUME TypeOK, LockHeld, NEW c \in Calls, Untouched(c),
         call'[c].monitor \in Monitors,
         \/ holder' = holder /\ call'[c].pc \notin Inside
         \/ /\ holder[call'[c].monitor] = Nobody
            /\ holder' = [holder EXCEPT ![call'[c].monitor] = c]
  PROVE  LockHeld'
<1> SUFFICES ASSUME NEW d \in Calls
             PROVE  /\ call'[d].pc # "idle" => call'[d].monitor \in Monitors
                    /\ call'[d].pc \in Inside =>
                         holder'[call'[d].monitor] = d
  BY DEF LockHeld
<1>1. CASE d = c
  BY <1>1 DEF TypeOK
<1>2. CASE d # c
  <2>1. call'[d] = call[d]
    BY <1>2 DEF Untouched
  <2>2. call[d].pc \in Inside => holder'[call[d].monitor] = d
    BY <1>2, ConstantsAssumption DEF TypeOK, LockHeld, Inside
  <2>3. QED
    BY <2>1, <2>2 DEF LockHeld
<1>3. QED
  BY <1>1, <1>2

\* A call that returns gives up its own monitor's mutex and no other.
LEMMA LeaveLock ==
  ASSUME TypeOK, LockHeld, NEW c \in Calls, Untouched(c),
         call[c].pc \in Inside, call'[c].pc = "idle",
         holder' = [holder EXCEPT ![call[c].monitor] = Nobody]
  PROVE  LockHeld'
<1> SUFFICES ASSUME NEW d \in Calls
             PROVE  /\ call'[d].pc # "idle" => call'[d].monitor \in Monitors
                    /\ call'[d].pc \in Inside =>
                         holder'[call'[d].monitor] = d
  BY DEF LockHeld
<1>1. CASE d = c
  BY <1>1 DEF Inside
<1>2. CASE d # c
  BY <1>2 DEF TypeOK, LockHeld, Untouched, Inside
<1>3. QED
  BY <1>1, <1>2

LEMMA CallStepLock ==
  ASSUME TypeOK, LockHeld, NEW c \in Calls, CallStep(c)
  PROVE  LockHeld'
<1>1. CASE Acquire(c)
  BY <1>1, AcquireEffect, EnterLock DEF LockHeld, Acquire
<1>2. CASE LoadFails(c) \/ CommitFails(c) \/ Finish(c)
  <2>1. call[c].pc \in Inside
    BY <1>2 DEF LoadFails, CommitFails, Finish, Inside, Phases
  <2>2. QED
    BY <1>2, <2>1, ReturnEffect, LeaveLock
<1>3. CASE Load(c)
  BY <1>3, LoadEffect, InsideLock DEF Load, Inside, Phases
<1>4. ASSUME NEW s \in Trivalent, Execute(c, s) PROVE LockHeld'
  BY <1>4, ExecuteEffect, InsideLock DEF Execute, Inside, Phases
<1>5. CASE EvaluateBoard(c)
  BY <1>5, EvaluateEffect, InsideLock DEF EvaluateBoard, Inside, Phases
<1>6. CASE EvaluateBoardFails(c)
  BY <1>6, EvaluateFailsEffect, InsideLock
     DEF EvaluateBoardFails, Inside, Phases
<1>7. CASE Commit(c)
  BY <1>7, CommitEffect, InsideLock DEF Commit, Inside, Phases
<1>8. QED
  BY <1>1, <1>2, <1>3, <1>4, <1>5, <1>6, <1>7 DEF CallStep

LEMMA StartLock ==
  ASSUME TypeOK, LockHeld, NEW c \in Calls, NEW m \in Monitors,
         Run(c, m) \/ TryRun(c, m)
  PROVE  LockHeld'
<1>1. CASE Run(c, m)
  <2>1. call'[c].pc = "waiting"
    BY <1>1 DEF TypeOK, Run, Asking, NoCall
  <2>2. QED
    BY <1>1, <2>1, StartEffect, EnterLock DEF Run, Inside
<1>2. CASE TryRun(c, m)
  BY <1>2, StartEffect, EnterLock DEF TryRun
<1>3. QED
  BY <1>1, <1>2

LEMMA NextLock == TypeOK /\ LockHeld /\ [Next]_vars => LockHeld'
<1> SUFFICES ASSUME TypeOK, LockHeld, [Next]_vars PROVE LockHeld'
  OBVIOUS
<1>1. CASE StartCall
  BY <1>1, StartLock DEF StartCall
<1>2. ASSUME NEW c \in Calls, CallStep(c) PROVE LockHeld'
  BY <1>2, CallStepLock
<1>3. CASE Restart
  BY <1>3 DEF LockHeld, Restart, NoCall, Inside
<1>4. CASE ~StartCall /\ ~(\E c \in Calls : CallStep(c)) /\ ~Restart
  BY <1>4, OutsideSteps DEF LockHeld, Next
<1>5. QED
  BY <1>1, <1>2, <1>3, <1>4

LEMMA InitLock == Init => LockHeld
BY DEF Init, LockHeld, NoCall, Inside

\* A monitor never runs twice at the same time: whichever goroutines call Run
\* and TryRun, at most one of them is between Lock and Unlock of its mutex.
THEOREM MutualExclusion == Spec => []OneExecutionPerMonitor
<1>1. TypeOK /\ LockHeld => OneExecutionPerMonitor
  BY DEF LockHeld, OneExecutionPerMonitor
<1>2. QED
  BY <1>1, InitType, InitLock, NextType, NextLock, PTL DEF Spec

-----------------------------------------------------------------------------
(* What requests may do to the state of a monitor under a running execution. *)

Outside ==
  \/ \E r \in sending : SenderReturns(r)
  \/ MonitorRequest
  \/ ItemRequest
  \/ UNCHANGED vars

\* Two calls inside the lock work on different monitors.
LEMMA OtherMonitor ==
  ASSUME LockHeld, NEW c \in Calls, NEW d \in Calls, c # d,
         call[c].pc \in Inside, call[d].pc \in Inside
  PROVE  call[c].monitor # call[d].monitor
BY DEF LockHeld

Reset(m) ==
  /\ active'[m] = FALSE
  /\ lastRecord'[m] = 0
  /\ book'[m] = [book[m] EXCEPT !.reopened = TRUE]

Same(m) ==
  /\ active'[m] = active[m]
  /\ lastRecord'[m] = lastRecord[m]
  /\ book'[m] = book[m]

\* A request resets a monitor completely, in the table and in the ledger, or
\* leaves it alone; it never adds an event.
LEMMA OutsideMonitors ==
  ASSUME TypeOK, Outside
  PROVE  /\ \A m \in Monitors : Reset(m) \/ Same(m)
         /\ events' = events
<1> SUFFICES ASSUME NEW n \in Monitors
             PROVE  (Reset(n) \/ Same(n)) /\ events' = events
  <2>1. events' = events
    BY DEF Outside, SenderReturns, MonitorRequest, CreateMonitor,
           DeleteMonitor, ReadMonitor, WriteMonitor, DeleteRecords,
           ResetBoard, ItemRequest, CreateItem, DeleteItem, ReadItem,
           WriteItem, vars, tables
  <2>2. QED
    BY <2>1
<1>1. ASSUME NEW m \in Monitors, NEW p \in Policies, CreateMonitor(m, p)
      PROVE  (Reset(n) \/ Same(n)) /\ events' = events
  BY <1>1 DEF TypeOK, CreateMonitor, Forget, Reset, Same
<1>2. ASSUME NEW q \in Requests, WriteMonitor(q)
      PROVE  (Reset(n) \/ Same(n)) /\ events' = events
  <2>1. CASE request[q].target \in monitors
    <3>1. /\ active' = [active EXCEPT ![request[q].target] = FALSE]
          /\ lastRecord' = [lastRecord EXCEPT ![request[q].target] = 0]
          /\ Forget({request[q].target}, {})
          /\ events' = events
      BY <1>2, <2>1 DEF WriteMonitor
    <3>2. QED
      BY <3>1 DEF TypeOK, Forget, Reset, Same
  <2>2. CASE request[q].target \notin monitors
    BY <1>2, <2>2 DEF WriteMonitor, Same, history
  <2>3. QED
    BY <2>1, <2>2
<1>3. ASSUME NEW q \in Requests, ResetBoard(q) \/ WriteItem(q)
      PROVE  (Reset(n) \/ Same(n)) /\ events' = events
  BY <1>3 DEF ResetBoard, WriteItem, Forget, Same, history
<1>4. ASSUME NEW i \in Items, NEW m \in Monitors, CreateItem(i, m)
      PROVE  (Reset(n) \/ Same(n)) /\ events' = events
  BY <1>4 DEF CreateItem, Forget, Same
<1>5. CASE \/ \E r \in sending : SenderReturns(r)
           \/ \E m \in Monitors : DeleteMonitor(m)
           \/ \E q \in Requests, m \in Monitors :
                \/ \E p \in Policies : ReadMonitor(q, m, p)
                \/ DeleteRecords(q, m)
           \/ \E i \in Items : DeleteItem(i)
           \/ \E q \in Requests, i \in Items, m \in Monitors,
                 e, reset \in BOOLEAN : ReadItem(q, i, m, e, reset)
           \/ UNCHANGED vars
  BY <1>5 DEF SenderReturns, DeleteMonitor, ReadMonitor, DeleteRecords,
              DeleteItem, ReadItem, Same, tables, history, vars
<1>6. QED
  BY <1>1, <1>2, <1>3, <1>4, <1>5 DEF Outside, MonitorRequest, ItemRequest

\* Every step of the system is a step of a call, a start, a restart, or outside.
LEMMA StepCases ==
  ASSUME [Next]_vars
  PROVE  \/ \E c \in Calls, m \in Monitors : Run(c, m) \/ TryRun(c, m)
         \/ \E c \in Calls : CallStep(c)
         \/ Restart
         \/ Outside
BY DEF Next, StartCall, Outside

-----------------------------------------------------------------------------
(* The numbering of executions. *)

\* A step of one call that allots no number and stores none.
LEMMA QuietRecords ==
  ASSUME TypeOK, LockHeld, RecordsOrdered, NEW c \in Calls, Untouched(c),
         UNCHANGED <<lastRecord, nextRecord>>,
         \/ call'[c].pc \notin {"evaluating", "committing"}
         \/ /\ call[c].pc = "evaluating"
            /\ call'[c].monitor = call[c].monitor
            /\ call'[c].record = call[c].record
  PROVE  RecordsOrdered'
<1>1. ASSUME NEW d \in Calls, call'[d].pc \in {"evaluating", "committing"}
      PROVE  /\ call'[d].record < nextRecord
             /\ lastRecord[call'[d].monitor] < call'[d].record
  <2>1. CASE d = c
    BY <1>1, <2>1 DEF RecordsOrdered
  <2>2. CASE d # c
    BY <1>1, <2>2 DEF RecordsOrdered, Untouched
  <2>3. QED
    BY <2>1, <2>2
<1>2. QED
  BY <1>1 DEF RecordsOrdered

LEMMA ExecuteRecords ==
  ASSUME TypeOK, LockHeld, RecordsOrdered, NEW c \in Calls,
         NEW s \in Trivalent, Execute(c, s)
  PROVE  RecordsOrdered'
<1>1. /\ nextRecord \in Nat
      /\ nextRecord' = nextRecord + 1
      /\ lastRecord' = lastRecord
      /\ \A m \in Monitors : lastRecord[m] \in Nat
  BY DEF TypeOK, Execute, tables
<1>2. ASSUME NEW d \in Calls, call'[d].pc \in {"evaluating", "committing"}
      PROVE  /\ call'[d].record < nextRecord + 1
             /\ lastRecord[call'[d].monitor] < call'[d].record
  <2>1. CASE d = c
    <3>1. call[c].monitor \in Monitors
      BY DEF LockHeld, Execute
    <3>2. QED
      BY <1>1, <2>1, <3>1, ExecuteEffect DEF RecordsOrdered
  <2>2. CASE d # c
    <3>1. call[d].record \in Nat
      BY DEF TypeOK, CallRecord
    <3>2. QED
      BY <1>1, <1>2, <2>2, <3>1, ExecuteEffect DEF RecordsOrdered, Untouched
  <2>3. QED
    BY <2>1, <2>2
<1>3. \A m \in Monitors : lastRecord[m] < nextRecord + 1
  BY <1>1 DEF RecordsOrdered
<1>4. QED
  BY <1>1, <1>2, <1>3 DEF RecordsOrdered

LEMMA CommitRecords ==
  ASSUME TypeOK, LockHeld, RecordsOrdered, NEW c \in Calls, Commit(c)
  PROVE  RecordsOrdered'
<1>1. /\ nextRecord' = nextRecord
      /\ lastRecord' = [lastRecord EXCEPT ![call[c].monitor] = call[c].record]
      /\ call[c].pc = "committing"
  BY DEF Commit
<1>2. \A m \in Monitors : lastRecord'[m] < nextRecord
  BY <1>1 DEF TypeOK, RecordsOrdered
<1>3. ASSUME NEW d \in Calls, call'[d].pc \in {"evaluating", "committing"}
      PROVE  /\ call'[d].record < nextRecord
             /\ lastRecord'[call'[d].monitor] < call'[d].record
  <2>1. d # c
    BY <1>3, CommitEffect
  <2>2. call'[d] = call[d]
    BY <2>1, CommitEffect DEF Untouched
  <2>3. /\ call[d].monitor \in Monitors
        /\ call[d].monitor # call[c].monitor
    BY <1>1, <1>3, <2>1, <2>2, OtherMonitor DEF LockHeld, Inside, Phases
  <2>4. QED
    BY <1>1, <1>3, <2>2, <2>3 DEF TypeOK, RecordsOrdered
<1>4. QED
  BY <1>1, <1>2, <1>3 DEF RecordsOrdered

LEMMA NextRecords ==
  TypeOK /\ LockHeld /\ RecordsOrdered /\ [Next]_vars => RecordsOrdered'
<1> SUFFICES ASSUME TypeOK, LockHeld, RecordsOrdered, [Next]_vars
             PROVE  RecordsOrdered'
  OBVIOUS
<1>1. ASSUME NEW c \in Calls, NEW m \in Monitors, Run(c, m) \/ TryRun(c, m)
      PROVE  RecordsOrdered'
  BY <1>1, StartEffect, QuietRecords DEF Run, TryRun, tables
<1>2. ASSUME NEW c \in Calls, CallStep(c) PROVE RecordsOrdered'
  <2>1. CASE Acquire(c)
    BY <2>1, AcquireEffect, QuietRecords DEF Acquire, tables
  <2>2. CASE Load(c)
    BY <2>2, LoadEffect, QuietRecords DEF Load, tables
  <2>3. CASE LoadFails(c) \/ CommitFails(c) \/ Finish(c)
    <3>1. UNCHANGED <<lastRecord, nextRecord>>
      BY <2>3 DEF LoadFails, CommitFails, Finish, tables
    <3>2. QED
      BY <2>3, <3>1, ReturnEffect, QuietRecords
  <2>4. CASE EvaluateBoard(c)
    BY <2>4, EvaluateEffect, QuietRecords DEF EvaluateBoard, tables
  <2>5. CASE EvaluateBoardFails(c)
    BY <2>5, EvaluateFailsEffect, QuietRecords DEF EvaluateBoardFails, tables
  <2>6. QED
    BY <1>2, <2>1, <2>2, <2>3, <2>4, <2>5, ExecuteRecords, CommitRecords
       DEF CallStep
<1>3. CASE Restart
  BY <1>3 DEF RecordsOrdered, Restart, NoCall, tables
<1>4. CASE Outside
  <2>1. UNCHANGED <<call, nextRecord>>
    BY <1>4, OutsideSteps DEF Outside
  <2>2. \A m \in Monitors : lastRecord'[m] \in {0, lastRecord[m]}
    BY <1>4, OutsideMonitors, Zenon DEF Reset, Same
  <2>3. \A m \in Monitors : lastRecord'[m] \in Nat /\ lastRecord[m] \in Nat
    BY NextType DEF TypeOK
  <2>4. \A c \in Calls : call[c].record \in Nat
    BY DEF TypeOK, CallRecord
  <2>5. nextRecord \in Nat
    BY DEF TypeOK
  <2>6. QED
    BY <2>1, <2>2, <2>3, <2>4, <2>5 DEF RecordsOrdered, LockHeld
<1>5. QED
  BY <1>1, <1>2, <1>3, <1>4, StepCases

LEMMA InitRecords == Init => RecordsOrdered
BY DEF Init, RecordsOrdered, NoCall

\* The state a monitor keeps is that of its latest execution: no commit puts
\* an older outcome over a newer one, unless an operator reset in between.
THEOREM LatestWins == Spec => LatestExecutionWins
<1> DEFINE Latest == \A m \in Monitors :
             lastRecord'[m] >= lastRecord[m] \/ lastRecord'[m] = 0
           Ordered == TypeOK /\ LockHeld /\ RecordsOrdered
<1>1. Ordered /\ [Next]_vars => Latest
  <2> SUFFICES ASSUME Ordered, [Next]_vars, NEW m \in Monitors
               PROVE  lastRecord'[m] >= lastRecord[m] \/ lastRecord'[m] = 0
    OBVIOUS
  <2>1. lastRecord[m] \in Nat
    BY DEF TypeOK
  <2>2. CASE Outside
    <3>1. lastRecord'[m] = 0 \/ lastRecord'[m] = lastRecord[m]
      BY <2>2, OutsideMonitors, Zenon DEF Reset, Same
    <3>2. QED
      BY <2>1, <3>1
  <2>3. ASSUME NEW c \in Calls, Commit(c)
        PROVE  lastRecord'[m] >= lastRecord[m]
    BY <2>1, <2>3 DEF TypeOK, CallRecord, RecordsOrdered, Commit
  <2>4. CASE /\ ~Outside
             /\ ~\E c \in Calls : Commit(c)
    <3>1. lastRecord' = lastRecord
      BY <2>4, StepCases DEF Run, TryRun, CallStep, Acquire, LoadFails, Load,
         Execute, EvaluateBoard, EvaluateBoardFails, CommitFails, Finish,
         Restart, tables
    <3>2. QED
      BY <2>1, <3>1
  <2>5. QED
    BY <2>2, <2>3, <2>4
<1>2. Init => Ordered
  BY InitType, InitLock, InitRecords
<1>3. Ordered /\ [Next]_vars => Ordered'
  BY NextType, NextLock, NextRecords
<1>4. QED
  BY <1>1, <1>2, <1>3, PTL DEF Spec, LatestExecutionWins

-----------------------------------------------------------------------------
(* The activity of monitors and what was announced about them. *)

\* Events are never forgotten, so what was raised stays raised.
LEMMA RaisedStays ==
  ASSUME events \subseteq events', NEW s, Raised(s)
  PROVE  Raised(s)'
BY DEF Raised

\* A reset keeps the last announcement and marks it as reopened.
LEMMA ResetAgrees ==
  ASSUME NEW m \in Monitors, book[m] \in MonitorLedger!Page,
         Reset(m) \/ Same(m), Agrees(active[m], book[m])
  PROVE  /\ Agrees(active'[m], book'[m])
         /\ \A was : Agrees(was, book[m]) => Agrees(was, book'[m])
         /\ book'[m].last = book[m].last
<1>1. CASE Same(m)
  BY <1>1 DEF Same
<1>2. CASE Reset(m)
  <2>1. book'[m].last = book[m].last /\ book'[m].reopened = TRUE
    BY <1>2 DEF Reset, MonitorLedger!Page
  <2>2. active'[m] = FALSE
    BY <1>2 DEF Reset
  <2>3. QED
    BY <2>1, <2>2 DEF Agrees
<1>3. QED
  BY <1>1, <1>2

\* A step of one call that announces nothing and stores no activity.
LEMMA QuietAgree ==
  ASSUME TypeOK, LockHeld, MonitorsAgree, NEW c \in Calls, Untouched(c),
         UNCHANGED <<active, book, events>>,
         \/ call'[c].pc \notin Informed
         \/ /\ call[c].pc \in Informed
            /\ call'[c].monitor = call[c].monitor
            /\ call'[c].active = call[c].active
         \/ /\ call'[c].monitor \in Monitors
            /\ call'[c].active = active[call'[c].monitor]
  PROVE  MonitorsAgree'
<1>1. ASSUME NEW d \in Calls, call'[d].pc \in Informed
      PROVE  Agrees(call'[d].active, book[call'[d].monitor])
  <2>1. CASE d = c
    BY <1>1, <2>1, Zenon DEF MonitorsAgree
  <2>2. CASE d # c
    BY <1>1, <2>2 DEF MonitorsAgree, Untouched
  <2>3. QED
    BY <2>1, <2>2
<1>2. QED
  BY <1>1 DEF MonitorsAgree, Raised

\* What an execution announces and stores, given what it read.
Outcome(c) == ActiveAfter(call[c].state, call[c].active)

LEMMA OutcomeAgrees ==
  ASSUME NEW c \in Calls, call[c].state \in Trivalent,
         call[c].active \in BOOLEAN,
         NEW page \in MonitorLedger!Page, Agrees(call[c].active, page)
  PROVE  /\ CommittedEvent(c) = "none" => Agrees(Outcome(c), page)
         /\ CommittedEvent(c) # "none" =>
              Agrees(Outcome(c), MonitorLedger!Written(page, CommittedEvent(c)))
<1>1. CommittedEvent(c) = "none" => Agrees(Outcome(c), page)
  BY DEF CommittedEvent, EventOf, Outcome, ActiveAfter, Agrees, Trivalent
<1>2. ASSUME CommittedEvent(c) = "triggered"
      PROVE  Agrees(Outcome(c), MonitorLedger!Written(page, "triggered"))
  <2>1. call[c].state = "true"
    BY <1>2 DEF CommittedEvent, EventOf
  <2>2. Outcome(c) = TRUE
    BY <2>1 DEF Outcome, ActiveAfter
  <2>3. MonitorLedger!Written(page, "triggered").last = "triggered"
    BY DEF MonitorLedger!Written
  <2>4. QED
    BY <2>2, <2>3 DEF Agrees
<1>3. ASSUME CommittedEvent(c) = "recovered"
      PROVE  Agrees(Outcome(c), MonitorLedger!Written(page, "recovered"))
  <2>1. call[c].state = "false"
    BY <1>3 DEF CommittedEvent, EventOf
  <2>2. Outcome(c) = FALSE
    BY <2>1 DEF Outcome, ActiveAfter
  <2>3. MonitorLedger!Written(page, "recovered").last = "recovered"
    BY DEF MonitorLedger!Written
  <2>4. QED
    BY <2>2, <2>3 DEF Agrees
<1>4. CommittedEvent(c) \in Event
  BY EventOfType DEF CommittedEvent
<1>5. QED
  BY <1>1, <1>2, <1>3, <1>4 DEF Event

LEMMA CommitAgree ==
  ASSUME TypeOK, LockHeld, MonitorsAgree, NEW c \in Calls, Commit(c)
  PROVE  MonitorsAgree'
<1> DEFINE said == CommittedEvent(c)
<1>1. PICK own : own = call[c].monitor
  OBVIOUS
<1>2. /\ own \in Monitors
      /\ call[c].pc = "committing"
      /\ call[c].state \in Trivalent
      /\ call[c].active \in BOOLEAN
      /\ book[own] \in MonitorLedger!Page
      /\ Agrees(call[c].active, book[own])
  BY <1>1 DEF TypeOK, CallRecord, Commit, MonitorsAgree, Informed
<1>3. /\ active' = [active EXCEPT ![own] = Outcome(c)]
      /\ book' = IF said = "none" THEN book
                 ELSE [book EXCEPT ![own] =
                         MonitorLedger!Written(book[own], said)]
      /\ events' = events \cup Notices(c)
  BY <1>1 DEF Commit, Announce, Outcome
<1>4. \A m \in Monitors \ {own} :
        active'[m] = active[m] /\ book'[m] = book[m]
  BY <1>3 DEF TypeOK
<1>5. /\ active'[own] = Outcome(c)
      /\ book'[own] = IF said = "none" THEN book[own]
                      ELSE MonitorLedger!Written(book[own], said)
  BY <1>2, <1>3 DEF TypeOK
<1>6. Agrees(active'[own], book'[own])
  BY <1>2, <1>5, OutcomeAgrees
<1>7. said = "triggered" => Raised(own)'
  <2>1. ASSUME said = "triggered"
        PROVE  [record |-> call[c].record, subject |-> own,
                event |-> "triggered"] \in events'
    BY <1>1, <1>3, <2>1 DEF Notices
  <2>2. QED
    BY <2>1 DEF Raised
<1>8. book'[own].last = "triggered" => Raised(own)'
  <2>1. CASE said = "none"
    <3>1. events \subseteq events'
      BY <1>3
    <3>2. book[own].last = "triggered" => Raised(own)
      BY <1>2 DEF MonitorsAgree
    <3>3. QED
      BY <1>5, <2>1, <3>1, <3>2, RaisedStays
  <2>2. CASE said # "none"
    <3>1. book'[own].last = said
      BY <1>5, <2>2 DEF MonitorLedger!Written
    <3>2. QED
      BY <1>7, <3>1
  <2>3. QED
    BY <2>1, <2>2
<1>9. \A m \in Monitors : /\ Agrees(active'[m], book'[m])
                          /\ book'[m].last = "triggered" => Raised(m)'
  <2> SUFFICES ASSUME NEW m \in Monitors
               PROVE  /\ Agrees(active'[m], book'[m])
                      /\ book'[m].last = "triggered" => Raised(m)'
    OBVIOUS
  <2>1. CASE m = own
    BY <1>6, <1>8, <2>1
  <2>2. CASE m # own
    <3>1. /\ Agrees(active[m], book[m])
          /\ book[m].last = "triggered" => Raised(m)
      BY DEF MonitorsAgree
    <3>2. events \subseteq events'
      BY <1>3
    <3>3. QED
      BY <1>4, <2>2, <3>1, <3>2, RaisedStays
  <2>3. QED
    BY <2>1, <2>2
<1>10. ASSUME NEW d \in Calls, call'[d].pc \in Informed
      PROVE  Agrees(call'[d].active, book'[call'[d].monitor])
  <2>1. d # c
    BY <1>10, CommitEffect DEF Informed
  <2>2. call'[d] = call[d]
    BY <2>1, CommitEffect DEF Untouched
  <2>3. call[d].monitor \in Monitors \ {own}
    BY <1>1, <1>2, <1>10, <2>1, <2>2, OtherMonitor
       DEF LockHeld, Informed, Inside, Phases
  <2>4. QED
    BY <1>4, <1>10, <2>2, <2>3 DEF MonitorsAgree
<1>11. QED
  BY <1>9, <1>10 DEF MonitorsAgree

LEMMA NextAgree ==
  TypeOK /\ LockHeld /\ MonitorsAgree /\ [Next]_vars => MonitorsAgree'
<1> SUFFICES ASSUME TypeOK, LockHeld, MonitorsAgree, [Next]_vars
             PROVE  MonitorsAgree'
  OBVIOUS
<1>1. ASSUME NEW c \in Calls, NEW m \in Monitors, Run(c, m) \/ TryRun(c, m)
      PROVE  MonitorsAgree'
  <2>1. call'[c].pc \notin Informed /\ Untouched(c)
    BY <1>1, StartEffect DEF Informed
  <2>2. UNCHANGED <<active, book, events>>
    BY <1>1 DEF Run, TryRun, tables, history
  <2>3. QED
    BY <2>1, <2>2, QuietAgree
<1>2. ASSUME NEW c \in Calls, CallStep(c) PROVE MonitorsAgree'
  <2>1. CASE Acquire(c) \/ LoadFails(c) \/ CommitFails(c) \/ Finish(c)
    <3>1. call'[c].pc \notin Informed /\ Untouched(c)
      BY <2>1, AcquireEffect, ReturnEffect DEF Informed
    <3>2. UNCHANGED <<active, book, events>>
      BY <2>1 DEF Acquire, LoadFails, CommitFails, Finish, tables, history
    <3>3. QED
      BY <3>1, <3>2, QuietAgree
  <2>2. CASE Load(c)
    <3>1. UNCHANGED <<active, book, events>> /\ call[c].monitor \in Monitors
      BY <2>2 DEF TypeOK, Load, tables, history
    <3>2. QED
      BY <2>2, <3>1, LoadEffect, QuietAgree
  <2>3. ASSUME NEW s \in Trivalent, Execute(c, s) PROVE MonitorsAgree'
    <3>1. UNCHANGED <<active, book, events>> /\ call[c].pc \in Informed
      BY <2>3 DEF Execute, tables, history, Informed
    <3>2. QED
      BY <2>3, <3>1, ExecuteEffect, QuietAgree
  <2>4. CASE EvaluateBoard(c)
    <3>1. UNCHANGED <<active, book, events>> /\ call[c].pc \in Informed
      BY <2>4 DEF EvaluateBoard, tables, history, Informed
    <3>2. QED
      BY <2>4, <3>1, EvaluateEffect, QuietAgree
  <2>5. CASE EvaluateBoardFails(c)
    <3>1. UNCHANGED <<active, book, events>> /\ call[c].pc \in Informed
      BY <2>5 DEF EvaluateBoardFails, tables, history, Informed
    <3>2. QED
      BY <2>5, <3>1, EvaluateFailsEffect, QuietAgree
  <2>6. QED
    BY <1>2, <2>1, <2>2, <2>3, <2>4, <2>5, CommitAgree DEF CallStep
<1>3. CASE Restart
  BY <1>3 DEF MonitorsAgree, Raised, Restart, NoCall, Informed, tables, history
<1>4. CASE Outside
  <2>1. call' = call /\ events' = events
    BY <1>4, OutsideSteps, OutsideMonitors DEF Outside
  <2>2. ASSUME NEW m \in Monitors
        PROVE  /\ Agrees(active'[m], book'[m])
               /\ \A was : Agrees(was, book[m]) => Agrees(was, book'[m])
               /\ book'[m].last = book[m].last
    BY <1>4, OutsideMonitors, ResetAgrees DEF TypeOK, MonitorsAgree
  <2>3. ASSUME NEW c \in Calls, call[c].pc \in Informed
        PROVE  Agrees(call[c].active, book'[call[c].monitor])
    <3>1. call[c].monitor \in Monitors
      BY <2>3 DEF LockHeld, Informed
    <3>2. Agrees(call[c].active, book[call[c].monitor])
      BY <2>3 DEF MonitorsAgree
    <3>3. QED
      BY <2>2, <3>1, <3>2
  <2>4. \A m \in Monitors : book'[m].last = "triggered" => Raised(m)'
    BY <2>1, <2>2 DEF MonitorsAgree, Raised
  <2>5. QED
    BY <2>1, <2>2, <2>3, <2>4 DEF MonitorsAgree
<1>5. QED
  BY <1>1, <1>2, <1>3, <1>4, StepCases

LEMMA InitAgree == Init => MonitorsAgree
<1> SUFFICES ASSUME Init PROVE MonitorsAgree
  OBVIOUS
<1>1. \A c \in Calls : call[c].pc \notin Informed
  BY DEF Init, NoCall, Informed
<1>2. \A m \in Monitors : active[m] = FALSE /\ book[m].last = "none"
  BY DEF Init, MonitorLedger!Init, MonitorLedger!BlankPage
<1>3. QED
  BY <1>1, <1>2 DEF MonitorsAgree, Agrees

-----------------------------------------------------------------------------
(* The activity of trend rules and the events that announced it.             *)

BoardRaised(r) ==
  \A i \in Items : i \in r.judged /\ r.verdict[i]
                   => r.flip[i] = "triggered" \/ Raised(i)

RequestRaised(r) == r.op = "updateItem" /\ r.active => Raised(r.target)

\* A step of one call that stores no rule state.
LEMMA QuietRules ==
  ASSUME RulesWereRaised, NEW c \in Calls, Untouched(c),
         UNCHANGED <<ruleActive, events, request>>,
         SameBoard(c) \/ call'[c].judged = {} \/ Judgement(call'[c])
  PROVE  RulesWereRaised'
<1>1. ASSUME NEW d \in Calls PROVE BoardRaised(call'[d])
  <2>1. CASE d = c
    <3>1. CASE SameBoard(c) \/ call'[c].judged = {}
      BY <2>1, <3>1 DEF RulesWereRaised, BoardRaised, SameBoard
    <3>2. CASE Judgement(call'[c])
      BY <2>1, <3>2, JudgementRaises DEF RulesWereRaised, BoardRaised
    <3>3. QED
      BY <3>1, <3>2
  <2>2. CASE d # c
    BY <2>2 DEF RulesWereRaised, BoardRaised, Untouched
  <2>3. QED
    BY <2>1, <2>2
<1>2. QED
  BY <1>1 DEF RulesWereRaised, BoardRaised, Raised

LEMMA CommitRules ==
  ASSUME TypeOK, RulesWereRaised, NEW c \in Calls, Commit(c)
  PROVE  RulesWereRaised'
<1>1. /\ events \subseteq events'
      /\ request' = request
      /\ \A i \in Items : ruleActive'[i] = IF i \in call[c].judged
                                           THEN call[c].verdict[i]
                                           ELSE ruleActive[i]
  BY DEF Commit
<1>2. ASSUME NEW i \in Items, i \in call[c].judged,
             call[c].flip[i] = "triggered"
      PROVE  Raised(i)'
  <2>1. [record |-> call[c].record, subject |-> i, event |-> "triggered"]
          \in events'
    BY <1>2 DEF Commit, Notices
  <2>2. QED
    BY <2>1 DEF Raised
<1>3. ASSUME NEW i \in Items, ruleActive'[i] PROVE Raised(i)'
  <2>1. CASE i \in call[c].judged /\ call[c].flip[i] = "triggered"
    BY <1>2, <2>1
  <2>2. CASE Raised(i)
    BY <1>1, <2>2, RaisedStays
  <2>3. QED
    BY <1>1, <1>3, <2>1, <2>2 DEF RulesWereRaised
<1>4. ASSUME NEW d \in Calls, NEW i \in Items,
             i \in call'[d].judged /\ call'[d].verdict[i]
      PROVE  call'[d].flip[i] = "triggered" \/ Raised(i)'
  <2>1. /\ call'[d].judged = call[d].judged
        /\ call'[d].verdict = call[d].verdict
        /\ call'[d].flip = call[d].flip
    BY CommitEffect DEF SameBoard, Untouched
  <2>2. call[d].flip[i] = "triggered" \/ Raised(i)
    BY <1>4, <2>1 DEF RulesWereRaised
  <2>3. QED
    BY <1>1, <2>1, <2>2, RaisedStays
<1>5. ASSUME NEW q \in Requests, request[q].op = "updateItem",
             request[q].active
      PROVE  Raised(request[q].target)'
  <2>1. PICK i : i = request[q].target
    OBVIOUS
  <2>2. Raised(i)
    BY <1>5, <2>1 DEF RulesWereRaised
  <2>3. Raised(i)'
    BY <1>1, <2>2, RaisedStays
  <2>4. QED
    BY <1>1, <2>1, <2>3 DEF Raised
<1>6. QED
  BY <1>1, <1>3, <1>4, <1>5 DEF RulesWereRaised

\* Requests only carry states they read, and only store states they carry.
LEMMA OutsideRules ==
  ASSUME TypeOK, RulesWereRaised, Outside
  PROVE  RulesWereRaised'
<1>1. call' = call /\ events' = events
  BY OutsideSteps, OutsideMonitors DEF Outside
<1> SUFFICES /\ \A i \in Items : ruleActive'[i] => Raised(i)
             /\ \A q \in Requests : RequestRaised(request'[q])
  BY <1>1 DEF RulesWereRaised, Raised, RequestRaised
<1>2. \A q \in Requests : RequestRaised(request[q])
  BY DEF RulesWereRaised, RequestRaised
<1>3. RequestRaised(NoRequest)
  BY DEF RequestRaised, NoRequest
<1>4. CASE UNCHANGED <<ruleActive, request>>
  BY <1>2, <1>4 DEF RulesWereRaised
<1>5. ASSUME NEW q \in Requests, NEW m \in Monitors, NEW p \in Policies,
             ReadMonitor(q, m, p) \/ DeleteRecords(q, m)
      PROVE  /\ \A i \in Items : ruleActive'[i] => Raised(i)
             /\ \A r \in Requests : RequestRaised(request'[r])
  <2>1. /\ ruleActive' = ruleActive
        /\ request'[q].op # "updateItem"
        /\ \A r \in Requests \ {q} : request'[r] = request[r]
    BY <1>5 DEF TypeOK, ReadMonitor, DeleteRecords, tables, NoRequest
  <2>2. QED
    BY <1>2, <2>1 DEF RulesWereRaised, RequestRaised
<1>6. ASSUME NEW q \in Requests, WriteMonitor(q) \/ ResetBoard(q)
      PROVE  /\ \A i \in Items : ruleActive'[i] => Raised(i)
             /\ \A r \in Requests : RequestRaised(request'[r])
  <2>1. \A i \in Items : ruleActive'[i] => ruleActive[i]
    BY <1>6 DEF WriteMonitor, ResetBoard
  <2>2. request' = [request EXCEPT ![q] = NoRequest]
    BY <1>6 DEF WriteMonitor, ResetBoard, Done
  <2>3. QED
    BY <1>2, <1>3, <2>1, <2>2 DEF TypeOK, RulesWereRaised
<1>7. ASSUME NEW i \in Items, NEW m \in Monitors, CreateItem(i, m)
      PROVE  /\ \A j \in Items : ruleActive'[j] => Raised(j)
             /\ \A r \in Requests : RequestRaised(request'[r])
  BY <1>2, <1>7 DEF TypeOK, RulesWereRaised, CreateItem
<1>8. ASSUME NEW q \in Requests, NEW i \in Items, NEW m \in Monitors,
             NEW e \in BOOLEAN, NEW reset \in BOOLEAN,
             ReadItem(q, i, m, e, reset)
      PROVE  /\ \A j \in Items : ruleActive'[j] => Raised(j)
             /\ \A r \in Requests : RequestRaised(request'[r])
  <2>1. /\ ruleActive' = ruleActive
        /\ request'[q].target = i
        /\ request'[q].active = (~reset /\ ruleActive[i])
        /\ \A r \in Requests \ {q} : request'[r] = request[r]
    BY <1>8 DEF TypeOK, ReadItem, tables
  <2>2. QED
    BY <1>2, <2>1 DEF RulesWereRaised, RequestRaised
<1>9. ASSUME NEW q \in Requests, WriteItem(q)
      PROVE  /\ \A j \in Items : ruleActive'[j] => Raised(j)
             /\ \A r \in Requests : RequestRaised(request'[r])
  <2>1. request' = [request EXCEPT ![q] = NoRequest]
    BY <1>9 DEF WriteItem, Done
  <2>2. \/ ruleActive' = ruleActive
        \/ ruleActive' = [ruleActive EXCEPT ![request[q].target] =
                            request[q].active]
    BY <1>9 DEF WriteItem
  <2>3. RequestRaised(request[q]) /\ request[q].op = "updateItem"
    BY <1>2, <1>9 DEF WriteItem
  <2>4. \A j \in Items : ruleActive'[j] => Raised(j)
    BY <2>2, <2>3 DEF TypeOK, RulesWereRaised, RequestRaised
  <2>5. QED
    BY <1>2, <1>3, <2>1, <2>4 DEF TypeOK
<1>10. CASE \/ \E r \in sending : SenderReturns(r)
            \/ \E m \in Monitors, p \in Policies : CreateMonitor(m, p)
            \/ \E m \in Monitors : DeleteMonitor(m)
            \/ \E i \in Items : DeleteItem(i)
            \/ UNCHANGED vars
  <2>1. UNCHANGED <<ruleActive, request>>
    BY <1>10 DEF SenderReturns, CreateMonitor, DeleteMonitor, DeleteItem,
                 tables, vars
  <2>2. QED
    BY <1>4, <2>1
<1>11. QED
  BY <1>5, <1>6, <1>7, <1>8, <1>9, <1>10
     DEF Outside, MonitorRequest, ItemRequest, Policies

LEMMA NextRules == TypeOK /\ RulesWereRaised /\ [Next]_vars => RulesWereRaised'
<1> SUFFICES ASSUME TypeOK, RulesWereRaised, [Next]_vars
             PROVE  RulesWereRaised'
  OBVIOUS
<1>1. ASSUME NEW c \in Calls, NEW m \in Monitors, Run(c, m) \/ TryRun(c, m)
      PROVE  RulesWereRaised'
  <2>1. call'[c].judged = {} /\ Untouched(c)
    BY <1>1, StartEffect
  <2>2. UNCHANGED <<ruleActive, events, request>>
    BY <1>1 DEF Run, TryRun, tables
  <2>3. QED
    BY <2>1, <2>2, QuietRules
<1>2. ASSUME NEW c \in Calls, CallStep(c) PROVE RulesWereRaised'
  <2>1. CASE LoadFails(c) \/ CommitFails(c) \/ Finish(c)
    <3>1. call'[c].judged = {} /\ Untouched(c)
      BY <2>1, ReturnEffect
         DEF TypeOK, LoadFails, CommitFails, Finish, Return, NoCall
    <3>2. UNCHANGED <<ruleActive, events, request>>
      BY <2>1 DEF LoadFails, CommitFails, Finish, tables
    <3>3. QED
      BY <3>1, <3>2, QuietRules
  <2>2. ASSUME NEW s \in Trivalent,
               Acquire(c) \/ Load(c) \/ Execute(c, s) \/ EvaluateBoardFails(c)
        PROVE  RulesWereRaised'
    <3>1. SameBoard(c) /\ Untouched(c)
      BY <2>2, AcquireEffect, LoadEffect, ExecuteEffect, EvaluateFailsEffect
    <3>2. UNCHANGED <<ruleActive, events, request>>
      BY <2>2 DEF Acquire, Load, Execute, EvaluateBoardFails, tables
    <3>3. QED
      BY <3>1, <3>2, QuietRules
  <2>3. CASE EvaluateBoard(c)
    BY <2>3, EvaluateEffect, QuietRules DEF EvaluateBoard, tables
  <2>4. "true" \in Trivalent
    BY DEF Trivalent
  <2>5. QED
    BY <1>2, <2>1, <2>2, <2>3, <2>4, CommitRules DEF CallStep
<1>3. CASE Restart
  BY <1>3 DEF RulesWereRaised, Raised, Restart, NoCall, NoRequest, tables
<1>4. CASE Outside
  BY <1>4, OutsideRules
<1>5. QED
  BY <1>1, <1>2, <1>3, <1>4, StepCases

LEMMA InitRules == Init => RulesWereRaised
BY DEF Init, RulesWereRaised, NoCall, NoRequest

-----------------------------------------------------------------------------
(* The main results. *)

LEMMA Invariance == Spec => []IInv
<1>1. Init => IInv
  BY InitType, InitLock, InitAgree, InitRules, InitRecords DEF IInv
<1>2. IInv /\ [Next]_vars => IInv'
  BY NextType, NextLock, NextAgree, NextRules, NextRecords DEF IInv
<1>3. QED
  BY <1>1, <1>2, PTL DEF Spec

\* Whatever is stored as active was announced by a committed event, and no
\* recovery of the monitor followed: state and events cannot drift apart.
THEOREM StoredActivityWasAnnounced == Spec => []ActiveWasAnnounced
<1>1. IInv => ActiveWasAnnounced
  BY DEF IInv, MonitorsAgree, RulesWereRaised, Agrees, Raised,
         ActiveWasAnnounced
<1>2. QED
  BY <1>1, Invariance, PTL

\* Under "once" no second trigger is announced while the first one stands.
THEOREM TriggersOnce == Spec => OnceTriggersOnce
<1> DEFINE Silent ==
      \A c \in Calls :
        Commits(c) /\ call[c].policy = "once"
          /\ CommittedEvent(c) = "triggered"
        => ~MonitorLedger!Open(book[call[c].monitor])
<1>1. IInv => Silent
  <2> SUFFICES ASSUME IInv, NEW c \in Calls, call[c].pc = "committing",
                      call[c].policy = "once",
                      CommittedEvent(c) = "triggered"
               PROVE  ~MonitorLedger!Open(book[call[c].monitor])
    BY DEF Commits
  <2>1. ~call[c].active
    BY DEF CommittedEvent, EventOf
  <2>2. Agrees(call[c].active, book[call[c].monitor])
    BY DEF IInv, MonitorsAgree, Informed
  <2>3. QED
    BY <2>1, <2>2 DEF Agrees, MonitorLedger!Open
<1>2. QED
  BY <1>1, Invariance, PTL DEF OnceTriggersOnce

\* What executions announce about a monitor is a sequence the ledger allows:
\* the system implements AlertLedger for its monitors.
THEOREM MonitorLedgerImplemented == Spec => MonitorsFollowLedger
<1>1. Init => MonitorLedger!Init
  BY DEF Init
<1>2. ASSUME IInv, IInv', [Next]_vars
      PROVE  [MonitorLedger!Next]_book
  <2>1. book' \in [Monitors -> MonitorLedger!Page]
    BY <1>2 DEF IInv, TypeOK
  <2>2. CASE Outside
    <3>1. ASSUME NEW m \in Monitors PROVE MonitorLedger!Entry(m)
      BY <1>2, <2>2, OutsideMonitors
         DEF IInv, Reset, Same, MonitorLedger!Entry, MonitorLedger!Reopen
    <3>2. QED
      BY <2>1, <3>1 DEF MonitorLedger!Next
  <2>3. ASSUME NEW c \in Calls, Commit(c) PROVE [MonitorLedger!Next]_book
    <3> DEFINE said == CommittedEvent(c)
               own == call[c].monitor
    <3>1. /\ call[c].active \in BOOLEAN
          /\ Agrees(call[c].active, book[own])
          /\ own \in Monitors
      BY <1>2, <2>3 DEF IInv, TypeOK, CallRecord, MonitorsAgree, Informed,
                        Commit
    <3>2. CASE said = "none"
      BY <2>3, <3>2 DEF Commit, Announce
    <3>3. CASE said # "none"
      <4>1. book' = [book EXCEPT ![own] =
                       MonitorLedger!Written(book[own], said)]
        BY <2>3, <3>3 DEF Commit, Announce
      <4>2. book'[own] = MonitorLedger!Written(book[own], said)
        BY <1>2, <3>1, <4>1 DEF IInv, TypeOK
      <4>3. said \in {"triggered", "recovered"}
        BY <3>3, EventOfType DEF CommittedEvent, Event
      <4>4. said = "recovered" => book[own].last = "triggered"
        BY <3>1 DEF CommittedEvent, EventOf, Agrees
      <4>5. MonitorLedger!Entry(own)
        BY <3>1, <4>2, <4>3, <4>4 DEF MonitorLedger!Entry,
           MonitorLedger!Repeat, MonitorLedger!Clear
      <4>6. \A m \in Monitors \ {own} : book'[m] = book[m]
        BY <1>2, <4>1 DEF IInv, TypeOK
      <4>7. QED
        BY <2>1, <4>5, <4>6 DEF MonitorLedger!Next, MonitorLedger!Entry
    <3>4. QED
      BY <3>2, <3>3
  <2>4. CASE ~Outside /\ ~\E c \in Calls : Commit(c)
    <3>1. book' = book
      BY <1>2, <2>4, StepCases DEF Run, TryRun, CallStep, Acquire, LoadFails,
         Load, Execute, EvaluateBoard, EvaluateBoardFails, CommitFails,
         Finish, Restart, history
    <3>2. QED
      BY <3>1
  <2>5. QED
    BY <2>2, <2>3, <2>4
<1>3. QED
  BY <1>1, <1>2, Invariance, PTL
     DEF Spec, MonitorsFollowLedger, MonitorLedger!Spec

-----------------------------------------------------------------------------
(* Trend rules and what was announced about them.  An edit of an item writes *)
(* back a runtime state it read before, which an execution may have replaced *)
(* meanwhile, so that this part is about boards whose items are not edited.  *)

\* What a call is about to store and announce for an item it judged fits what
\* was announced last, and the item still is its monitor's.
Fits(r, i) ==
  /\ owner[i] = r.monitor
  /\ r.flip[i] = "none" => Agrees(r.verdict[i], trend[i])
  /\ r.flip[i] = "triggered" => r.verdict[i] /\ ~TrendLedger!Open(trend[i])
  /\ r.flip[i] = "recovered" => ~r.verdict[i] /\ trend[i].last = "triggered"

BoardFits(r) ==
  /\ r.pc \notin {"committing", "committed"} => r.judged = {}
  /\ \A i \in Items \ r.judged : r.flip[i] = "none"
  /\ r.pc = "committing" => \A i \in r.judged : Fits(r, i)

NoItemEdits == \A q \in Requests : request[q].op # "updateItem"

TrendsAgree ==
  /\ \A i \in Items : Agrees(ruleActive[i], trend[i])
  /\ \A c \in Calls : BoardFits(call[c])
  /\ NoItemEdits

LEMMA NoCallFits == BoardFits(NoCall)
BY DEF BoardFits, NoCall

\* A step of one call that stores no rule state.
LEMMA QuietTrends ==
  ASSUME TrendsAgree, NEW c \in Calls, Untouched(c), BoardFits(call'[c]),
         UNCHANGED <<ruleActive, owner, trend, request>>
  PROVE  TrendsAgree'
<1>1. \A d \in Calls : BoardFits(call'[d])
  BY DEF TrendsAgree, Untouched
<1>2. \A d \in Calls : BoardFits(call[d])'
  BY <1>1 DEF BoardFits, Fits
<1>3. QED
  BY <1>2 DEF TrendsAgree, NoItemEdits

\* One reading of an item gives a verdict and a flip that fit its page.
LEMMA JudgementFits ==
  ASSUME TypeOK, TrendsAgree, NEW r, r.pc = "committing", Judgement(r)
  PROVE  BoardFits(r)
<1> SUFFICES ASSUME NEW i \in r.judged PROVE Fits(r, i)
  BY DEF BoardFits, Judgement
<1>1. PICK t \in Trivalent : /\ r.verdict[i] = ActiveAfter(t, ruleActive[i])
                             /\ r.flip[i] = FlipOf(t, ruleActive[i])
  BY DEF Judgement
<1>2. /\ i \in Items /\ owner[i] = r.monitor
      /\ ruleActive[i] \in BOOLEAN
      /\ Agrees(ruleActive[i], trend[i])
  BY DEF Judgement, TypeOK, TrendsAgree
<1>3. CASE ruleActive[i]
  BY <1>1, <1>2, <1>3
     DEF Fits, Agrees, ActiveAfter, FlipOf, Trivalent, TrendLedger!Open
<1>4. CASE ~ruleActive[i]
  BY <1>1, <1>2, <1>4
     DEF Fits, Agrees, ActiveAfter, FlipOf, Trivalent, TrendLedger!Open
<1>5. QED
  BY <1>3, <1>4

\* A call that keeps its board, in a phase where that board means the same.
LEMMA SameBoardFits ==
  ASSUME TrendsAgree, NEW c \in Calls, SameBoard(c),
         call[c].pc \notin {"committing", "committed"} \/ call'[c].pc = "committed"
  PROVE  BoardFits(call'[c])
BY DEF TrendsAgree, BoardFits, SameBoard


\* A commit stores and announces what it judged, and no call that is about to
\* commit judged any of those items: it would hold the same mutex.
LEMMA CommitTrends ==
  ASSUME TypeOK, LockHeld, TrendsAgree, NEW c \in Calls, Commit(c)
  PROVE  TrendsAgree'
<1>1. /\ call[c] \in CallRecord /\ call[c].pc = "committing"
      /\ owner' = owner /\ request' = request
      /\ \A i \in Items :
           ruleActive'[i] = IF i \in call[c].judged THEN call[c].verdict[i]
                            ELSE ruleActive[i]
      /\ \A i \in Items :
           trend'[i] = IF call[c].flip[i] = "none" THEN trend[i]
                       ELSE TrendLedger!Written(trend[i], call[c].flip[i])
  BY DEF TypeOK, Commit, Announce
<1>2. BoardFits(call[c])
  BY DEF TrendsAgree
<1>3. ASSUME NEW i \in Items PROVE Agrees(ruleActive'[i], trend'[i])
  <2>1. CASE i \notin call[c].judged
    BY <1>1, <1>2, <2>1 DEF BoardFits, TrendsAgree
  <2>2. CASE i \in call[c].judged
    <3>1. Fits(call[c], i) /\ ruleActive'[i] = call[c].verdict[i]
      BY <1>1, <1>2, <2>2 DEF BoardFits
    <3>2. CASE call[c].flip[i] = "none"
      BY <1>1, <3>1, <3>2 DEF Fits
    <3>3. CASE call[c].flip[i] # "none"
      <4>1. call[c].flip[i] \in {"triggered", "recovered"}
        BY <1>1, <3>3 DEF CallRecord, Event
      <4>2. trend'[i].last = call[c].flip[i]
        <5>1. trend'[i] = TrendLedger!Written(trend[i], call[c].flip[i])
          BY <1>1, <3>3
        <5>2. QED
          BY <5>1 DEF TrendLedger!Written
      <4>3. QED
        BY <3>1, <4>1, <4>2 DEF Fits, Agrees
    <3>4. QED
      BY <3>2, <3>3
  <2>3. QED
    BY <2>1, <2>2
<1>4. ASSUME NEW d \in Calls, NEW i, (i \in call[d].judged)',
             (call[d].pc = "committing")'
      PROVE  Fits(call[d], i)'
  <2>1. d # c
    BY <1>4, CommitEffect
  <2>2. call'[d] = call[d]
    BY <2>1, CommitEffect DEF Untouched
  <2>3. i \in Items /\ Fits(call[d], i)
    BY <1>4, <2>2 DEF TrendsAgree, BoardFits, TypeOK, CallRecord
  <2>4. call[c].monitor # call[d].monitor
    BY <1>1, <1>4, <2>1, <2>2, OtherMonitor DEF Inside, Phases
  <2>5. i \notin call[c].judged
    BY <1>1, <1>2, <2>3, <2>4 DEF BoardFits, Fits
  <2>6. trend'[i] = trend[i]
    BY <1>1, <1>2, <2>3, <2>5 DEF BoardFits
  <2>7. QED
    BY <1>1, <2>2, <2>3, <2>6 DEF Fits
<1>5. ASSUME NEW d \in Calls PROVE BoardFits(call[d])'
  <2>1. CASE d = c
    BY <1>2, <2>1, CommitEffect DEF BoardFits, SameBoard
  <2>2. CASE d # c
    <3>1. call'[d] = call[d] /\ BoardFits(call[d])
      BY <2>2, CommitEffect DEF Untouched, TrendsAgree
    <3>2. QED
      BY <1>4, <3>1 DEF BoardFits
  <2>3. QED
    BY <2>1, <2>2
<1>6. QED
  BY <1>1, <1>3, <1>5 DEF TrendsAgree, NoItemEdits

\* What a request may do to an item that nobody edits: reset its rule, in the
\* table and in the ledger, and give it to a monitor if it had none.
ItemReset(i) ==
  /\ ruleActive'[i] = FALSE
  /\ trend'[i] = [trend[i] EXCEPT !.reopened = TRUE]

ItemSame(i) == ruleActive'[i] = ruleActive[i] /\ trend'[i] = trend[i]

LEMMA OutsideEdits ==
  ASSUME TypeOK, NoItemEdits, "updateItem" \notin Ops, Outside
  PROVE  NoItemEdits'
<1> DEFINE Sets(q, r) == request' = [request EXCEPT ![q] = r]
<1>1. ASSUME NEW q \in Requests, NEW r, Sets(q, r), r.op # "updateItem"
      PROVE  NoItemEdits'
  BY <1>1 DEF TypeOK, NoItemEdits
<1>2. ASSUME NEW q \in Requests, WriteMonitor(q) \/ ResetBoard(q) \/ WriteItem(q)
      PROVE  NoItemEdits'
  <2>1. Sets(q, NoRequest)
    BY <1>2 DEF WriteMonitor, ResetBoard, WriteItem, Done
  <2>2. NoRequest.op # "updateItem"
    BY DEF NoRequest
  <2>3. QED
    BY <1>1, <2>1, <2>2
<1>3. ASSUME NEW q \in Requests, NEW m \in Monitors, NEW p \in Policies,
             ReadMonitor(q, m, p)
      PROVE  NoItemEdits'
  <2>1. PICK r : r = [NoRequest EXCEPT !.op = "updateMonitor", !.target = m,
                                       !.policy = p]
    OBVIOUS
  <2>2. Sets(q, r)
    BY <1>3, <2>1 DEF ReadMonitor
  <2>3. r.op = "updateMonitor"
    BY <2>1 DEF NoRequest
  <2>4. QED
    BY <1>1, <2>2, <2>3
<1>4. ASSUME NEW q \in Requests, NEW m \in Monitors, DeleteRecords(q, m)
      PROVE  NoItemEdits'
  <2>1. PICK r : r = [NoRequest EXCEPT !.op = "deleteRecords", !.target = m]
    OBVIOUS
  <2>2. r.op = "deleteRecords" /\ Sets(q, r)
    BY <1>4, <2>1 DEF DeleteRecords, NoRequest
  <2>3. QED
    BY <1>1, <2>2
<1>5. \A q \in Requests, i \in Items, m \in Monitors, e, reset \in BOOLEAN :
        ~ReadItem(q, i, m, e, reset)
  BY DEF ReadItem
<1>6. CASE request' = request
  BY <1>6 DEF NoItemEdits
<1>7. QED
  BY <1>2, <1>3, <1>4, <1>5, <1>6 DEF Outside, SenderReturns, MonitorRequest,
     CreateMonitor, DeleteMonitor, ItemRequest, CreateItem, DeleteItem, vars

LEMMA OutsideItems ==
  ASSUME TypeOK, NoItemEdits, "updateItem" \notin Ops, Outside,
         NEW j \in Items
  PROVE  /\ ItemReset(j) \/ ItemSame(j)
         /\ owner'[j] = owner[j] \/ owner[j] = Nobody
<1>1. ASSUME NEW m \in Monitors, NEW p \in Policies, CreateMonitor(m, p)
      PROVE  ItemSame(j) /\ owner' = owner
  BY <1>1 DEF CreateMonitor, Forget, ItemSame
<1>2. ASSUME NEW q \in Requests, WriteMonitor(q)
      PROVE  ItemSame(j) /\ owner' = owner
  BY <1>2 DEF WriteMonitor, Forget, history, ItemSame
<1>3. ASSUME NEW q \in Requests, ResetBoard(q)
      PROVE  (ItemReset(j) \/ ItemSame(j)) /\ owner' = owner
  <2> DEFINE mine == {i \in items : owner[i] = request[q].target}
  <2>1. owner' = owner
    BY <1>3 DEF ResetBoard
  <2>2. CASE /\ ruleActive' = [i \in Items |-> ruleActive[i] /\ i \notin mine]
             /\ Forget({}, mine)
    <3>1. j \in mine => ruleActive'[j] = FALSE
      BY <2>2
    <3>2. j \notin mine => ruleActive'[j] = ruleActive[j]
      BY <2>2 DEF TypeOK
    <3>3. /\ j \in mine => trend'[j] = [trend[j] EXCEPT !.reopened = TRUE]
          /\ j \notin mine => trend'[j] = trend[j]
      BY <2>2 DEF Forget
    <3>4. QED
      BY <2>1, <3>1, <3>2, <3>3, Zenon DEF ItemReset, ItemSame
  <2>3. CASE UNCHANGED <<ruleActive, history>>
    BY <2>1, <2>3 DEF ItemSame, history
  <2>4. QED
    BY <1>3, <2>1, <2>2, <2>3 DEF ResetBoard
<1>4. ASSUME NEW i \in Items, NEW m \in Monitors, CreateItem(i, m)
      PROVE  /\ ItemReset(j) \/ ItemSame(j)
             /\ owner'[j] = owner[j] \/ owner[j] = Nobody
  <2>1. CASE j = i
    BY <1>4, <2>1 DEF TypeOK, CreateItem, Forget, ItemReset
  <2>2. CASE j # i
    BY <1>4, <2>2 DEF TypeOK, CreateItem, Forget, ItemSame
  <2>3. QED
    BY <2>1, <2>2
<1>5. ASSUME NEW q \in Requests, NEW m \in Monitors,
             DeleteRecords(q, m) \/ \E p \in Policies : ReadMonitor(q, m, p)
      PROVE  ItemSame(j) /\ owner' = owner
  BY <1>5 DEF DeleteRecords, ReadMonitor, ItemSame, tables, history
<1>6. CASE \/ \E r \in sending : SenderReturns(r)
           \/ \E m \in Monitors : DeleteMonitor(m)
           \/ \E i \in Items : DeleteItem(i)
           \/ UNCHANGED vars
  BY <1>6 DEF SenderReturns, DeleteMonitor, DeleteItem, ItemSame, tables,
              history, vars
<1>7. \A q \in Requests, i \in Items, m \in Monitors, e, reset \in BOOLEAN :
        ~ReadItem(q, i, m, e, reset)
  BY DEF ReadItem
<1>8. \A q \in Requests : ~WriteItem(q)
  BY DEF WriteItem, NoItemEdits
<1>9. QED
  BY <1>1, <1>2, <1>3, <1>4, <1>5, <1>6, <1>7, <1>8
     DEF Outside, MonitorRequest, ItemRequest


\* A request can only mark a page as reopened, which every verdict and every
\* flip in flight survives.
LEMMA OutsideTrends ==
  ASSUME TypeOK, LockHeld, TrendsAgree, "updateItem" \notin Ops, Outside
  PROVE  TrendsAgree'
<1>1. call' = call /\ NoItemEdits /\ NoItemEdits'
  BY OutsideSteps, OutsideEdits DEF Outside, TrendsAgree
<1>2. ASSUME NEW i \in Items
      PROVE  /\ trend'[i].last = trend[i].last
             /\ trend'[i].reopened = trend[i].reopened \/ trend'[i].reopened
             /\ ItemReset(i) \/ ruleActive'[i] = ruleActive[i]
  <2>1. trend[i] \in TrendLedger!Page
    BY DEF TypeOK
  <2>2. ItemReset(i) \/ ItemSame(i)
    BY <1>1, OutsideItems
  <2>3. CASE ItemReset(i)
    BY <2>1, <2>3 DEF ItemReset, TrendLedger!Page
  <2>4. CASE ItemSame(i)
    BY <2>4 DEF ItemSame
  <2>5. QED
    BY <2>2, <2>3, <2>4
<1>3. ASSUME NEW i \in Items PROVE Agrees(ruleActive[i], trend[i])'
  <2>1. Agrees(ruleActive[i], trend[i])
    BY DEF TrendsAgree
  <2>2. trend[i] \in TrendLedger!Page
    BY DEF TypeOK
  <2>3. CASE ItemReset(i)
    BY <2>2, <2>3 DEF ItemReset, Agrees, TrendLedger!Page
  <2>4. CASE ruleActive'[i] = ruleActive[i]
    BY <1>2, <2>1, <2>4 DEF Agrees
  <2>5. QED
    BY <1>2, <2>3, <2>4
<1>4. ASSUME NEW c \in Calls, NEW i \in call[c].judged,
             call[c].pc = "committing"
      PROVE  Fits(call[c], i)'
  <2>1. Fits(call[c], i) /\ i \in Items
    BY <1>4 DEF TrendsAgree, BoardFits, TypeOK, CallRecord
  <2>2. call[c].monitor \in Monitors
    BY <1>4 DEF LockHeld
  <2>3. owner'[i] = owner[i]
    BY <1>1, <2>1, <2>2, OutsideItems, ConstantsAssumption DEF Fits
  <2>4. call[c].verdict[i] \in BOOLEAN
    BY <2>1 DEF TypeOK, CallRecord
  <2>5. QED
    BY <1>1, <1>2, <2>1, <2>3, <2>4 DEF Fits, Agrees, TrendLedger!Open
<1>5. ASSUME NEW c \in Calls PROVE BoardFits(call[c])'
  BY <1>1, <1>4 DEF BoardFits, TrendsAgree
<1>6. QED
  BY <1>1, <1>3, <1>5 DEF TrendsAgree

LEMMA NextTrends ==
  ASSUME TypeOK, LockHeld, TrendsAgree, "updateItem" \notin Ops, [Next]_vars
  PROVE  TrendsAgree'
<1>1. ASSUME NEW c \in Calls, NEW m \in Monitors, Run(c, m) \/ TryRun(c, m)
      PROVE  TrendsAgree'
  <2>1. BoardFits(call'[c]) /\ Untouched(c)
    BY <1>1, StartEffect DEF BoardFits
  <2>2. UNCHANGED <<ruleActive, owner, trend, request>>
    BY <1>1 DEF Run, TryRun, tables, history
  <2>3. QED
    BY <2>1, <2>2, QuietTrends
<1>2. ASSUME NEW c \in Calls, CallStep(c) PROVE TrendsAgree'
  <2>1. CASE LoadFails(c) \/ CommitFails(c) \/ Finish(c)
    <3>1. BoardFits(call'[c]) /\ Untouched(c)
      BY <2>1, ReturnEffect, NoCallFits
    <3>2. UNCHANGED <<ruleActive, owner, trend, request>>
      BY <2>1 DEF LoadFails, CommitFails, Finish, tables, history
    <3>3. QED
      BY <3>1, <3>2, QuietTrends
  <2>2. ASSUME NEW s \in Trivalent,
               Acquire(c) \/ Load(c) \/ Execute(c, s) \/ EvaluateBoardFails(c)
        PROVE  TrendsAgree'
    <3>1. SameBoard(c) /\ Untouched(c)
      BY <2>2, AcquireEffect, LoadEffect, ExecuteEffect, EvaluateFailsEffect
    <3>2. call[c].pc \notin {"committing", "committed"}
      BY <2>2 DEF Acquire, Load, Execute, EvaluateBoardFails
    <3>3. BoardFits(call'[c])
      BY <3>1, <3>2, SameBoardFits
    <3>4. UNCHANGED <<ruleActive, owner, trend, request>>
      BY <2>2 DEF Acquire, Load, Execute, EvaluateBoardFails, tables, history
    <3>5. QED
      BY <3>1, <3>3, <3>4, QuietTrends
  <2>3. CASE EvaluateBoard(c)
    <3>1. /\ Untouched(c)
          /\ call'[c].pc = "committing" /\ Judgement(call'[c])
      BY <2>3, EvaluateEffect
    <3>2. BoardFits(call'[c])
      BY <3>1, JudgementFits
    <3>3. UNCHANGED <<ruleActive, owner, trend, request>>
      BY <2>3 DEF EvaluateBoard, tables, history
    <3>4. QED
      BY <3>1, <3>2, <3>3, QuietTrends
  <2>4. "true" \in Trivalent
    BY DEF Trivalent
  <2>5. QED
    BY <1>2, <2>1, <2>2, <2>3, <2>4, CommitTrends DEF CallStep
<1>3. CASE Restart
  <2>1. /\ \A c \in Calls : call'[c] = NoCall
        /\ \A q \in Requests : request'[q].op # "updateItem"
        /\ UNCHANGED <<ruleActive, owner, trend>>
    BY <1>3 DEF Restart, tables, history, NoRequest
  <2>2. \A c \in Calls : BoardFits(call[c])'
    BY <2>1 DEF BoardFits, NoCall
  <2>3. QED
    BY <2>1, <2>2 DEF TrendsAgree, NoItemEdits
<1>4. CASE Outside
  BY <1>4, OutsideTrends
<1>5. QED
  BY <1>1, <1>2, <1>3, <1>4, StepCases

LEMMA InitTrends == Init => TrendsAgree
<1> SUFFICES ASSUME Init PROVE TrendsAgree
  OBVIOUS
<1>1. \A i \in Items : ruleActive[i] = FALSE /\ trend[i].last = "none"
  BY DEF Init, TrendLedger!Init, TrendLedger!BlankPage
<1>2. \A c \in Calls : BoardFits(call[c])
  BY NoCallFits DEF Init
<1>3. NoItemEdits
  BY DEF Init, NoItemEdits, NoRequest
<1>4. QED
  BY <1>1, <1>2, <1>3 DEF TrendsAgree, Agrees

\* "Trend rules notify only when they pass from not triggered to triggered, or
\* from triggered to recovered" (docs/guide/status-board.md): as long as nobody
\* edits an item, what executions announce about trend rules is a sequence the
\* ledger allows, where no trigger may be repeated, whatever is created,
\* cleared, deleted or restarted between the evaluation and its commit.
THEOREM TrendLedgerImplemented ==
  "updateItem" \notin Ops => (Spec => TrendsFollowLedger)
<1> DEFINE TInv == TypeOK /\ LockHeld /\ TrendsAgree
<1> SUFFICES ASSUME "updateItem" \notin Ops PROVE Spec => TrendsFollowLedger
  OBVIOUS
<1>1. Init => TInv /\ TrendLedger!Init
  BY InitType, InitLock, InitTrends DEF Init
<1>2. TInv /\ [Next]_vars => TInv'
  BY NextType, NextLock, NextTrends
<1>3. ASSUME TInv, TInv', [Next]_vars
      PROVE  [TrendLedger!Next]_trend
  <2>1. trend' \in [Items -> TrendLedger!Page]
    BY <1>3 DEF TypeOK
  <2>2. CASE Outside
    <3>1. ASSUME NEW i \in Items PROVE TrendLedger!Entry(i)
      BY <1>3, <2>2, OutsideItems
         DEF TrendsAgree, ItemReset, ItemSame, TrendLedger!Entry,
             TrendLedger!Reopen
    <3>2. QED
      BY <2>1, <3>1 DEF TrendLedger!Next
  <2>3. ASSUME NEW c \in Calls, Commit(c) PROVE [TrendLedger!Next]_trend
    <3>1. ASSUME NEW i \in Items PROVE TrendLedger!Entry(i)
      <4> DEFINE said == call[c].flip[i]
      <4>1. trend'[i] = IF said = "none" THEN trend[i]
                        ELSE TrendLedger!Written(trend[i], said)
        BY <2>3 DEF Commit, Announce
      <4>2. said \in Event /\ call[c].pc = "committing"
        BY <1>3, <2>3 DEF TypeOK, CallRecord, Commit
      <4>3. said # "none" => Fits(call[c], i)
        BY <1>3, <4>2 DEF TrendsAgree, BoardFits
      <4>4. CASE said = "none"
        BY <4>1, <4>4 DEF TrendLedger!Entry
      <4>5. CASE said = "triggered"
        <5>1. trend'[i] = TrendLedger!Written(trend[i], "triggered")
          BY <4>1, <4>5
        <5>2. QED
          BY <4>3, <4>5, <5>1 DEF Fits, TrendLedger!Entry, TrendLedger!Raise
      <4>6. CASE said = "recovered"
        <5>1. trend'[i] = TrendLedger!Written(trend[i], "recovered")
          BY <4>1, <4>6
        <5>2. QED
          BY <4>3, <4>6, <5>1 DEF Fits, TrendLedger!Entry, TrendLedger!Clear
      <4>7. QED
        BY <4>2, <4>4, <4>5, <4>6 DEF Event
    <3>2. QED
      BY <2>1, <3>1 DEF TrendLedger!Next
  <2>4. CASE ~Outside /\ ~\E c \in Calls : Commit(c)
    <3>1. trend' = trend
      BY <1>3, <2>4, StepCases DEF Run, TryRun, CallStep, Acquire, LoadFails,
         Load, Execute, EvaluateBoard, EvaluateBoardFails, CommitFails,
         Finish, Restart, history
    <3>2. QED
      BY <3>1
  <2>5. QED
    BY <2>2, <2>3, <2>4
<1>4. QED
  BY <1>1, <1>2, <1>3, PTL DEF Spec, TrendsFollowLedger, TrendLedger!Spec
=============================================================================

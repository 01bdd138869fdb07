---------------------- MODULE ExceptionLifecycleProofs ----------------------
(***************************************************************************)
(* What holds of ExceptionLifecycle for any number of exceptions,          *)
(* supervisors, readers and rereads, and any cap.                          *)
(***************************************************************************)
EXTENDS ExceptionLifecycle, FiniteSetTheorems, TLAPS

\* Advancing tasks keeps them tasks and keeps their number.
LEMMA AdvancedTasks ==
  ASSUME TypeOK, NEW e \in Exceptions, NEW r, NEW from, NEW s \in TaskStatuses
  PROVE  /\ Advanced(e, r, from, s) \in Seq(Tasks)
         /\ Len(Advanced(e, r, from, s)) = Len(tasks[e])
         /\ DOMAIN Advanced(e, r, from, s) = DOMAIN tasks[e]
<1>1. tasks[e] \in Seq(Tasks)
  BY DEF TypeOK
<1>2. DOMAIN Advanced(e, r, from, s) = 1..Len(tasks[e])
  BY <1>1 DEF Advanced
<1>3. \A k \in 1..Len(tasks[e]) : Advanced(e, r, from, s)[k] \in Tasks
  <2> TAKE k \in 1..Len(tasks[e])
  <2>1. tasks[e][k] \in Tasks
    BY <1>1
  <2>2. [tasks[e][k] EXCEPT !.status = s] \in Tasks
    BY <2>1 DEF Tasks
  <2> QED
    BY <1>1, <2>1, <2>2 DEF Advanced
<1>4. Advanced(e, r, from, s) = [k \in 1..Len(tasks[e]) |-> Advanced(e, r, from, s)[k]]
  BY <1>1 DEF Advanced
<1>5. Len(tasks[e]) \in Nat
  BY <1>1
<1>6. Advanced(e, r, from, s) \in [1..Len(tasks[e]) -> Tasks]
  BY <1>2, <1>3, <1>4
<1> QED
  BY <1>1, <1>2, <1>5, <1>6

\* The initial state is well typed.
LEMMA InitTyped == Init => TypeOK
  BY LifecycleAssumption DEF Init, TypeOK, LifecycleAssumption, Statuses, Certificates, Uncaptured

\* Every step keeps the types.
LEMMA TypeStep == TypeOK /\ [Next]_vars => TypeOK'
<1> SUFFICES ASSUME TypeOK, [Next]_vars PROVE TypeOK'
  OBVIOUS
<1> USE DEF rows, Stay, Done
<1>1. ASSUME NEW p \in Supervisors, NEW op \in Ops, NEW e \in Exceptions, Load(p, op, e)
      PROVE  TypeOK'
  <2>1. \A c \in Certifiable(e) \cup {"none"} : c \in Certificates
    BY DEF Certifiable, Certificates
  <2>2. PICK c \in Certificates :
          req' = [req EXCEPT ![p] = [at |-> "loaded", op |-> op, ex |-> e,
                                     certify |-> c, free |-> FALSE]]
    BY <1>1, <2>1 DEF Load
  <2>3. [at |-> "loaded", op |-> op, ex |-> e, certify |-> c, free |-> FALSE] \in Requests
    BY DEF Requests
  <2> QED
    BY <1>1, <2>2, <2>3 DEF Load, TypeOK
<1>2. ASSUME NEW p \in Supervisors, CheckOutstanding(p) PROVE TypeOK'
  <2>1. req[p] \in Requests
    BY <1>2 DEF CheckOutstanding, TypeOK
  <2>2. [req[p] EXCEPT !.at = "checked"] \in Requests
    BY <2>1 DEF Requests
  <2>3. \/ req' = [req EXCEPT ![p] = [at |-> "idle"]]
        \/ req' = [req EXCEPT ![p] = [req[p] EXCEPT !.at = "checked"]]
    BY <1>2 DEF CheckOutstanding
  <2> QED
    BY <1>2, <2>2, <2>3 DEF CheckOutstanding, TypeOK
<1>3. ASSUME NEW p \in Supervisors, OrderStarts(p) PROVE TypeOK'
  <2>1. (~Outstanding(req[p].ex)) \in BOOLEAN
    OBVIOUS
  <2>2. req[p] \in Requests
    BY <1>3 DEF OrderStarts, TypeOK
  <2>3. [req[p] EXCEPT !.at = "updating", !.free = ~Outstanding(req[p].ex)] \in Requests
    BY <2>1, <2>2 DEF Requests
  <2>4. req' = [req EXCEPT ![p] =
                  [req[p] EXCEPT !.at = "updating", !.free = ~Outstanding(req[p].ex)]]
    BY <1>3 DEF OrderStarts
  <2> QED
    BY <1>3, <2>3, <2>4 DEF OrderStarts, TypeOK
<1>4. ASSUME NEW p \in Supervisors, OrderCommits(p) PROVE TypeOK'
  <2> DEFINE e == req[p].ex
             task == [reader |-> TaskReader(p, e), status |-> "issued"]
  <2>1. e \in Exceptions
    BY <1>4 DEF OrderCommits, TypeOK, Requests
  <2>2. task \in Tasks
    BY <2>1, LifecycleAssumption DEF TaskReader, Tasks, TaskStatuses
  <2>3. tasks[e] \in Seq(Tasks)
    BY <2>1 DEF TypeOK
  <2>4. Append(tasks[e], task) \in Seq(Tasks)
    BY <2>2, <2>3
  <2>5. CASE req[p].free /\ OrderAllowed(e)
    <3> HIDE DEF e, task
    <3>1. /\ status' = [status EXCEPT ![e] = "reread_ordered"]
          /\ rereadCount' = [rereadCount EXCEPT ![e] = rereadCount[e] + 1]
          /\ actionedBy' = [actionedBy EXCEPT ![e] = p]
          /\ tasks' = [tasks EXCEPT ![e] = Append(tasks[e], task)]
          /\ req' = [req EXCEPT ![p] = [at |-> "idle"]]
          /\ UNCHANGED <<certified, reread, decided>>
      BY <1>4, <2>5 DEF OrderCommits, CountUp, e, task
    <3>2. rereadCount[e] + 1 \in Nat
      BY <2>1 DEF TypeOK
    <3> QED
      BY <2>1, <2>4, <3>1, <3>2 DEF TypeOK, Statuses
  <2>6. CASE ~(req[p].free /\ OrderAllowed(e))
    BY <1>4, <2>6 DEF OrderCommits, TypeOK
  <2> QED
    BY <2>5, <2>6
<1>5. ASSUME NEW p \in Supervisors, Close(p) PROVE TypeOK'
  <2> DEFINE e == req[p].ex
             s == Closing(req[p].op)
             c == IF req[p].op = "escalate" THEN certified[e] ELSE req[p].certify
  <2>1. e \in Exceptions /\ req[p].op \in Ops \ {"reread"} /\ req[p].certify \in Certificates
    BY <1>5 DEF Close, TypeOK, Requests
  <2>2. s \in TERMINAL_STATUSES
    BY <2>1 DEF Closing, Ops, TERMINAL_STATUSES
  <2>3. c \in Certificates
    BY <2>1 DEF TypeOK
  <2>4. [by |-> p, status |-> s, certified |-> c] \in Decisions
    BY <2>2, <2>3 DEF Decisions
  <2>5. CASE CloseAllowed(e)
    <3> HIDE DEF e, s, c
    <3>1. /\ status' = [status EXCEPT ![e] = s]
          /\ certified' = [certified EXCEPT ![e] = c]
          /\ actionedBy' = [actionedBy EXCEPT ![e] = p]
          /\ decided' = [decided EXCEPT ![e] =
               decided[e] \cup {[by |-> p, status |-> s, certified |-> c]}]
          /\ req' = [req EXCEPT ![p] = [at |-> "idle"]]
          /\ UNCHANGED <<rereadCount, tasks, reread>>
      BY <1>5, <2>5 DEF Close, e, s, c
    <3> QED
      BY <2>1, <2>2, <2>3, <2>4, <3>1 DEF TypeOK, Statuses
  <2>6. CASE ~CloseAllowed(e)
    BY <1>5, <2>6 DEF Close, TypeOK
  <2> QED
    BY <2>5, <2>6
<1>6. ASSUME NEW r \in Readers, FetchTasks(r) PROVE TypeOK'
  <2>1. \A e \in Exceptions : Advanced(e, r, {"issued"}, Fetched) \in Seq(Tasks)
    BY AdvancedTasks DEF Fetched, TaskStatuses
  <2>2. tasks' \in [Exceptions -> Seq(Tasks)]
    BY <1>6, <2>1 DEF FetchTasks
  <2> QED
    BY <1>6, <2>2 DEF FetchTasks, TypeOK
<1>7. ASSUME NEW r \in Readers, NEW i \in Rereads, NEW e \in Exceptions,
             CaptureReread(r, i, e)
      PROVE  TypeOK'
  BY <1>7 DEF CaptureReread, TypeOK
<1>8. ASSUME NEW i \in Rereads, LandReread(i) PROVE TypeOK'
  <2> DEFINE e == reread[i].ex
             done == Advanced(e, reread[i].by, TaskStatuses, "done")
  <2>1. /\ reread[i] \in [at : {"captured", "landed"}, ex : Exceptions, by : Readers]
        /\ e \in Exceptions
    BY <1>8 DEF LandReread, TypeOK, Uncaptured
  <2>2. reread' \in [Rereads -> {Uncaptured} \cup
                       [at : {"captured", "landed"}, ex : Exceptions, by : Readers]]
    <3>1. [reread[i] EXCEPT !.at = "landed"]
            \in [at : {"captured", "landed"}, ex : Exceptions, by : Readers]
      BY <2>1
    <3>2. reread' = [reread EXCEPT ![i] = [reread[i] EXCEPT !.at = "landed"]]
      BY <1>8 DEF LandReread
    <3> QED
      BY <3>1, <3>2 DEF TypeOK
  <2>3. done \in Seq(Tasks)
    BY <2>1, AdvancedTasks DEF TaskStatuses
  <2>4. CASE ReceiveAllowed(e)
    <3> HIDE DEF e, done
    <3>1. /\ status' = [status EXCEPT ![e] = "reread_received"]
          /\ rereadCount' = [rereadCount EXCEPT ![e] = rereadCount[e] + 1]
          /\ tasks' = [tasks EXCEPT ![e] = done]
          /\ UNCHANGED <<certified, actionedBy, req, decided>>
      BY <1>8, <2>4 DEF LandReread, CountUp, e, done
    <3>2. rereadCount[e] + 1 \in Nat
      BY <2>1 DEF TypeOK
    <3> QED
      BY <2>1, <2>2, <2>3, <3>1, <3>2 DEF TypeOK, Statuses
  <2>5. CASE ~ReceiveAllowed(e)
    BY <1>8, <2>2, <2>5 DEF LandReread, TypeOK
  <2> QED
    BY <2>4, <2>5
<1>9. ASSUME NEW e \in Exceptions, StopRead(e) PROVE TypeOK'
  BY <1>9 DEF StopRead, TypeOK, Statuses, TERMINAL_STATUSES
<1>10. CASE UNCHANGED vars
  BY <1>10 DEF vars, TypeOK
<1> QED
  BY <1>1, <1>2, <1>3, <1>4, <1>5, <1>6, <1>7, <1>8, <1>9, <1>10 DEF Next, SupervisorStep

\* Every reachable state is well typed: a count is a number, a task list a
\* sequence of tasks, a decision one a supervisor can take.
THEOREM TypeCorrect == Spec => []TypeOK
<1>1. Init => TypeOK
  BY InitTyped
<1>2. TypeOK /\ [Next]_vars => TypeOK'
  BY TypeStep
<1> QED
  BY <1>1, <1>2, PTL DEF Spec

-----------------------------------------------------------------------------
(* The cap and the tasks.                                                  *)

\* Both counts together are inductive over well typed states.
CountsWithin == RereadCap /\ TasksWithinCap

LEMMA CountsStep == TypeOK /\ CountsWithin /\ [Next]_vars => CountsWithin'
<1> SUFFICES ASSUME TypeOK, CountsWithin, [Next]_vars PROVE CountsWithin'
  OBVIOUS
<1> USE DEF rows, Stay, Done, CountsWithin, RereadCap, TasksWithinCap
<1>1. ASSUME NEW p \in Supervisors, NEW op \in Ops, NEW e \in Exceptions, Load(p, op, e)
      PROVE  CountsWithin'
  BY <1>1 DEF Load
<1>2. ASSUME NEW p \in Supervisors, CheckOutstanding(p) \/ OrderStarts(p)
      PROVE  CountsWithin'
  BY <1>2 DEF CheckOutstanding, OrderStarts
<1>3. ASSUME NEW p \in Supervisors, OrderCommits(p) PROVE CountsWithin'
  <2> DEFINE e == req[p].ex
             task == [reader |-> TaskReader(p, e), status |-> "issued"]
  <2>1. e \in Exceptions
    BY <1>3 DEF OrderCommits, TypeOK, Requests
  <2>2. tasks[e] \in Seq(Tasks) /\ rereadCount[e] \in Nat /\ MAX_REREADS \in Nat
    BY <2>1, LifecycleAssumption DEF TypeOK
  <2>3. Len(Append(tasks[e], task)) = Len(tasks[e]) + 1
    BY <2>2
  <2>4. CASE req[p].free /\ OrderAllowed(e)
    <3> HIDE DEF e, task
    <3>1. /\ rereadCount[e] < MAX_REREADS
          /\ rereadCount' = [rereadCount EXCEPT ![e] = rereadCount[e] + 1]
          /\ tasks' = [tasks EXCEPT ![e] = Append(tasks[e], task)]
      BY <1>3, <2>4 DEF OrderCommits, OrderAllowed, CountUp, e, task
    <3>2. rereadCount[e] + 1 <= MAX_REREADS /\ Len(tasks[e]) + 1 <= rereadCount[e] + 1
      BY <2>1, <2>2, <3>1
    <3>3. \A d \in Exceptions :
            /\ rereadCount'[d] = IF d = e THEN rereadCount[e] + 1 ELSE rereadCount[d]
            /\ tasks'[d] = IF d = e THEN Append(tasks[e], task) ELSE tasks[d]
      BY <2>1, <3>1 DEF TypeOK
    <3> QED
      BY <2>1, <2>3, <3>2, <3>3
  <2>5. CASE ~(req[p].free /\ OrderAllowed(e))
    BY <1>3, <2>5 DEF OrderCommits
  <2> QED
    BY <2>4, <2>5
<1>4. ASSUME NEW p \in Supervisors, Close(p) PROVE CountsWithin'
  BY <1>4 DEF Close
<1>5. ASSUME NEW r \in Readers, FetchTasks(r) PROVE CountsWithin'
  <2>1. \A e \in Exceptions : Len(tasks'[e]) = Len(tasks[e])
    BY <1>5, AdvancedTasks DEF FetchTasks, Fetched, TaskStatuses
  <2> QED
    BY <1>5, <2>1 DEF FetchTasks
<1>6. ASSUME NEW r \in Readers, NEW i \in Rereads, NEW e \in Exceptions,
             CaptureReread(r, i, e)
      PROVE  CountsWithin'
  BY <1>6 DEF CaptureReread
<1>7. ASSUME NEW i \in Rereads, LandReread(i) PROVE CountsWithin'
  <2> DEFINE e == reread[i].ex
             done == Advanced(e, reread[i].by, TaskStatuses, "done")
  <2>1. e \in Exceptions
    BY <1>7 DEF LandReread, TypeOK, Uncaptured
  <2>2. tasks[e] \in Seq(Tasks) /\ rereadCount[e] \in Nat /\ MAX_REREADS \in Nat
    BY <2>1, LifecycleAssumption DEF TypeOK
  <2>3. Len(done) = Len(tasks[e])
    BY <2>1, AdvancedTasks DEF TaskStatuses
  <2>4. CASE ReceiveAllowed(e)
    <3> HIDE DEF e, done
    <3>1. /\ rereadCount[e] < MAX_REREADS
          /\ rereadCount' = [rereadCount EXCEPT ![e] = rereadCount[e] + 1]
          /\ tasks' = [tasks EXCEPT ![e] = done]
      BY <1>7, <2>4 DEF LandReread, ReceiveAllowed, CountUp, e, done
    <3>2. /\ rereadCount[e] + 1 <= MAX_REREADS
          /\ Len(tasks[e]) \in Nat /\ Len(done) <= rereadCount[e] + 1
      BY <2>1, <2>2, <2>3, <3>1
    <3>3. \A d \in Exceptions :
            /\ rereadCount'[d] = IF d = e THEN rereadCount[e] + 1 ELSE rereadCount[d]
            /\ tasks'[d] = IF d = e THEN done ELSE tasks[d]
      BY <2>1, <3>1 DEF TypeOK
    <3> QED
      BY <2>1, <3>2, <3>3
  <2>5. CASE ~ReceiveAllowed(e)
    BY <1>7, <2>5 DEF LandReread
  <2> QED
    BY <2>4, <2>5
<1>8. ASSUME NEW e \in Exceptions, StopRead(e) PROVE CountsWithin'
  BY <1>8 DEF StopRead
<1>9. CASE UNCHANGED vars
  BY <1>9 DEF vars
<1> QED
  BY <1>1, <1>2, <1>3, <1>4, <1>5, <1>6, <1>7, <1>8, <1>9 DEF Next, SupervisorStep

\* However many supervisors order rereads at once and however late rereads
\* land, no exception ever counts more than MAX_REREADS of them, and none has
\* more tasks than were counted.
THEOREM CapHolds == Spec => []RereadCap /\ []TasksWithinCap
<1>1. Init => CountsWithin
  BY LifecycleAssumption DEF Init, CountsWithin, RereadCap, TasksWithinCap
<1>2. CountsWithin => RereadCap /\ TasksWithinCap
  BY DEF CountsWithin
<1> QED
  BY <1>1, <1>2, TypeCorrect, CountsStep, PTL DEF Spec

-----------------------------------------------------------------------------
(* Orders and decisions.                                                   *)

\* OrderedHasTask is inductive: fetching a task leaves it in hand, and what
\* finishes tasks also moves the exception on.
LEMMA OrderedStep == TypeOK /\ OrderedHasTask /\ [Next]_vars => OrderedHasTask'
<1> SUFFICES ASSUME TypeOK, OrderedHasTask, [Next]_vars,
                    NEW e \in Exceptions, status'[e] = "reread_ordered"
             PROVE  Outstanding(e)'
  BY DEF OrderedHasTask
<1> USE DEF rows, Stay, Done, OrderedHasTask, Outstanding
<1>1. ASSUME UNCHANGED <<status, tasks>> PROVE Outstanding(e)'
  BY <1>1
<1>2. ASSUME NEW p \in Supervisors, NEW op \in Ops, NEW d \in Exceptions, Load(p, op, d)
      PROVE  Outstanding(e)'
  BY <1>1, <1>2 DEF Load
<1>3. ASSUME NEW p \in Supervisors, CheckOutstanding(p) \/ OrderStarts(p)
      PROVE  Outstanding(e)'
  BY <1>1, <1>3 DEF CheckOutstanding, OrderStarts
<1>4. ASSUME NEW p \in Supervisors, OrderCommits(p) PROVE Outstanding(e)'
  <2> DEFINE d == req[p].ex
             task == [reader |-> TaskReader(p, d), status |-> "issued"]
  <2>1. d \in Exceptions
    BY <1>4 DEF OrderCommits, TypeOK, Requests
  <2>2. tasks[d] \in Seq(Tasks)
    BY <2>1 DEF TypeOK
  <2>3. CASE req[p].free /\ OrderAllowed(d)
    <3>1. InHand(task)
      BY DEF InHand
    <3> HIDE DEF d, task
    <3>2. /\ status' = [status EXCEPT ![d] = "reread_ordered"]
          /\ tasks' = [tasks EXCEPT ![d] = Append(tasks[d], task)]
      BY <1>4, <2>3 DEF OrderCommits, d, task
    <3>3. CASE e = d
      <4>1. tasks'[e] = Append(tasks[d], task)
        BY <2>1, <3>2, <3>3 DEF TypeOK
      <4>2. /\ Len(tasks[d]) + 1 \in DOMAIN tasks'[e]
            /\ tasks'[e][Len(tasks[d]) + 1] = task
        BY <2>2, <4>1
      <4> QED
        BY <3>1, <4>2
    <3>4. CASE e # d
      BY <3>2, <3>4 DEF TypeOK
    <3> QED
      BY <3>3, <3>4
  <2>4. CASE ~(req[p].free /\ OrderAllowed(d))
    BY <1>1, <1>4, <2>4 DEF OrderCommits
  <2> QED
    BY <2>3, <2>4
<1>5. ASSUME NEW p \in Supervisors, Close(p) PROVE Outstanding(e)'
  <2>1. req[p].op \in Ops \ {"reread"}
    BY <1>5 DEF Close, TypeOK, Requests
  <2>2. Closing(req[p].op) # "reread_ordered"
    BY <2>1 DEF Closing, Ops
  <2>3. status[e] = "reread_ordered" /\ tasks' = tasks
    BY <1>5, <2>2 DEF Close, TypeOK
  <2> QED
    BY <2>3
<1>6. ASSUME NEW r \in Readers, FetchTasks(r) PROVE Outstanding(e)'
  <2>1. PICK k \in DOMAIN tasks[e] : InHand(tasks[e][k])
    BY <1>6 DEF FetchTasks
  <2>2. tasks'[e] = Advanced(e, r, {"issued"}, "delivered")
    BY <1>6 DEF FetchTasks, Fetched
  <2>3. k \in DOMAIN tasks'[e]
    BY <2>1, <2>2 DEF Advanced
  <2>4. tasks[e][k] \in Tasks
    BY <2>1 DEF TypeOK
  <2>5. tasks'[e][k].status = "delivered" \/ tasks'[e][k] = tasks[e][k]
    BY <2>1, <2>2, <2>4 DEF Advanced, Tasks
  <2>6. InHand(tasks'[e][k])
    BY <2>1, <2>5 DEF InHand
  <2> QED
    BY <2>3, <2>6
<1>7. ASSUME NEW r \in Readers, NEW i \in Rereads, NEW d \in Exceptions,
             CaptureReread(r, i, d)
      PROVE  Outstanding(e)'
  BY <1>1, <1>7 DEF CaptureReread
<1>8. ASSUME NEW i \in Rereads, LandReread(i) PROVE Outstanding(e)'
  <2> DEFINE d == reread[i].ex
  <2>1. CASE ReceiveAllowed(d)
    <3>1. d # e
      BY <1>8, <2>1 DEF LandReread, TypeOK
    <3>2. status[e] = "reread_ordered" /\ tasks'[e] = tasks[e]
      BY <1>8, <2>1, <3>1 DEF LandReread, TypeOK
    <3> QED
      BY <3>2
  <2>2. CASE ~ReceiveAllowed(d)
    BY <1>1, <1>8, <2>2 DEF LandReread
  <2> QED
    BY <2>1, <2>2
<1>9. ASSUME NEW d \in Exceptions, StopRead(d) PROVE Outstanding(e)'
  BY <1>9 DEF StopRead, TypeOK
<1>10. CASE UNCHANGED vars
  BY <1>1, <1>10 DEF vars
<1> QED
  BY <1>2, <1>3, <1>4, <1>5, <1>6, <1>7, <1>8, <1>9, <1>10 DEF Next, SupervisorStep

\* An exception waiting for a reread always has a task issued to a reader or
\* already fetched: none waits for something nobody was asked to do.
THEOREM OrdersAreInHand == Spec => []OrderedHasTask
<1>1. Init => OrderedHasTask
  BY DEF Init, OrderedHasTask
<1> QED
  BY <1>1, TypeCorrect, OrderedStep, PTL DEF Spec

\* A closed exception stays as it is in a single step.
LEMMA ClosedStep ==
  ASSUME TypeOK, [Next]_vars, NEW e \in Exceptions, isTerminal(e)
  PROVE  /\ status'[e] = status[e] /\ rereadCount'[e] = rereadCount[e]
         /\ certified'[e] = certified[e] /\ Len(tasks'[e]) = Len(tasks[e])
         /\ actionedBy'[e] = actionedBy[e] /\ decided'[e] = decided[e]
<1> DEFINE Kept ==
      /\ status'[e] = status[e] /\ rereadCount'[e] = rereadCount[e]
      /\ certified'[e] = certified[e] /\ Len(tasks'[e]) = Len(tasks[e])
      /\ actionedBy'[e] = actionedBy[e] /\ decided'[e] = decided[e]
<1> SUFFICES Kept
  OBVIOUS
<1> USE DEF rows, Stay, Done
<1>1. ASSUME UNCHANGED <<rows, decided>> PROVE Kept
  BY <1>1
<1>2. ASSUME NEW p \in Supervisors, NEW op \in Ops, NEW d \in Exceptions, Load(p, op, d)
      PROVE  Kept
  BY <1>1, <1>2 DEF Load
<1>3. ASSUME NEW p \in Supervisors, CheckOutstanding(p) \/ OrderStarts(p) PROVE Kept
  BY <1>1, <1>3 DEF CheckOutstanding, OrderStarts
<1>4. ASSUME NEW p \in Supervisors, OrderCommits(p) PROVE Kept
  <2>1. CASE req[p].free /\ OrderAllowed(req[p].ex)
    <3>1. req[p].ex # e
      BY <2>1 DEF OrderAllowed
    <3> QED
      BY <1>4, <2>1, <3>1 DEF OrderCommits, TypeOK
  <2>2. CASE ~(req[p].free /\ OrderAllowed(req[p].ex))
    BY <1>1, <1>4, <2>2 DEF OrderCommits
  <2> QED
    BY <2>1, <2>2
<1>5. ASSUME NEW p \in Supervisors, Close(p) PROVE Kept
  <2>1. CASE CloseAllowed(req[p].ex)
    <3>1. req[p].ex # e
      BY <2>1 DEF CloseAllowed
    <3> QED
      BY <1>5, <2>1, <3>1 DEF Close, TypeOK
  <2>2. CASE ~CloseAllowed(req[p].ex)
    BY <1>1, <1>5, <2>2 DEF Close
  <2> QED
    BY <2>1, <2>2
<1>6. ASSUME NEW r \in Readers, FetchTasks(r) PROVE Kept
  <2>1. Len(tasks'[e]) = Len(tasks[e])
    BY <1>6, AdvancedTasks DEF FetchTasks, Fetched, TaskStatuses
  <2> QED
    BY <1>6, <2>1 DEF FetchTasks
<1>7. ASSUME NEW r \in Readers, NEW i \in Rereads, NEW d \in Exceptions,
             CaptureReread(r, i, d)
      PROVE  Kept
  BY <1>1, <1>7 DEF CaptureReread
<1>8. ASSUME NEW i \in Rereads, LandReread(i) PROVE Kept
  <2>1. CASE ReceiveAllowed(reread[i].ex)
    <3>1. reread[i].ex # e
      BY <2>1 DEF ReceiveAllowed
    <3> QED
      BY <1>8, <2>1, <3>1 DEF LandReread, TypeOK
  <2>2. CASE ~ReceiveAllowed(reread[i].ex)
    BY <1>1, <1>8, <2>2 DEF LandReread
  <2> QED
    BY <2>1, <2>2
<1>9. ASSUME NEW d \in Exceptions, StopRead(d) PROVE Kept
  BY <1>9 DEF StopRead, TypeOK
<1>10. CASE UNCHANGED vars
  BY <1>1, <1>10 DEF vars
<1> QED
  BY <1>2, <1>3, <1>4, <1>5, <1>6, <1>7, <1>8, <1>9, <1>10 DEF Next, SupervisorStep

\* A closed exception admits no further action, of a supervisor, a reader or a
\* late reread.
THEOREM ClosedForGood == Spec => TerminalIsFinal
<1>1. TypeOK /\ [Next]_vars =>
        [\A e \in Exceptions : isTerminal(e) =>
           /\ status'[e] = status[e] /\ rereadCount'[e] = rereadCount[e]
           /\ certified'[e] = certified[e] /\ Len(tasks'[e]) = Len(tasks[e])]_vars
  BY ClosedStep
<1> QED
  BY <1>1, TypeCorrect, PTL DEF Spec, TerminalIsFinal

\* DecisionStands is inductive over well typed states: a confirmed decision
\* says the exception is closed, and what is closed stays as it is.
LEMMA DecisionStep == TypeOK /\ DecisionStands /\ [Next]_vars => DecisionStands'
<1> SUFFICES ASSUME TypeOK, DecisionStands, [Next]_vars,
                    NEW e \in Exceptions, NEW d \in decided'[e]
             PROVE  d = [by |-> actionedBy'[e], status |-> status'[e],
                         certified |-> certified'[e]]
  BY DEF DecisionStands
<1> USE DEF rows, Stay, Done, DecisionStands
<1>1. CASE isTerminal(e)
  BY <1>1, ClosedStep
<1>2. CASE ~isTerminal(e)
  <2>1. decided[e] = {}
    BY <1>2 DEF isTerminal, TypeOK, Decisions
  <2>2. ASSUME NEW p \in Supervisors, Close(p)
        PROVE  d = [by |-> actionedBy'[e], status |-> status'[e],
                    certified |-> certified'[e]]
    <3> DEFINE x == req[p].ex
               s == Closing(req[p].op)
               c == IF req[p].op = "escalate" THEN certified[x] ELSE req[p].certify
    <3>1. CloseAllowed(x) /\ x = e
      BY <2>1, <2>2 DEF Close, TypeOK
    <3> HIDE DEF x, s, c
    <3>2. /\ status' = [status EXCEPT ![x] = s]
          /\ certified' = [certified EXCEPT ![x] = c]
          /\ actionedBy' = [actionedBy EXCEPT ![x] = p]
          /\ decided' = [decided EXCEPT ![x] =
               decided[x] \cup {[by |-> p, status |-> s, certified |-> c]}]
      BY <2>2, <3>1 DEF Close, x, s, c
    <3>3. decided'[e] = {[by |-> p, status |-> s, certified |-> c]}
      BY <2>1, <3>1, <3>2 DEF TypeOK
    <3> QED
      BY <3>1, <3>2, <3>3 DEF TypeOK
  <2>3. CASE decided' = decided
    BY <2>1, <2>3
  <2>4. decided' = decided \/ \E p \in Supervisors : Close(p)
    BY DEF Next, SupervisorStep, vars, Load, CheckOutstanding, OrderStarts, OrderCommits,
           FetchTasks, CaptureReread, LandReread, StopRead
  <2> QED
    BY <2>2, <2>3, <2>4
<1> QED
  BY <1>1, <1>2

\* A decision confirmed to a supervisor is never replaced: no second
\* supervisor, however the requests race, overwrites its status, its certified
\* read or its author.
THEOREM DecisionsHold == Spec => []DecisionStands
<1>1. Init => DecisionStands
  BY DEF Init, DecisionStands
<1> QED
  BY <1>1, TypeCorrect, DecisionStep, PTL DEF Spec

-----------------------------------------------------------------------------
(* One task at a time.  AtMostOneOutstanding does not hold of Spec; here is  *)
(* what breaks it, and that nothing else does.                               *)

\* No two orders for one exception update its row at once.
OrdersApart ==
  \A p, q \in Supervisors :
    req[p].at = "updating" /\ req[q].at = "updating" /\ req[p].ex = req[q].ex => p = q

\* One task at most is in hand, and an order that may go on found none.
OneTask ==
  /\ \A e \in Exceptions : \A j, k \in DOMAIN tasks[e] :
       InHand(tasks[e][j]) /\ InHand(tasks[e][k]) => j = k
  /\ \A p \in Supervisors : req[p].at = "updating" /\ req[p].free => ~Outstanding(req[p].ex)

\* Fetching or finishing tasks puts none in hand that was not.
LEMMA AdvancedInHand ==
  ASSUME TypeOK, NEW e \in Exceptions, NEW r, NEW k \in DOMAIN tasks[e],
         NEW from, NEW s, from = {"issued"} \/ s = "done",
         InHand(Advanced(e, r, from, s)[k])
  PROVE  InHand(tasks[e][k])
<1>1. tasks[e][k] \in Tasks
  BY DEF TypeOK
<1>2. Advanced(e, r, from, s)[k] = IF tasks[e][k].reader = r /\ tasks[e][k].status \in from
                                   THEN [tasks[e][k] EXCEPT !.status = s] ELSE tasks[e][k]
  BY DEF Advanced
<1>3. [tasks[e][k] EXCEPT !.status = s].status = s
  BY <1>1 DEF Tasks
<1> QED
  BY <1>2, <1>3 DEF InHand

\* The tasks of an exception after a step: none is put back in hand, and one is
\* added only by an order that goes on.
LEMMA TasksAfter ==
  ASSUME TypeOK, [Next]_vars, NEW e \in Exceptions
  PROVE  \/ /\ DOMAIN tasks'[e] = DOMAIN tasks[e]
            /\ \A k \in DOMAIN tasks[e] : InHand(tasks'[e][k]) => InHand(tasks[e][k])
         \/ \E p \in Supervisors :
              /\ OrderCommits(p) /\ req[p].ex = e /\ req[p].free
              /\ \E t : tasks'[e] = Append(tasks[e], t)
<1> DEFINE Less == /\ DOMAIN tasks'[e] = DOMAIN tasks[e]
                   /\ \A k \in DOMAIN tasks[e] : InHand(tasks'[e][k]) => InHand(tasks[e][k])
<1>1. ASSUME tasks'[e] = tasks[e] PROVE Less
  BY <1>1
<1>2. ASSUME NEW p \in Supervisors, OrderCommits(p)
      PROVE  tasks'[e] = tasks[e] \/ (req[p].ex = e /\ req[p].free /\ \E t : tasks'[e] = Append(tasks[e], t))
  <2> DEFINE d == req[p].ex
             task == [reader |-> TaskReader(p, d), status |-> "issued"]
  <2> HIDE DEF d, task
  <2>1. \/ tasks' = tasks
        \/ req[p].free /\ tasks' = [tasks EXCEPT ![d] = Append(tasks[d], task)]
    BY <1>2 DEF OrderCommits, rows, d, task
  <2>2. CASE d = e
    BY <2>1, <2>2 DEF TypeOK, d
  <2>3. CASE d # e
    BY <2>1, <2>3 DEF TypeOK
  <2> QED
    BY <2>2, <2>3
<1>3. ASSUME NEW r \in Readers, FetchTasks(r) PROVE Less
  <2>1. tasks'[e] = Advanced(e, r, {"issued"}, "delivered")
    BY <1>3 DEF FetchTasks, Fetched
  <2>2. DOMAIN tasks'[e] = DOMAIN tasks[e]
    BY <2>1, AdvancedTasks DEF TaskStatuses
  <2> QED
    BY <2>1, <2>2, AdvancedInHand
<1>4. ASSUME NEW i \in Rereads, LandReread(i) PROVE Less
  <2> DEFINE d == reread[i].ex
  <2>1. tasks'[e] = tasks[e] \/ tasks'[e] = Advanced(e, reread[i].by, TaskStatuses, "done")
    <3>1. d \in Exceptions
      BY <1>4 DEF LandReread, TypeOK, Uncaptured
    <3>2. tasks' = tasks \/ tasks' = [tasks EXCEPT ![d] = Advanced(d, reread[i].by, TaskStatuses, "done")]
      BY <1>4 DEF LandReread, rows
    <3> HIDE DEF d
    <3>3. CASE d = e
      BY <3>2, <3>3 DEF TypeOK
    <3>4. CASE d # e
      BY <3>2, <3>4 DEF TypeOK
    <3> QED
      BY <3>3, <3>4
  <2>2. CASE tasks'[e] = Advanced(e, reread[i].by, TaskStatuses, "done")
    <3>1. DOMAIN tasks'[e] = DOMAIN tasks[e]
      BY <2>2, AdvancedTasks DEF TaskStatuses
    <3> QED
      BY <2>2, <3>1, AdvancedInHand
  <2> QED
    BY <1>1, <2>1, <2>2
<1>5. CASE UNCHANGED tasks
  BY <1>1, <1>5
<1>6. \/ UNCHANGED tasks
      \/ \E p \in Supervisors : OrderCommits(p)
      \/ \E r \in Readers : FetchTasks(r)
      \/ \E i \in Rereads : LandReread(i)
  BY DEF Next, SupervisorStep, vars, rows, Load, CheckOutstanding, OrderStarts, Close,
         CaptureReread, StopRead
<1> QED
  BY <1>1, <1>2, <1>3, <1>4, <1>5, <1>6

\* An order that updates found before whether a task is in hand.
LEMMA UpdatingAfter ==
  ASSUME TypeOK, [Next]_vars, NEW p \in Supervisors, req'[p].at = "updating"
  PROVE  \/ req'[p] = req[p]
         \/ tasks' = tasks /\ (req'[p].free => ~Outstanding(req'[p].ex))
<1>1. ASSUME NEW q \in Supervisors, OrderStarts(q)
      PROVE  req'[p] = req[p] \/ (tasks' = tasks /\ (req'[p].free => ~Outstanding(req'[p].ex)))
  <2>1. req[q] \in Requests
    BY <1>1 DEF OrderStarts, TypeOK
  <2> DEFINE free == ~Outstanding(req[q].ex)
  <2>2. req' = [req EXCEPT ![q] = [req[q] EXCEPT !.at = "updating", !.free = free]]
    BY <1>1 DEF OrderStarts
  <2> HIDE DEF free
  <2>3. CASE p = q
    <3>1. req'[p] = [req[q] EXCEPT !.at = "updating", !.free = free]
      BY <2>2, <2>3 DEF TypeOK
    <3>2. req'[p].free = free /\ req'[p].ex = req[q].ex
      BY <2>1, <3>1 DEF Requests
    <3> QED
      BY <1>1, <3>2 DEF OrderStarts, rows, free
  <2>4. CASE p # q
    BY <2>2, <2>4 DEF TypeOK
  <2> QED
    BY <2>3, <2>4
<1>2. ASSUME NEW q \in Supervisors, NEW op \in Ops, NEW e \in Exceptions, Load(q, op, e)
      PROVE  req'[p] = req[p]
  <2>1. PICK c : req' = [req EXCEPT ![q] = [at |-> "loaded", op |-> op, ex |-> e,
                                           certify |-> c, free |-> FALSE]]
    BY <1>2 DEF Load
  <2>2. p # q
    BY <2>1 DEF TypeOK
  <2> QED
    BY <2>1, <2>2 DEF TypeOK
<1>3. ASSUME NEW q \in Supervisors, CheckOutstanding(q) PROVE req'[p] = req[p]
  <2>1. req[q] \in Requests
    BY <1>3 DEF CheckOutstanding, TypeOK
  <2>2. [req[q] EXCEPT !.at = "checked"].at = "checked"
    BY <2>1 DEF Requests
  <2>3. \/ req' = [req EXCEPT ![q] = [at |-> "idle"]]
        \/ req' = [req EXCEPT ![q] = [req[q] EXCEPT !.at = "checked"]]
    BY <1>3 DEF CheckOutstanding, Stay, Done
  <2>4. ASSUME p = q PROVE FALSE
    <3>1. req'[p] = [at |-> "idle"] \/ req'[p] = [req[q] EXCEPT !.at = "checked"]
      BY <2>3, <2>4 DEF TypeOK
    <3>2. CASE req'[p] = [at |-> "idle"]
      BY <3>2
    <3>3. CASE req'[p] = [req[q] EXCEPT !.at = "checked"]
      BY <2>2, <3>3, Zenon
    <3> QED
      BY <3>1, <3>2, <3>3
  <2> QED
    BY <2>3, <2>4 DEF TypeOK
<1>4. ASSUME NEW q \in Supervisors, OrderCommits(q) \/ Close(q) PROVE req'[p] = req[p]
  BY <1>4 DEF OrderCommits, Close, Done, TypeOK
<1>5. CASE UNCHANGED req
  BY <1>5
<1> QED
  BY <1>1, <1>2, <1>3, <1>4, <1>5
  DEF Next, SupervisorStep, vars, FetchTasks, CaptureReread, LandReread, StopRead

\* While orders are apart every step keeps OneTask.
LEMMA OneTaskStep == TypeOK /\ OneTask /\ OrdersApart /\ [Next]_vars => OneTask'
<1> SUFFICES ASSUME TypeOK, OneTask, OrdersApart, [Next]_vars PROVE OneTask'
  OBVIOUS
<1>1. ASSUME NEW e \in Exceptions, NEW j \in DOMAIN tasks'[e], NEW k \in DOMAIN tasks'[e],
             InHand(tasks'[e][j]), InHand(tasks'[e][k])
      PROVE  j = k
  <2>1. CASE /\ DOMAIN tasks'[e] = DOMAIN tasks[e]
             /\ \A i \in DOMAIN tasks[e] : InHand(tasks'[e][i]) => InHand(tasks[e][i])
    BY <1>1, <2>1 DEF OneTask
  <2>2. ASSUME NEW p \in Supervisors, OrderCommits(p), req[p].ex = e, req[p].free,
               NEW t, tasks'[e] = Append(tasks[e], t)
        PROVE  j = k
    <3>1. \A i \in DOMAIN tasks[e] : ~InHand(tasks[e][i])
      BY <2>2 DEF OrderCommits, OneTask, Outstanding
    <3>2. tasks[e] \in Seq(Tasks)
      BY DEF TypeOK
    <3>3. \A i \in DOMAIN tasks'[e] :
            i = Len(tasks[e]) + 1 \/ (i \in DOMAIN tasks[e] /\ tasks'[e][i] = tasks[e][i])
      BY <2>2, <3>2
    <3> QED
      BY <1>1, <3>1, <3>3
  <2> QED
    BY <2>1, <2>2, TasksAfter
<1>2. ASSUME NEW p \in Supervisors, req'[p].at = "updating", req'[p].free
      PROVE  \A k \in DOMAIN tasks'[req'[p].ex] : ~InHand(tasks'[req'[p].ex][k])
  <2>1. CASE req'[p] = req[p]
    <3> DEFINE e == req[p].ex
    <3>1. e \in Exceptions
      BY <1>2, <2>1 DEF TypeOK, Requests
    <3>2. ~Outstanding(e)
      BY <1>2, <2>1 DEF OneTask
    <3>3. \A q \in Supervisors : ~(OrderCommits(q) /\ req[q].ex = e)
      <4> SUFFICES ASSUME NEW q \in Supervisors, OrderCommits(q), req[q].ex = e PROVE FALSE
        OBVIOUS
      <4>1. p = q
        BY <1>2, <2>1 DEF OrderCommits, OrdersApart
      <4>2. req'[q].at = "idle"
        BY DEF OrderCommits, Done, TypeOK
      <4> QED
        BY <1>2, <4>1, <4>2
    <3> QED
      BY <2>1, <3>1, <3>2, <3>3, TasksAfter DEF Outstanding
  <2>2. CASE tasks' = tasks /\ ~Outstanding(req'[p].ex)
    BY <2>2 DEF Outstanding
  <2> QED
    BY <1>2, <2>1, <2>2, UpdatingAfter
<1> QED
  BY <1>1, <1>2, Zenon DEF OneTask, Outstanding, InHand

\* Unless two orders for one exception are in their UPDATE at once, it never has two
\* rereads outstanding, whatever is fetched, captured late or landed meanwhile
\* (exceptions.service.ts:311-312).
THEOREM OneTaskUnlessOrdersMeet == Spec /\ []OrdersApart => []AtMostOneOutstanding
<1>1. Init => OneTask
  BY DEF Init, OneTask
<1>2. TypeOK /\ OneTask => AtMostOneOutstanding
  <2> SUFFICES ASSUME TypeOK, OneTask, NEW e \in Exceptions
               PROVE  Cardinality({k \in DOMAIN tasks[e] : InHand(tasks[e][k])}) <= 1
    BY DEF AtMostOneOutstanding
  <2> DEFINE S == {k \in DOMAIN tasks[e] : InHand(tasks[e][k])}
  <2>1. CASE S = {}
    BY <2>1, FS_EmptySet
  <2>2. CASE S # {}
    <3>1. PICK k \in S : TRUE
      BY <2>2
    <3>2. S = {k}
      BY <3>1 DEF OneTask
    <3>3. Cardinality({k}) = 1
      BY FS_Singleton
    <3> QED
      BY <3>2, <3>3
  <2> QED
    BY <2>1, <2>2
<1> QED
  BY <1>1, <1>2, TypeCorrect, OneTaskStep, PTL DEF Spec
=============================================================================

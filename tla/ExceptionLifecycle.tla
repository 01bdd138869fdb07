------------------------- MODULE ExceptionLifecycle -------------------------
(***************************************************************************)
(* The life of an exception: supervisors order rereads, resolve, override  *)
(* and escalate (apps/api/src/exceptions/exceptions.service.ts), readers   *)
(* fetch their tasks (field/reread-tasks.service.ts) and their rereads     *)
(* land (ingestion/ingestion.service.ts:277-306).                          *)
(*                                                                         *)
(* The API runs on PostgreSQL at its default isolation, READ COMMITTED     *)
(* (db/client.ts sets no other).  A statement sees what was committed when *)
(* it started; an UPDATE re-checks the columns of the row it changes once  *)
(* it holds the row's lock, but a subquery in its WHERE keeps the answer   *)
(* it got at the start.  A request is therefore modelled statement by      *)
(* statement, and an UPDATE with a subquery as two steps.  A transaction's *)
(* writes are visible at its commit, and are one step with it.             *)
(***************************************************************************)
EXTENDS Integers, Sequences, FiniteSets

CONSTANTS
  Exceptions,      \* exceptions under review
  SkipExceptions,  \* those raised against a skipped stop: they have no read
  Supervisors,     \* concurrent requests of supervisors, each by one of them
  Readers,         \* field readers
  FlaggedReader,   \* who took the read an exception flags
  Rereads,         \* ids of the rereads that may be captured
  MAX_REREADS      \* lifecycle.ts:8

ASSUME LifecycleAssumption ==
  /\ SkipExceptions \subseteq Exceptions
  /\ FlaggedReader \in [Exceptions \ SkipExceptions -> Readers]
  /\ MAX_REREADS \in Nat \ {0}

VARIABLES
  status,       \* status of each exception
  rereadCount,  \* its reread_count column
  certified,    \* the read certified for billing: a reread, "flagged" or "none"
  actionedBy,   \* the supervisor whose action it carries, or "nobody"
  tasks,        \* its reread tasks, in the order they were issued
  reread,       \* each reread: for which exception, by whom, how far it got
  req,          \* the request each supervisor has in progress
  decided       \* the closing decisions confirmed to supervisors so far

vars == <<status, rereadCount, certified, actionedBy, tasks, reread, req, decided>>

TERMINAL_STATUSES == {"resolved", "overridden", "escalated"}
Statuses == {"open", "reread_ordered", "reread_received"} \cup TERMINAL_STATUSES
TaskStatuses == {"issued", "delivered", "done"}
Ops == {"reread", "resolve", "override", "escalate"}
Certificates == Rereads \cup {"flagged", "other", "none"}
Tasks == [reader : Readers \cup Supervisors, status : TaskStatuses]
Decisions == [by : Supervisors, status : TERMINAL_STATUSES, certified : Certificates]
Requests ==
  [at : {"idle", "loaded", "checked", "updating"}, op : Ops, ex : Exceptions,
   certify : Certificates, free : BOOLEAN]
Uncaptured == [at |-> "none"]

TypeOK ==
  /\ status \in [Exceptions -> Statuses]
  /\ rereadCount \in [Exceptions -> Nat]
  /\ certified \in [Exceptions -> Certificates]
  /\ actionedBy \in [Exceptions -> Supervisors \cup {"nobody"}]
  /\ tasks \in [Exceptions -> Seq(Tasks)]
  /\ reread \in [Rereads -> {Uncaptured} \cup
                   [at : {"captured", "landed"}, ex : Exceptions, by : Readers]]
  /\ req \in [Supervisors -> {[at |-> "idle"]} \cup Requests]
  /\ decided \in [Exceptions -> SUBSET Decisions]

Init ==
  /\ status = [e \in Exceptions |-> "open"]
  /\ rereadCount = [e \in Exceptions |-> 0]
  /\ certified = [e \in Exceptions |-> "none"]
  /\ actionedBy = [e \in Exceptions |-> "nobody"]
  /\ tasks = [e \in Exceptions |-> <<>>]
  /\ reread = [i \in Rereads |-> Uncaptured]
  /\ req = [p \in Supervisors |-> [at |-> "idle"]]
  /\ decided = [e \in Exceptions |-> {}]

rows == <<status, rereadCount, certified, actionedBy, tasks>>

isTerminal(e) == status[e] \in TERMINAL_STATUSES
InHand(t) == t.status \in {"issued", "delivered"}
Outstanding(e) == \E k \in DOMAIN tasks[e] : InHand(tasks[e][k])

Stay(p, at) == req' = [req EXCEPT ![p].at = at]
Done(p) == req' = [req EXCEPT ![p] = [at |-> "idle"]]

-----------------------------------------------------------------------------
(* Supervisors.                                                            *)

\* The reads a supervisor may certify for e: the flagged one, or nothing for a
\* skip; another read of the meter, if its cycle is the flagged one's or not both
\* are known; a reread that landed for e.  Any other read is an error.
Certifiable(e) ==
  {IF e \in SkipExceptions THEN "none" ELSE "flagged", "other"}
  \cup {i \in Rereads : reread[i].at = "landed" /\ reread[i].ex = e}

\* A request loads its exception and goes on if it is not closed; a reread only
\* under the cap, a closing action with a read that belongs to the exception.
Load(p, op, e) ==
  /\ req[p].at = "idle"
  /\ ~isTerminal(e)
  /\ op = "reread" => rereadCount[e] < MAX_REREADS
  /\ \E c \in IF op \in {"resolve", "override"} THEN Certifiable(e) ELSE {"none"} :
       req' = [req EXCEPT ![p] = [at |-> "loaded", op |-> op, ex |-> e,
                                  certify |-> c, free |-> FALSE]]
  /\ UNCHANGED <<rows, reread, decided>>

\* The fast path of orderReread: a conflict if a task is outstanding.
CheckOutstanding(p) ==
  /\ req[p].at = "loaded" /\ req[p].op = "reread"
  /\ IF Outstanding(req[p].ex) THEN Done(p) ELSE Stay(p, "checked")
  /\ UNCHANGED <<rows, reread, decided>>

\* The UPDATE of orderReread starts: its NOT EXISTS is answered here.
OrderStarts(p) ==
  /\ req[p].at = "checked"
  /\ req' = [req EXCEPT ![p].at = "updating", ![p].free = ~Outstanding(req[p].ex)]
  /\ UNCHANGED <<rows, reread, decided>>

\* Who walks back to the meter: the reader of the flagged read, or the actor
\* if there is none.
TaskReaderNoFallback(p, e) == IF e \in SkipExceptions THEN "nobody" ELSE FlaggedReader[e]
TaskReader(p, e) == IF e \in SkipExceptions THEN p ELSE FlaggedReader[e]

\* The row conditions the UPDATE re-checks under the row's lock.
OrderUncapped(e) == ~isTerminal(e)
OrderAllowed(e) == ~isTerminal(e) /\ rereadCount[e] < MAX_REREADS

CountKept(e) == rereadCount[e]
CountUp(e) == rereadCount[e] + 1

\* ... and it takes effect, with the task insert and the commit, or conflicts.
OrderCommits(p) ==
  LET e == req[p].ex IN
  /\ req[p].at = "updating"
  /\ Done(p)
  /\ IF req[p].free /\ OrderAllowed(e)
     THEN /\ status' = [status EXCEPT ![e] = "reread_ordered"]
          /\ rereadCount' = [rereadCount EXCEPT ![e] = CountUp(e)]
          /\ actionedBy' = [actionedBy EXCEPT ![e] = p]
          /\ tasks' = [tasks EXCEPT ![e] =
               Append(@, [reader |-> TaskReader(p, e), status |-> "issued"])]
          /\ UNCHANGED certified
     ELSE UNCHANGED rows
  /\ UNCHANGED <<reread, decided>>

Closing(op) ==
  CASE op = "resolve" -> "resolved" [] op = "override" -> "overridden"
    [] op = "escalate" -> "escalated"

\* The row condition of the UPDATE of close and escalate.
CloseUnguarded(e) == TRUE
CloseAllowed(e) == ~isTerminal(e)

\* resolve, override or escalate takes effect, or conflicts.  Escalating leaves
\* the certified read alone.
Close(p) ==
  LET e == req[p].ex
      s == Closing(req[p].op)
      c == IF req[p].op = "escalate" THEN certified[e] ELSE req[p].certify IN
  /\ req[p].at = "loaded" /\ req[p].op # "reread"
  /\ Done(p)
  /\ IF CloseAllowed(e)
     THEN /\ status' = [status EXCEPT ![e] = s]
          /\ certified' = [certified EXCEPT ![e] = c]
          /\ actionedBy' = [actionedBy EXCEPT ![e] = p]
          /\ decided' = [decided EXCEPT ![e] =
               @ \cup {[by |-> p, status |-> s, certified |-> c]}]
          /\ UNCHANGED <<rereadCount, tasks>>
     ELSE UNCHANGED <<rows, decided>>
  /\ UNCHANGED reread

-----------------------------------------------------------------------------
(* Readers.                                                                *)

\* The tasks of e, with those of reader r in one of the statuses `from` moved
\* to status s.
Advanced(e, r, from, s) ==
  [k \in DOMAIN tasks[e] |->
     IF tasks[e][k].reader = r /\ tasks[e][k].status \in from
     THEN [tasks[e][k] EXCEPT !.status = s] ELSE tasks[e][k]]

FetchedDone == "done"
Fetched == "delivered"

\* listForReader: what was issued to r is delivered by being fetched.
FetchTasks(r) ==
  /\ tasks' = [e \in Exceptions |-> Advanced(e, r, {"issued"}, Fetched)]
  /\ UNCHANGED <<status, rereadCount, certified, actionedBy, reread, req, decided>>

\* r retakes the meter from a task on screen.  The screen may be stale: the
\* task may be done by now, and it may be used more than once.  Tasks of a skip
\* are not listed (the list joins the flagged read).
CaptureReread(r, i, e) ==
  /\ reread[i] = Uncaptured
  /\ e \notin SkipExceptions
  /\ \E k \in DOMAIN tasks[e] :
       tasks[e][k].reader = r /\ tasks[e][k].status # "issued"
  /\ reread' = [reread EXCEPT ![i] = [at |-> "captured", ex |-> e, by |-> r]]
  /\ UNCHANGED <<rows, req, decided>>

\* The row conditions under which a reread advances its exception.
ReceiveClosed(e) == rereadCount[e] < MAX_REREADS
ReceiveAllowed(e) == ~isTerminal(e) /\ rereadCount[e] < MAX_REREADS

\* A reread reaches the server, at any later time.  The read is stored in any
\* case; a late one leaves the exception alone.
LandReread(i) ==
  LET e == reread[i].ex IN
  /\ reread[i].at = "captured"
  /\ reread' = [reread EXCEPT ![i].at = "landed"]
  /\ IF ReceiveAllowed(e)
     THEN /\ status' = [status EXCEPT ![e] = "reread_received"]
          /\ rereadCount' = [rereadCount EXCEPT ![e] = CountUp(e)]
          /\ tasks' = [tasks EXCEPT ![e] =
               Advanced(e, reread[i].by, TaskStatuses, "done")]
          /\ UNCHANGED <<certified, actionedBy>>
     ELSE UNCHANGED rows
  /\ UNCHANGED <<req, decided>>

\* A skipped stop is read after all: its exceptions are resolved.
StopRead(e) ==
  /\ e \in SkipExceptions
  /\ ~isTerminal(e)
  /\ status' = [status EXCEPT ![e] = "resolved"]
  /\ UNCHANGED <<rereadCount, certified, actionedBy, tasks, reread, req, decided>>

SupervisorStep(p) == CheckOutstanding(p) \/ OrderStarts(p) \/ OrderCommits(p) \/ Close(p)

Next ==
  \/ \E p \in Supervisors, op \in Ops, e \in Exceptions : Load(p, op, e)
  \/ \E p \in Supervisors : SupervisorStep(p)
  \/ \E r \in Readers : FetchTasks(r)
  \/ \E r \in Readers, i \in Rereads, e \in Exceptions : CaptureReread(r, i, e)
  \/ \E i \in Rereads : LandReread(i)
  \/ \E e \in Exceptions : StopRead(e)

Spec == Init /\ [][Next]_vars

-----------------------------------------------------------------------------
(* Properties.                                                             *)

\* However orders and rereads interleave, an exception never counts more than
\* MAX_REREADS (lifecycle.ts:4-8): the cap of two requests that both passed the
\* check is kept by the WHERE (exceptions.service.ts:284-295).
RereadCap == \A e \in Exceptions : rereadCount[e] <= MAX_REREADS

\* A task exists only with an order that was counted: a losing racer leaves no
\* task behind (exceptions.service.ts:292-294).
TasksWithinCap == \A e \in Exceptions : Len(tasks[e]) <= rereadCount[e]

\* An exception waiting for a reread has a task in some reader's hands.
OrderedHasTask ==
  \A e \in Exceptions : status[e] = "reread_ordered" => Outstanding(e)

\* A decision confirmed to a supervisor stands: no later action of another
\* supervisor, late reread or reading of the stop replaces its status, its
\* certified read or its author (exceptions.service.ts:388-391).
DecisionStands ==
  \A e \in Exceptions : \A d \in decided[e] :
    d = [by |-> actionedBy[e], status |-> status[e], certified |-> certified[e]]

\* A closed exception admits no further action (lifecycle.ts:4-5): neither its
\* status, its count, its certified read nor the number of its tasks changes.
TerminalIsFinal ==
  [][\A e \in Exceptions : isTerminal(e) =>
       /\ status'[e] = status[e] /\ rereadCount'[e] = rereadCount[e]
       /\ certified'[e] = certified[e] /\ Len(tasks'[e]) = Len(tasks[e])]_vars

\* Two concurrent orders cannot both pass (exceptions.service.ts:311-312): an
\* exception never has two rereads outstanding.
AtMostOneOutstanding ==
  \A e \in Exceptions :
    Cardinality({k \in DOMAIN tasks[e] : InHand(tasks[e][k])}) <= 1

=============================================================================

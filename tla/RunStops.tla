------------------------------ MODULE RunStops ------------------------------
(***************************************************************************)
(* One route assigned as a run, and everything that then happens to its    *)
(* stops: reads are ingested (apps/api/src/ingestion/ingestion.service.ts),*)
(* stops skipped, the run reassigned, split and closed                     *)
(* (apps/api/src/runs/runs.service.ts).                                    *)
(*                                                                         *)
(* The API takes PostgreSQL's default isolation, READ COMMITTED: a         *)
(* statement sees what was committed when it started, plus the writes of   *)
(* its own transaction; an UPDATE waits for the transaction that holds its *)
(* row and then re-checks the columns of that row, not its subqueries.  A  *)
(* step here is one statement of a request; the writes of a transaction    *)
(* are kept with the request until its last step, the commit.  Columns     *)
(* that different requests write on one run row do not interfere, so the   *)
(* lock on it is left out.                                                 *)
(***************************************************************************)
EXTENDS Integers, FiniteSets

CONSTANTS
  Stops,        \* the stops of the route, numbered in walking order
  Runs,         \* ids of runs: the assigned one and those splits carve out
  AssignedRun,  \* the one
  Readers,      \* field readers
  Staff,        \* supervisors and admins
  Reads,        \* readings that may be taken at the stops, by whom and when
  Requests,     \* requests the API may be serving at once
  NoRun, NoReader, NoRead,
  MaxFailures   \* bound on requests that die half way

ASSUME RunStopsAssumption ==
  /\ Stops \subseteq Int /\ IsFiniteSet(Stops)
  /\ AssignedRun \in Runs
  /\ Reads \subseteq [id : Nat, stop : Stops, capturedAt : Nat, by : Readers \cup Staff]
  /\ Readers \cap Staff = {}
  /\ NoRun \notin Runs /\ NoReader \notin Readers /\ NoRead \notin Reads
  /\ MaxFailures \in Nat

VARIABLES
  run,       \* each run: does it exist, is it open, whose is it
  stop,      \* each stop: its run, its status, its read of record
  stored,    \* the read events on record
  flag,      \* the skipped_unresolved exception of each stop
  req,       \* what each request has done so far
  failures   \* requests that died so far

vars == <<run, stop, stored, flag, req, failures>>

Owners == Readers \cup {NoReader}
Idle == [at |-> "idle"]

ReadRequests ==
  [at : {"checked", "written", "counted"}, ev : Reads, incumbent : Reads \cup {NoRead},
   won : BOOLEAN, answers : BOOLEAN, closes : Runs \cup {NoRun}]
SkipRequests == [at : {"skipping", "flagging", "closing"}, run : Runs, stop : Stops]
AssignRequests == [at : {"placing"}]
ReassignRequests == [at : {"reassigning"}, run : Runs, to : Owners, free : BOOLEAN]
SplitRequests ==
  [at : {"splitting"}, run : Runs, new : Runs, moving : SUBSET Stops, to : Readers]

TypeOK ==
  /\ run \in [Runs -> [status : {"absent", "open", "closed"}, reader : Owners]]
  /\ stop \in [Stops -> [run : Runs \cup {NoRun}, status : {"pending", "read", "skipped"},
                         record : Reads \cup {NoRead}]]
  /\ \A s \in Stops : stop[s].run # NoRun => run[stop[s].run].status # "absent"
  /\ stored \subseteq Reads
  /\ flag \in [Stops -> {"none", "open", "closed"}]
  /\ req \in [Requests -> {Idle} \cup ReadRequests \cup SkipRequests \cup AssignRequests
                          \cup ReassignRequests \cup SplitRequests]
  /\ failures \in 0..MaxFailures

Init ==
  /\ run = [r \in Runs |-> [status |-> "absent", reader |-> NoReader]]
  /\ stop = [s \in Stops |-> [run |-> NoRun, status |-> "pending", record |-> NoRead]]
  /\ stored = {}
  /\ flag = [s \in Stops |-> "none"]
  /\ req = [h \in Requests |-> Idle]
  /\ failures = 0

StopsOf(r) == {s \in Stops : stop[s].run = r}
Pending(r) == {s \in StopsOf(r) : stop[s].status = "pending"}

Become(h, q) == req' = [req EXCEPT ![h] = q]
Finish(h) == Become(h, Idle)

\* Requests that have written a read and not committed it.
InTransaction == {h \in Requests : req[h].at \in {"written", "counted"}}

\* Stops whose row is held by such a request for update, or at all: the read
\* it inserted refers to the stop.
HeldForUpdate == {req[h].ev.stop : h \in {g \in InTransaction : req[g].won}}
HeldByReads == {req[h].ev.stop : h \in InTransaction}

-----------------------------------------------------------------------------
(* Ingesting a read.                                                       *)

\* Whose readings are taken at the stops of a run: its reader's, and those that
\* staff post on anybody's behalf, on a run without a reader too.
MayPost(by, r) == by \in Staff \/ run[r].reader = by

\* A new reading by one who may post it goes on, with the read of record it would
\* replace; others are answered `duplicate` or `rejected`.
CheckRead(h, e) ==
  LET s == stop[e.stop] IN
  /\ req[h] = Idle
  /\ e \notin stored
  /\ s.run # NoRun /\ MayPost(e.by, s.run)
  /\ Become(h, [at |-> "checked", ev |-> e, incumbent |-> s.record,
                won |-> FALSE, answers |-> FALSE, closes |-> NoRun])
  /\ UNCHANGED <<run, stop, stored, flag, failures>>

\* The first form of the rule: a stop that was dealt with stays as it is.
SupersedesPendingOnly(e, incumbent) == incumbent = NoRead /\ stop[e.stop].status = "pending"

\* The read of record is the latest reading taken at the stop.
Supersedes(e, incumbent) ==
  incumbent = NoRead \/ e.capturedAt >= incumbent.capturedAt

\* The row condition of the stop's UPDATE: the incumbent still stands.
UnsupersededAny(s, incumbent) == TRUE
Unsuperseded(s, incumbent) == stop[s].record = incumbent

\* The transaction inserts the read - waiting for one that is inserting the
\* same id, and ending there if it is on record - then updates the stop and
\* the exception of its skip.
WriteRead(h) ==
  LET e == req[h].ev
      supersedes == Supersedes(e, req[h].incumbent)
      wins == supersedes /\ Unsuperseded(e.stop, req[h].incumbent) IN
  /\ req[h].at = "checked"
  /\ \A g \in InTransaction : req[g].ev # e
  /\ IF e \in stored THEN Finish(h)
     ELSE /\ wins => e.stop \notin HeldForUpdate
          /\ Become(h, [req[h] EXCEPT !.at = "written", !.won = wins,
                          !.answers = supersedes /\ flag[e.stop] = "open"])
  /\ UNCHANGED <<run, stop, stored, flag, failures>>

\* The stops that keep run r open, for a request that knows that those in S
\* are done.
LeftOverAllButOne(r, S) == IF Cardinality(Pending(r) \ S) <= 1 THEN {} ELSE Pending(r) \ S
LeftOver(r, S) == Pending(r) \ S

\* The run of the stop is closed if nothing is left: what the statement sees is
\* what is committed now, and the request's own stop.
CloseRun(h) ==
  LET s == req[h].ev.stop
      r == stop[s].run
      done == run[r].status = "open" /\ LeftOver(r, IF req[h].won THEN {s} ELSE {}) = {} IN
  /\ req[h].at = "written"
  /\ Become(h, [req[h] EXCEPT !.at = "counted", !.closes = IF done THEN r ELSE NoRun])
  /\ UNCHANGED <<run, stop, stored, flag, failures>>

CommitRead(h) ==
  LET e == req[h].ev IN
  /\ req[h].at = "counted"
  /\ stored' = stored \cup {e}
  /\ stop' = IF req[h].won
             THEN [stop EXCEPT ![e.stop].status = "read", ![e.stop].record = e]
             ELSE stop
  /\ flag' = IF req[h].answers THEN [flag EXCEPT ![e.stop] = "closed"] ELSE flag
  /\ run' = [r \in Runs |->
               IF r = req[h].closes THEN [run[r] EXCEPT !.status = "closed"] ELSE run[r]]
  /\ Finish(h)
  /\ UNCHANGED failures

-----------------------------------------------------------------------------
(* Skipping a stop: separate statements, no transaction around them.       *)

\* The reader of run r, or staff whoever's it is, skips a stop believed to be on it.
CheckSkip(h, r, s) ==
  /\ req[h] = Idle
  /\ run[r].status # "absent"
  /\ Become(h, [at |-> "skipping", run |-> r, stop |-> s])
  /\ UNCHANGED <<run, stop, stored, flag, failures>>

\* Only a pending stop of that run is skipped; otherwise the request succeeds
\* and nothing happens.
SkipStop(h) ==
  LET s == req[h].stop
      hit == stop[s].run = req[h].run /\ stop[s].status = "pending" IN
  /\ req[h].at = "skipping"
  /\ hit => s \notin HeldForUpdate
  /\ IF hit
     THEN /\ stop' = [stop EXCEPT ![s].status = "skipped"]
          /\ Become(h, [req[h] EXCEPT !.at = "flagging"])
     ELSE Finish(h) /\ UNCHANGED stop
  /\ UNCHANGED <<run, stored, flag, failures>>

\* Raised while the run is open only.
RaisedIfOpen(s) == IF flag[s] = "none" /\ run[stop[s].run].status = "open" THEN "open" ELSE flag[s]

\* An exception against the stop, unless there is one.
Raised(s) == IF flag[s] = "none" THEN "open" ELSE flag[s]

RaiseSkipException(h) ==
  /\ req[h].at = "flagging"
  /\ flag' = [flag EXCEPT ![req[h].stop] = Raised(req[h].stop)]
  /\ Become(h, [req[h] EXCEPT !.at = "closing"])
  /\ UNCHANGED <<run, stop, stored, failures>>

CloseIfComplete(h) ==
  LET r == req[h].run IN
  /\ req[h].at = "closing"
  /\ run' = IF run[r].status = "open" /\ LeftOver(r, {}) = {}
            THEN [run EXCEPT ![r].status = "closed"] ELSE run
  /\ Finish(h)
  /\ UNCHANGED <<stop, stored, flag, failures>>

\* A supervisor closes the exception of a skip.
AnswerSkip(s) ==
  /\ flag[s] = "open"
  /\ flag' = [flag EXCEPT ![s] = "closed"]
  /\ UNCHANGED <<run, stop, stored, req, failures>>

-----------------------------------------------------------------------------
(* Assigning, reassigning and splitting.                                   *)

\* assign: the run is inserted,
AssignRun(h, to) ==
  /\ req[h] = Idle
  /\ run[AssignedRun].status = "absent"
  /\ run' = [run EXCEPT ![AssignedRun] = [status |-> "open", reader |-> to]]
  /\ Become(h, [at |-> "placing"])
  /\ UNCHANGED <<stop, stored, flag, failures>>

\* ... and after it its stops.
PlaceStops(h) ==
  /\ req[h].at = "placing"
  /\ stop' = [s \in Stops |-> [stop[s] EXCEPT !.run = AssignedRun]]
  /\ Finish(h)
  /\ UNCHANGED <<run, stored, flag, failures>>

\* reassign or release: whether the run has started is answered when the
\* UPDATE starts,
StartReassign(h, r, to) ==
  /\ req[h] = Idle
  /\ run[r].status # "absent"
  /\ Become(h, [at |-> "reassigning", run |-> r, to |-> to,
                free |-> \A s \in StopsOf(r) : stop[s].status = "pending"])
  /\ UNCHANGED <<run, stop, stored, flag, failures>>

\* ... and not asked again when it writes.
Reassign(h) ==
  /\ req[h].at = "reassigning"
  /\ run' = IF req[h].free THEN [run EXCEPT ![req[h].run].reader = req[h].to] ELSE run
  /\ Finish(h)
  /\ UNCHANGED <<stop, stored, flag, failures>>

\* A selection that may be split off run r: pending stops, no gap among the
\* run's stops.
ValidSplit(r, S) ==
  /\ S # {} /\ S \subseteq Pending(r)
  /\ \A s \in StopsOf(r) : (\E lo, hi \in S : lo <= s /\ s <= hi) => s \in S

CheckSplit(h, r, S, to, new) ==
  /\ req[h] = Idle
  /\ ValidSplit(r, S)
  /\ run[new].status = "absent" /\ new # AssignedRun
  /\ \A g \in Requests : req[g].at = "splitting" => req[g].new # new
  /\ Become(h, [at |-> "splitting", run |-> r, new |-> new, moving |-> S, to |-> to])
  /\ UNCHANGED <<run, stop, stored, flag, failures>>

\* The stops the re-parenting UPDATE finds.
MovableAny(r, S) == S
Movable(r, S) == S \cap Pending(r)

\* The run carved out of another, as it is inserted.
CarvedUnsaved(new, to) == run[new]
Carved(new, to) == [status |-> "open", reader |-> to]

\* The new run and the move, in one transaction; if a selected stop is not
\* there any more, nothing.  Changing the run of a stop is a key update: it
\* waits for every uncommitted read at the stop.
Split(h) ==
  LET q == req[h] IN
  /\ q.at = "splitting"
  /\ Movable(q.run, q.moving) \cap HeldByReads = {}
  /\ IF Movable(q.run, q.moving) = q.moving
     THEN /\ run' = [run EXCEPT ![q.new] = Carved(q.new, q.to)]
          /\ stop' = [s \in Stops |->
                        IF s \in q.moving THEN [stop[s] EXCEPT !.run = q.new] ELSE stop[s]]
     ELSE UNCHANGED <<run, stop>>
  /\ Finish(h)
  /\ UNCHANGED <<stored, flag, failures>>

\* A request dies between two statements; an open transaction is rolled back.
Fail(h) ==
  /\ req[h] # Idle
  /\ failures < MaxFailures
  /\ failures' = failures + 1
  /\ Finish(h)
  /\ UNCHANGED <<run, stop, stored, flag>>

Next ==
  \/ \E h \in Requests :
       \/ \E e \in Reads : CheckRead(h, e)
       \/ WriteRead(h) \/ CloseRun(h) \/ CommitRead(h)
       \/ \E r \in Runs, s \in Stops : CheckSkip(h, r, s)
       \/ SkipStop(h) \/ RaiseSkipException(h) \/ CloseIfComplete(h)
       \/ \E to \in Readers : AssignRun(h, to)
       \/ PlaceStops(h)
       \/ \E r \in Runs, to \in Owners : StartReassign(h, r, to)
       \/ Reassign(h)
       \/ \E r, new \in Runs, S \in SUBSET Stops, to \in Readers : CheckSplit(h, r, S, to, new)
       \/ Split(h) \/ Fail(h)
  \/ \E s \in Stops : AnswerSkip(s)

Spec == Init /\ [][Next]_vars

-----------------------------------------------------------------------------
(* Properties.                                                             *)

\* Every read that landed at a stop counts for it: a stop with a read on record
\* is `read`, with one of its own reads as its read of record, whatever was
\* skipped, retried or corrected before (ingestion.service.ts:187-203).
ReadsCount ==
  \A s \in Stops :
    LET here == {e \in stored : e.stop = s} IN
    /\ stop[s].status = "read" <=> here # {}
    /\ stop[s].record \in IF here = {} THEN {NoRead} ELSE here

\* A closed run has no stop left to walk, although its closing was decided
\* before it was committed (ingestion.service.ts:248-257, runs.service.ts:415-419).
ClosedRunIsDone ==
  \A r \in Runs : run[r].status = "closed" => Pending(r) = {}

\* A skipped stop has an exception once the request that skipped it is over,
\* if no request died: a meter left out of billing is never just left out
\* (runs.service.ts:375-377).
SkipIsRaised ==
  failures = 0 =>
    \A s \in Stops : stop[s].status = "skipped" =>
      \/ flag[s] # "none"
      \/ \E h \in Requests : req[h].at = "flagging" /\ req[h].stop = s

\* A replay out of order never sets the read of record back in capture time
\* (ingestion.service.ts:199-202).
RecordNeverOlder ==
  [][\A s \in Stops : stop[s].record # NoRead =>
       /\ stop'[s].record # NoRead
       /\ stop'[s].record.capturedAt >= stop[s].record.capturedAt]_vars

\* A stop changes hands only while it is pending: read and skipped stops never
\* move (ADR-005), not even when the read lands while a split is under way.
OnlyPendingMoves ==
  [][\A s \in Stops : stop'[s].run # stop[s].run =>
       stop[s].status = "pending" /\ stop'[s].status = "pending"]_vars

Quiet == \A h \in Requests : req[h] = Idle

\* The stop's read of record is the latest reading taken at it
\* (ingestion.service.ts:187-188).
RecordIsLatest ==
  Quiet => \A e \in stored : stop[e.stop].record.capturedAt >= e.capturedAt

\* A run with nothing left pending is closed: concurrent reads on the last two
\* stops cannot both see one remaining (ingestion.service.ts:254-256).
FinishedRunCloses ==
  Quiet => \A r \in Runs : StopsOf(r) # {} /\ Pending(r) = {} => run[r].status = "closed"

\* A read that a reader posted never sits on a run that now belongs to another: a
\* reassignment either precedes the read or is refused (runs.service.ts:227-236).
\* What staff post says nothing of whose the run is (ingestion.service.ts:112-116).
ReadIsOwners ==
  \A s \in Stops :
    LET e == stop[s].record IN
    e # NoRead /\ e.by \in Readers => run[stop[s].run].reader = e.by
=============================================================================

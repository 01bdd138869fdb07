---------------------------- MODULE BillingExport ----------------------------
(***************************************************************************)
(* The billing export of one client and cycle                              *)
(* (apps/api/src/exports/exports.service.ts, export.core.ts): requests to  *)
(* generate it run at once, while reads land, stops are skipped and        *)
(* supervisors decide exceptions.                                          *)
(*                                                                         *)
(* An export reads the stops in one statement and the exceptions of their  *)
(* reads in a later one, outside any transaction.  Read events never       *)
(* change, so what it reads of them is read with the rest.  The file is    *)
(* then stored in a transaction of two statements; what they do is one     *)
(* step with the commit, after the step in which the first one has looked  *)
(* for the export to replace.                                              *)
(***************************************************************************)
EXTENDS Integers, FiniteSets

CONSTANTS
  Stops,      \* the stops of the cycle
  Reads,      \* reads that may be taken at them, in order of capture
  Kinds,      \* exception types
  Blocking,   \* those that hold a read out of billing
  Findings,   \* what validation finds in each read
  Requests,   \* requests to generate the export that may overlap
  Exports,    \* ids of export runs; a failed request's is free again
  NoRead, NoExport

ASSUME BillingExportAssumption ==
  /\ Reads \subseteq [id : Nat, stop : Stops]
  /\ \A a, b \in Reads : a.id = b.id => a = b
  /\ Blocking \subseteq Kinds
  /\ Findings \in [Reads -> SUBSET Kinds]
  /\ NoRead \notin Reads /\ NoExport \notin Exports
  /\ IsFiniteSet(Stops)

Exceptions == {x \in [read : Reads, kind : Kinds] : x.kind \in Findings[x.read]}

VARIABLES
  record,     \* the read of record of each stop
  skipped,    \* stops that are skipped
  landed,     \* read events stored
  status,     \* each exception, once its read has landed
  certified,  \* the read certified when it was closed
  export,     \* the export runs
  req         \* the requests in progress

vars == <<record, skipped, landed, status, certified, export, req>>
cycle == <<record, skipped, landed, status, certified>>

Lines == [stop : Stops, of : Reads, read : Reads, abnormal : BOOLEAN]
Holds == [stop : Stops, reason : {"not_read", "skipped", "blocking_exception"}]
Bodies == [billable : SUBSET Lines, holds : SUBSET Holds]
Records == [Stops -> Reads \cup {NoRead}]
Absent == [status |-> "absent"]
Files == [status : {"current", "superseded"}, by : Exports \cup {NoExport}, body : Bodies]
Idle == [at |-> "idle"]
Progress ==
  {Idle} \cup [at : {"stops"}, record : Records, skipped : SUBSET Stops]
         \cup [at : {"classified"}, body : Bodies]
         \cup [at : {"replacing"}, body : Bodies, prior : Exports \cup {NoExport}]

TypeOK ==
  /\ record \in Records
  /\ skipped \subseteq Stops /\ landed \subseteq Reads
  /\ status \in [Exceptions -> {"absent", "open", "cleared", "escalated"}]
  /\ certified \in [Exceptions -> Reads \cup {NoRead}]
  /\ export \in [Exports -> {Absent} \cup Files]
  /\ req \in [Requests -> Progress]

Init ==
  /\ record = [s \in Stops |-> NoRead]
  /\ skipped = {} /\ landed = {}
  /\ status = [x \in Exceptions |-> "absent"]
  /\ certified = [x \in Exceptions |-> NoRead]
  /\ export = [i \in Exports |-> Absent]
  /\ req = [h \in Requests |-> Idle]

-----------------------------------------------------------------------------
(* What goes on in the cycle meanwhile.                                    *)

\* A read lands, in any order: the latest one is the read of record, its
\* findings are opened as exceptions with it, and a skip is answered.
LandRead(e) ==
  LET supersedes == record[e.stop] = NoRead \/ e.id >= record[e.stop].id IN
  /\ e \notin landed
  /\ landed' = landed \cup {e}
  /\ record' = IF supersedes THEN [record EXCEPT ![e.stop] = e] ELSE record
  /\ skipped' = IF supersedes THEN skipped \ {e.stop} ELSE skipped
  /\ status' = [x \in Exceptions |-> IF x.read = e THEN "open" ELSE status[x]]
  /\ UNCHANGED <<certified, export, req>>

SkipStop(s) ==
  /\ record[s] = NoRead /\ s \notin skipped
  /\ skipped' = skipped \cup {s}
  /\ UNCHANGED <<record, landed, status, certified, export, req>>

\* A supervisor clears (resolves or overrides) an exception, certifying a read
\* of the same meter and cycle, or escalates it.
Decide(x) ==
  /\ status[x] = "open"
  /\ \/ /\ status' = [status EXCEPT ![x] = "cleared"]
        /\ \E c \in {e \in landed : e.stop = x.read.stop} :
             certified' = [certified EXCEPT ![x] = c]
     \/ /\ status' = [status EXCEPT ![x] = "escalated"]
        /\ UNCHANGED certified
  /\ UNCHANGED <<record, skipped, landed, export, req>>

-----------------------------------------------------------------------------
(* Classification.                                                         *)

\* The exceptions found on a read, as they are now.
On(e) == {x \in Exceptions : x.read = e /\ status[x] # "absent"}

ClearedOrPassedOn == {"cleared", "escalated"}
CLEARED == {"cleared"}

\* An exception on the read still keeps it out of billing.
Blocked(e) == \E x \in On(e) : x.kind \in Blocking /\ status[x] \notin CLEARED

\* The reads that may be billed for read of record e: one that an exception on
\* it was closed with, if that is another read (the query is unordered, so any
\* of them if they differ), else e.
BillableReadsUnset(e) ==
  LET swaps == {certified[x] : x \in On(e)} \ {e} IN
  IF swaps = {} THEN {e} ELSE swaps
BillableReads(e) ==
  LET swaps == {certified[x] : x \in On(e)} \ {NoRead, e} IN
  IF swaps = {} THEN {e} ELSE swaps

\* The row of stop s, whose read of record is e: the reason it is held, if any.
FannedOut(s, e, isSkipped) ==
  IF e = NoRead THEN {IF isSkipped THEN "skipped" ELSE "not_read"}
  ELSE {IF x.kind \in Blocking /\ status[x] \notin CLEARED
        THEN "blocking_exception" ELSE "billable" : x \in On(e)}
       \cup (IF On(e) = {} THEN {"billable"} ELSE {})
Verdicts(s, e, isSkipped) ==
  IF e = NoRead THEN {IF isSkipped THEN "skipped" ELSE "not_read"}
  ELSE {IF Blocked(e) THEN "blocking_exception" ELSE "billable"}

\* The bodies that rec and sk, the stops as the export read them, and the
\* exceptions as they are now, may give.
Classified(rec, sk) ==
  LET verdicts == [s \in Stops |-> Verdicts(s, rec[s], s \in sk)]
      billed == {s \in Stops : "billable" \in verdicts[s]}
      holds == UNION {{[stop |-> s, reason |-> v] : v \in verdicts[s] \ {"billable"}} : s \in Stops}
      choices == {f \in [billed -> Reads \cup {NoRead}] : \A s \in billed : f[s] \in BillableReads(rec[s])} IN
  {[billable |-> {[stop |-> s, of |-> rec[s], read |-> f[s], abnormal |-> On(rec[s]) # {}] :
                    s \in billed},
    holds |-> holds] : f \in choices}

-----------------------------------------------------------------------------
(* Generating an export.                                                   *)

\* run: the stops of the cycle are read,
ReadStops(h) ==
  /\ req[h] = Idle
  /\ req' = [req EXCEPT ![h] = [at |-> "stops", record |-> record, skipped |-> skipped]]
  /\ UNCHANGED <<cycle, export>>

\* ... then the exceptions of their reads, and the file is rendered.
ReadExceptions(h) ==
  /\ req[h].at = "stops"
  /\ \E body \in Classified(req[h].record, req[h].skipped) :
       req' = [req EXCEPT ![h] = [at |-> "classified", body |-> body]]
  /\ UNCHANGED <<cycle, export>>

Current == {i \in Exports : export[i].status = "current"}

\* The transaction starts: the export to be superseded is found,
FindPrior(h) ==
  /\ req[h].at = "classified"
  /\ \E prior \in IF Current = {} THEN {NoExport} ELSE Current :
       req' = [req EXCEPT ![h] = [at |-> "replacing", body |-> req[h].body, prior |-> prior]]
  /\ UNCHANGED <<cycle, export>>

\* The UPDATE of every export of the cycle, superseded ones included.
SupersededAgain(prior) == IF prior = NoExport THEN {} ELSE {i \in Exports : export[i] # Absent}

\* The export the UPDATE still supersedes once it has the row's lock.
Superseded(prior) == Current \cap {prior}

\* The unique index: one current export, besides those superseded here.
IndexAdmitsAny(prior) == TRUE
IndexAdmits(prior) == Current \subseteq Superseded(prior)

\* ... superseded by the new one, which is inserted, or the index refuses it
\* and the request fails.
Replace(h) ==
  LET prior == req[h].prior IN
  /\ req[h].at = "replacing"
  /\ IF IndexAdmits(prior)
     THEN \E new \in {i \in Exports : export[i] = Absent} :
            export' = [i \in Exports |->
              IF i = new
              THEN [status |-> "current", by |-> NoExport, body |-> req[h].body]
              ELSE IF i \in Superseded(prior)
              THEN [export[i] EXCEPT !.status = "superseded", !.by = new]
              ELSE export[i]]
     ELSE UNCHANGED export
  /\ req' = [req EXCEPT ![h] = Idle]
  /\ UNCHANGED cycle

Next ==
  \/ \E e \in Reads : LandRead(e)
  \/ \E s \in Stops : SkipStop(s)
  \/ \E x \in Exceptions : Decide(x)
  \/ \E h \in Requests : ReadStops(h) \/ ReadExceptions(h) \/ FindPrior(h) \/ Replace(h)

Spec == Init /\ [][Next]_vars

-----------------------------------------------------------------------------
(* Properties.                                                             *)

Stored == {i \in Exports : export[i] # Absent}

\* However many requests overlap, once there is an export exactly one is current
\* (exports.service.ts:86-90), and every other one names an export that exists
\* as its successor.
OneCurrent ==
  /\ Cardinality(Current) = IF Stored = {} THEN 0 ELSE 1
  /\ \A i \in Stored \ Current : export[i].by \in Stored \ {i}

\* An export is a snapshot (ADR-023-billing-export.md:24-28): it changes only
\* once, from current to superseded, in the step that makes its successor
\* current - downloads never find none - and what was sent stays as it was.
SnapshotsStand ==
  [][\A i \in Stored : export'[i] # export[i] =>
       /\ i \in Current
       /\ export'[i].status = "superseded" /\ export'[i].body = export[i].body
       /\ export[export'[i].by] = Absent /\ export'[export'[i].by].status = "current"]_vars

\* Each stop of the cycle is in the file exactly once: billed, held, skipped or
\* not read, however many exceptions its read has (exports.service.ts:181-188).
EachStopOnce ==
  \A i \in Stored : \A s \in Stops :
    Cardinality({l \in export[i].body.billable : l.stop = s})
      + Cardinality({d \in export[i].body.holds : d.stop = s}) = 1

\* No file bills a read of record with a blocking exception nobody has cleared,
\* whatever landed or was decided while it was being made: a read arrives with
\* all its exceptions, and a cleared one is not reopened (export.core.ts:101-113).
BlockedNeverBilled ==
  \A i \in Stored : \A l \in export[i].body.billable :
    \A x \in Exceptions : x.read = l.of /\ x.kind \in Blocking => status[x] = "cleared"

\* The read certified when an exception is closed is the one that bills
\* (ADR-023-billing-export.md:18-19, exceptions.service.ts:440-442): when a
\* supervisor clears the only exception of a stop, with every read of it on the
\* table, an export made right then bills the certified read.
CertifiedReadBills ==
  [][\A x \in Exceptions :
       /\ status[x] = "open" /\ status'[x] = "cleared"
       /\ \A y \in Exceptions : y.read.stop = x.read.stop /\ status[y] # "absent" => y = x
       => (\A body \in Classified(record, skipped) :
             \A l \in body.billable : l.stop = x.read.stop => l.read = certified[x])']_vars
=============================================================================

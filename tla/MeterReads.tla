------------------------------ MODULE MeterReads ------------------------------
(***************************************************************************)
(* The reads of one meter, from the reader's form to the stored event:     *)
(* the form warns with the history it has fetched                          *)
(* (apps/web/src/app/field/runs/[id]/stops/[stopId]/page.tsx), the capture *)
(* waits on the device, and the server validates it with the history it    *)
(* has when the read arrives, in whatever order reads do                   *)
(* (apps/api/src/ingestion/ingestion.service.ts).                          *)
(*                                                                         *)
(* An event is validated before its transaction: reads that overlap do not *)
(* see one another.  The SELECTs before it are one step: an earlier read   *)
(* of the stop is looked for by the first and left out of the history by   *)
(* the second, so no read is looked for twice.  What the transaction does  *)
(* to stops and runs is RunStops; here the stop's read of record is the    *)
(* latest of those stored.                                                 *)
(***************************************************************************)
EXTENDS ReadValidation

CONSTANTS
  Values,      \* what a reader may type
  Stops,       \* the meter's stops, one per cycle, in order
  Gaps,        \* months that may pass between captures
  Fixes,       \* whether the device has a position
  Histories,   \* reads stored before, imported or taken at earlier stops
  Horizon,     \* bound: the month after which nothing is captured
  RECENT_LIMIT,
  NoStop, NoPage, Offline

\* Imported reads come before those of stops, and the stops one after the other.
InOrder(reads) ==
  \A g, h \in reads : g.at < h.at /\ g.stop # NoStop => h.stop # NoStop /\ g.stop <= h.stop

ASSUME MeterReadsAssumption ==
  /\ Values \subseteq Nat /\ Stops \subseteq Nat /\ Gaps \subseteq Nat \ {0}
  /\ Fixes \subseteq BOOLEAN
  /\ NoStop \notin Stops
  /\ \A reads \in Histories : IsFiniteSet(reads) /\ InOrder(reads)
  /\ \A reads \in Histories : \A h \in reads :
       /\ h.stop \in Stops \cup {NoStop} /\ h.value \in 0..registerMax
       /\ h.at \in Int /\ h.at < 0 /\ h.consumption \in Int \cup {Null}
       /\ \A g \in reads : g.at = h.at => g = h

VARIABLES
  stored,  \* read events
  page,    \* the stop the capture page shows, with the history it fetched
  queue,   \* captures on the device
  flight,  \* captures validated whose transaction has not committed
  now

vars == <<stored, page, queue, flight, now>>

TypeOK ==
  /\ \A r \in stored \cup flight :
       /\ r.value \in 0..registerMax /\ r.at \in Int
       /\ r.stop \in Stops \cup {NoStop} /\ r.consumption \in Int \cup {Null}
       /\ r.findings \subseteq ExceptionCodes /\ r.warned \subseteq ReadingCodes
       /\ {r.billable, r.informed, r.alone, r.current} \subseteq BOOLEAN
  /\ page # NoPage => page.stop \in Stops /\ page.history \subseteq stored
  /\ \A c \in queue : c.stop \in Stops /\ c.value \in Values /\ c.warned \subseteq ReadingCodes
  /\ \A c, r \in queue \cup flight \cup stored : c.at = r.at => c = r
  /\ now \in Nat

\* Earlier reads arrived in order; nothing is claimed of how they were judged.
Earlier(h) ==
  [stop |-> h.stop, value |-> h.value, at |-> h.at, consumption |-> h.consumption,
   findings |-> {}, billable |-> TRUE, warned |-> {},
   informed |-> TRUE, alone |-> FALSE, current |-> FALSE]

Init ==
  /\ \E reads \in Histories : stored = {Earlier(h) : h \in reads}
  /\ page = NoPage
  /\ queue = {} /\ flight = {}
  /\ now = 0

-----------------------------------------------------------------------------
(* The device.                                                             *)

OnStops == queue \cup flight \cup {r \in stored : r.stop # NoStop}

\* forMeter: what the form is given of the meter's history.
RecentReads == Latest(RECENT_LIMIT, stored)

\* The reader opens a stop, and the history is fetched.  A cycle's stop is not
\* visited again once the next cycle's has been read.
OpenStop(s) ==
  /\ page = NoPage
  /\ \A r \in OnStops : r.stop <= s
  /\ page' = [stop |-> s, history |-> RecentReads]
  /\ UNCHANGED <<stored, queue, flight, now>>

\* anomalyCodes: what the form warns of, and wants a photograph for; nothing
\* as long as there is no history.
anomalyCodes(history, value, at, located) ==
  IF history = Offline THEN {}
  ELSE runValidation([value |-> value, at |-> at, located |-> located,
                      history |-> history, duplicate |-> Null]).exceptions \cap ReadingCodes

\* submitRead, with the history or before it has come: the capture is on the
\* device and the page is left.  seen is not in the code: the reads the form
\* knew of.
Submit(value, gap, located) ==
  LET at == now + gap IN
  /\ page # NoPage
  /\ at <= Horizon
  /\ \E history \in {page.history, Offline} :
       queue' = queue \cup
         {[stop |-> page.stop, value |-> value, at |-> at, located |-> located,
           warned |-> anomalyCodes(history, value, at, located),
           seen |-> IF history = Offline THEN Offline ELSE {h.at : h \in history}]}
  /\ now' = at
  /\ page' = NoPage
  /\ UNCHANGED <<stored, flight>>

-----------------------------------------------------------------------------
(* The server.                                                             *)

\* loadHistory: the reads captured before c within the window, but not those of
\* its own stop: those are readings of the same visit.
HistoryOfStops(c) ==
  {h \in stored : /\ h.at >= c.at - BaselineMonths /\ h.at < c.at
                  /\ h.stop # c.stop /\ h.stop # NoStop}
loadHistory(c) ==
  {h \in stored : h.at >= c.at - BaselineMonths /\ h.at < c.at /\ h.stop # c.stop}

\* The value of the stop's read of record, if it has one.
RecordAmong(reads) ==
  IF reads = {} THEN Null ELSE (CHOOSE h \in Latest(1, reads) : TRUE).value
DuplicateIfNewer(c) == RecordAmong({h \in stored : h.stop = c.stop /\ h.at < c.at})
Duplicate(c) == RecordAmong({h \in stored : h.stop = c.stop})

\* A reading beyond the register is rejected: the event goes no further.
FitsRoughly(value) == value <= registerMax + 1
Fits(value) == value <= registerMax

Reject(c) ==
  /\ ~Fits(c.value)
  /\ queue' = queue \ {c}
  /\ UNCHANGED <<stored, page, flight, now>>

\* The last three fields are not in the code: whether every read of another stop
\* captured earlier was there to compare with; no other read of the stop was
\* under way; the form knew all the reads the server knew.
Validate(c) ==
  LET verdict == runValidation([value |-> c.value, at |-> c.at, located |-> c.located,
                                history |-> loadHistory(c), duplicate |-> Duplicate(c)])
      missing == (queue \cup flight) \ {c} IN
  /\ Fits(c.value)
  /\ queue' = queue \ {c}
  /\ flight' = flight \cup
       {[stop |-> c.stop, value |-> c.value, at |-> c.at, consumption |-> verdict.consumption,
         findings |-> verdict.exceptions, billable |-> verdict.billable, warned |-> c.warned,
         informed |-> \A x \in missing : x.stop = c.stop \/ x.at > c.at,
         alone |-> \A x \in flight : x.stop # c.stop,
         current |-> c.seen # Offline /\ c.seen = {h.at : h \in {g \in stored : g.at < c.at}}]}
  /\ UNCHANGED <<stored, page, now>>

Store(c) ==
  /\ stored' = stored \cup {c}
  /\ flight' = flight \ {c}
  /\ UNCHANGED <<page, queue, now>>

Next ==
  \/ \E s \in Stops : OpenStop(s)
  \/ \E value \in Values, gap \in Gaps, located \in Fixes : Submit(value, gap, located)
  \/ \E c \in queue : Reject(c) \/ Validate(c)
  \/ \E c \in flight : Store(c)

Spec == Init /\ [][Next]_vars

-----------------------------------------------------------------------------
(* Properties.                                                             *)

\* The latest read of each stop, and the imported ones.
OfRecord == {r \in stored : r.stop = NoStop \/ \A x \in stored : x.stop = r.stop => x.at <= r.at}

\* Two readings of one visit, a stop's.
SameVisit(a, b) == a.stop = b.stop /\ a.stop # NoStop

\* Of reads, g is what r is measured from: the last read before it of another visit.
Follows(r, g, reads) ==
  /\ g \in reads /\ g.at < r.at /\ ~SameVisit(g, r)
  /\ \A x \in reads : g.at < x.at /\ x.at < r.at => SameVisit(x, r)

\* Read r consumed what the register moved since read g, one turn of it included
\* when it wrapped.
Movement(g, r) ==
  g.at < r.at /\ r.consumption \in {r.value - g.value, r.value - g.value + registerMax + 1}

\* A history in which every consumption is measured so.
AddsUp(reads) ==
  \A r \in reads : r.consumption # Null => \E g \in reads : Follows(r, g, reads) /\ Movement(g, r)

\* Consumption is neither lost nor invented: as long as reads arrive in the
\* order they are captured, what is stored with the reads of record adds up to
\* the movement of the register, wraps, corrections and misreadings included
\* (baseline.ts:62, 77-83, ingestion.service.ts:355-362).
Conserved ==
  \A first \in OfRecord :
    LET later == OfRecord \ {first}
        last == CHOOSE r \in OfRecord : \A x \in OfRecord : x.at <= r.at IN
    /\ \A r \in stored : r.informed
    /\ \A r \in later : first.at < r.at /\ r.consumption # Null
    => (Consumed(later) - (last.value - first.value))
         % (registerMax + 1) = 0

\* A read that validation lets through to billing never carries a negative
\* consumption: the rule that lets a wrap pass and the consumption stored for it
\* are decided separately (rules.ts:60-75, baseline.ts:103-112).
BillableIsNotNegative ==
  \A r \in stored : r.billable /\ r.consumption # Null => r.consumption >= 0

\* Two readings of one stop that disagree are noticed, whichever arrives first,
\* unless they overlap on the server (ingestion.service.ts:87-123).
DisagreementFlagged ==
  \A a, b \in stored :
    /\ a # b /\ a.stop = b.stop /\ a.stop # NoStop /\ a.alone /\ b.alone
    /\ Distance(a.value, b.value) > DuplicateTolerance
    /\ {r \in stored : r.stop = a.stop} = {a, b}
    => "duplicate_mismatch" \in a.findings \cup b.findings

\* The form and the server judge the first reading of a stop alike if the form
\* knew all the meter's earlier reads the server knows, although they put their
\* histories together differently (page.tsx:194-202).
PreviewAgreesWhenCurrent ==
  \A r \in stored :
    r.current /\ (\A x \in stored \ {r} : x.stop = r.stop => x.at > r.at)
    => r.warned = r.findings \cap ReadingCodes

\* A form that knows all the meter's earlier reads never disagrees with the
\* server about which readings are anomalous (page.tsx:175-179, 194-197).
PreviewAgrees ==
  \A r \in stored : r.current => (r.warned = {} <=> r.findings \cap ReadingCodes = {})

\* A streak of zeros is one of cycles (validation.ts:55, rules.ts:111-118): so
\* many visits, not so many readings, went by without consumption.
StreakSpansCycles ==
  \A r \in stored :
    LET zeros == {x \in stored : x.at <= r.at /\ x.consumption = 0} IN
    r.informed /\ "zero_consumption_streak" \in r.findings =>
      Cardinality({x \in zeros : x.stop = NoStop})
        + Cardinality({x.stop : x \in zeros} \ {NoStop}) >= ZeroStreakCycles
=============================================================================

# RouteWrangler in TLA+

RouteWrangler is a meter-reading system: readers walk routes with an offline-first
web app, an API ingests and validates their reads, supervisors work the exceptions
validation raises, and billing is exported per client and cycle. This directory holds
TLA+ modules for the parts of it that are stateful and concurrent, the TLC runs that
check them on small instances, and proofs checked by TLAPS for the server's modules, the
capture queue, the validation of reads, the session, and the screens: consoles, drafts
and the offline map.

Paths below are relative to the repository; line numbers are in `PROJECT.json` (`map`
gives, for every definition of a module, the lines it stands for).

## 1. The system

| Part | State it keeps | Operations | What is hard |
|---|---|---|---|
| Field capture queue (`apps/web/src/lib/field`) | IndexedDB rows of captures, an in-memory mirror, a sequence counter, the pass in flight | `load`, `enqueueRead`/`enqueueSkip`, `sync`, `pass`, photo uploads | awaits interleave; the tab dies; answers are lost; several components call `load` |
| Ingestion (`apps/api/src/ingestion`) | `read_event`, and what a read changes of stops, runs and exceptions | one event: checks, validation, one transaction | replays, late and out-of-order reads, two reads at once |
| Runs and stops (`apps/api/src/runs`) | `assigned_run`, `run_stop` | assign, reassign, release, split, skip, completion | guards as subqueries under READ COMMITTED; requests without a transaction |
| Exceptions and rereads (`apps/api/src/exceptions`, `field/reread-tasks.service.ts`) | `exception`, `reread_task` | order a reread, resolve, override, escalate, fetch tasks, receive a reread | two supervisors; a cap counted from two sides; closed means closed |
| Billing export (`apps/api/src/exports`) | `export_run` and its body | collect, classify, supersede and insert | two exports at once, reads and decisions in between |
| Staff and the guard (`apps/api/src/staff`, `apps/api/src/auth`) | `users`: people, invitations | first sign-in claims an invitation; invite, re-role, (de)activate, revoke | first requests race; admins demote each other |
| Validation engine (`packages/contracts/src/engine`) | none (pure) | baseline, rules, stored consumption | register wraps; form and server compare with different histories |
| Web session (`apps/web/src/lib/session.ts`, `components/auth`, the shells) | token in localStorage, session hook | refresh, sign-in, sign-out, redirects | answers after the session has ended; redirect loops |
| Field screens (`apps/web/src/app/field`) | drafts in localStorage, the form, saves under way | open a stop, type, re-capture, skip, submit, step to the next stop, leave | effects race renders; a save outlives its page; the tab dies |
| Offline map (`sw.js`, `lib/field/mapCache.ts`, `geo.ts`, the tile, font, sprite and style routes, `BaseMap.tsx`) | the worker's caches, the tiles warmed, the map on the page | register, install and activate, prefetch, answer, draw, give way to the plot | the signal goes at any step; a new worker clears caches; a failure looks like an empty tile |
| Consoles (`apps/web/src/app/supervisor`, `app/admin`) | the selection, the answer on the screen, the buttons that wait | filter, select, reassign, split, decide, export, change staff, assign | answers overtake each other or are lost; others act meanwhile |
| Seed and simulator (`apps/api/seed`, `packages/simulator`) | a year of history, a run, the playback in progress | seed, play back | whether each prepared reading trips its rule; reruns after a failure |
| Everything else | | | queries, audit, taxonomy cache, verifier, configuration: section 8 |

How they meet: the field queue posts to ingestion and to skip and uploads photographs;
ingestion updates stops, closes runs, advances exceptions, opens new ones; supervisors'
requests change exceptions and runs; the export reads stops, reads and exceptions; the
guard stands before every request; the session provides the token of every request.
The field screens read a run, write captures to the queue and start the prefetch whose
tiles the service worker keeps for the map; the consoles ask the API for everything they
show and say every decision to it. All coordination on the server is through PostgreSQL rows, on the device through one
IndexedDB store.

What makes each part correct: a capture lands once and is kept until it has; a stop's
record follows its reads; the cap on rereads and every decision of a supervisor stand;
a file bills nothing that is blocked and changes only by being superseded; a person has
one row and somebody can administer; consumption is conserved; the token follows the
session; a reader's draft is there when it is needed, and what was prefetched of a map is
kept; a console at rest shows what is selected, and what its user has just done.

## 2. The modules

| Module | Models | State ↔ code |
|---|---|---|
| `CaptureDelivery` | what the queue promises | `held`, `stored`: captures on the device, on the server |
| `FieldQueue` | `queue.ts`, `db.ts`, `types.ts`, and the server's answer to one event | `disk` the object store, `mirror` the module's `actions`, `pass`/`resync` the drain in flight and its re-arm flag, `wire` requests not yet processed, `rows` what the server recorded, `online` the connection and `token` whether there is anything to sign a request with; `declined` is a history of syncs turned away for want of it |
| `ExceptionLifecycle` | `exceptions.service.ts`, `lifecycle.ts`, `reread-tasks.service.ts`, the reread part of ingestion | columns of `exception`, `tasks` per exception, `req` a supervisor's request in progress; `decided` is a history of confirmed decisions |
| `RunStops` | the ingest transaction, `runs.service.ts`, `split.ts`, for readers and for staff | `run`, `stop`, `stored` (read events), `flag` (a skip's exception), `req` |
| `BillingExport` | `exports.service.ts`, `export.core.ts` | what an export reads of a cycle, `export` (export runs), `req` |
| `StaffDirectory` | `staff.service.ts`, the controller, the guards, with the identity provider configured | `user` (rows), `req`; `overlapped` remembers that two guarded UPDATEs were under way together |
| `ReadValidation` | the engine | operators only, no variables |
| `MeterReads` | the capture form's warnings, `loadHistory`, validate and store | `page`, `queue`, `flight` (validated, not committed), `stored`; the fields `seen`, `informed`, `alone`, `current` record what was known when |
| `WebSession` | `session.ts`, `NeonTokenBridge`, `NeonLogin`, both shells, the request path of `api.ts` | `stored` the token in localStorage, `seen` the hook's answer, `calls` the awaits, `screen`, `status` |
| `FieldScreens` | the page of a stop, and the run and task lists that lead to it | `draft` localStorage, `tab` the page (form, draft read and not yet in the form, `busy`), `saves` calls of the queue that have not returned, `queued` captures that wait, `status` of the stops at the API; `typed`, `wiped` and `cut` are histories |
| `OfflineMap` | `sw.js`, `mapCache.ts`, `geo.ts`, the routes, `RouteMapView.tsx`, `BaseMap.tsx`, on the page of a run | `worker` its life and whether it controls the page, `tiles` the cache TILES, `asked` requests on the network, `keeping` answers given and not yet put in the cache, `warm` the pool of the prefetch of each opening, `map` the map from import to fallback, `net` signal, coverage and failures; `assured` and `spoiled` are histories |
| `Consoles` | the pages of runs, exceptions, exports, staff and assignment | `page`, `key` what is selected, `shown` the answer on the screen, `calls` requests and answers on their way, `busy`, `adding`, `picked`, `loadError`; `subjects` the versions the API holds; `newest`, `strayed`, `own`, `refusal` are histories |
| `Playback` | `world.ts`, `seed.ts`, `generate.ts`, `anomalies.ts`, `playback.ts` | `reads` the read events of the ten meters of the demonstration route, `record` the read of record of each stop, `runs`, `play` what has been made up and not yet posted; `seeds` and `played` are histories |

`MCScreens` puts `FieldScreens`, `OfflineMap` and `Consoles` side by side: a tab is on a console, on a reader's
screens or on a map (`open`), the three share no variable, and one run explores each
with the others standing still. `MCFieldQueue`, `MCExceptionLifecycle`, `MCRunStops`,
`MCBillingExport`, `MCStaffDirectory` and `MCMeterReads` give constants and symmetry for TLC; `MCMeterReads` also puts `Playback`
beside `MeterReads`, in the same way. `FieldQueueProofs`,
`ExceptionLifecycleProofs`, `RunStopsProofs`, `BillingExportProofs`,
`StaffDirectoryProofs`, `WebSessionProofs` and `MeterReadsProofs` each extend the module
they are named after and hold its theorems; `ScreensProofs` extends `MCScreens` and holds
those of `FieldScreens`, `Consoles` and `OfflineMap`. `FieldQueue` instantiates `CaptureDelivery` with a refinement mapping;
`MeterReads` extends `ReadValidation`, and `Playback` instantiates it with the deployed
configuration, once for each size of register. The other modules do not share variables: each
abstracts its neighbours to the calls they make (a read lands, an exception is decided).

### Atomicity

*Browser.* JavaScript runs to completion between awaits. A step of `FieldQueue`,
`MeterReads`, `WebSession`, `FieldScreens`, `OfflineMap` or `Consoles` is the code between
one await and the next; a write is issued by one step and takes effect, with its
continuation, in a later one. React batches the updates of one handler into a render, and
the effects of one commit run together: `FieldScreens` has a step for the first commit of a
page (its draft is read, then removed) and one for the render that follows.

*Server.* No isolation level is set, so PostgreSQL uses READ COMMITTED: a statement sees
what was committed when it started and its own transaction's writes; an UPDATE that has
waited for a row lock re-checks the columns of *that row* and nothing else. A step is
therefore one statement, a transaction's writes become visible at its commit, and an
UPDATE whose WHERE has a subquery on other rows is two steps: *start*, where the
subquery is answered, and *write*, where the row's own columns are checked again. This
is what separates the guards that hold (reread cap, terminal statuses, incumbents,
Movable stops) from those that do not (section 5). `MeterReads` and `Playback` are
coarser in one place: the SELECTs that `ingestOne` makes before it validates, of the stop
and its read of record and then of the history, are one step there. The history leaves out
the reads of the stop itself, so no read is looked for by two of them, and no property
relates what the first found to what the last did.

### Abstractions

Ids are model values, capture times are numbers in a fixed order, payloads, audit rows,
formatting and error texts are left out. In `RunStops` and `BillingExport` what
validation finds in a read is a constant; `ReadValidation` and `MeterReads` compute it.
In the engine, time is in months, a history is a set of reads with distinct times, and a
mean is compared as a sum and a count in tenths, so that nothing is rounded.
In `ExceptionLifecycle` the other reads of a meter that may be certified - of the same
billing cycle, or where a cycle is not known - are one, `"other"`.
`MeterReads` lets no stop be visited again after the next cycle's stop. `WebSession` has
one tab, keeps requests that are alike as one, treats the two shells as one, lets a token
be fresh or stale, and lets the session hook give up with no session if it cannot ask.

In `FieldScreens` a value stands for the text of the reading with its note, and a page
mounts anew for every stop, as the router does for a dynamic segment. In `OfflineMap`
coordinates are units of which 2^`GRID` go round the world, so that a tile is an integer
division; glyphs and sprites are one asset; the browser's own HTTP cache, which only
repeats answers, is left out; and so is the map of a stop's page, which shows two stops
and prefetches nothing. In `Consoles` what a page is about is a subject with a
version, and whether the API still takes actions on it; the exports page starts on the
client its probe found, the assignment page on a client somebody chose; other people
change the subject of the pages that have one for as long as they are mounted (a run, an
exception, the staff).

## 3. What TLC checks

All runs finish without error except the three violation runs, which check one property
each (section 5). Deadlock is checked in `WebSession`; in the other modules the system may
come to rest (every capture made and landed, every run closed, nobody clicking), so their
configurations say CHECK_DEADLOCK FALSE.

| Run | Instance | Properties |
|---|---|---|
| `FieldQueue` | a read and a skip, both with photographs; the skip may be refused; two overlapping loads; captures before the first load; 2 faults (a death of the tab, an outage, a failed call, a lost token) | `LandsAtMostOnce`, `SyncedIsStored`, `EvidenceFirst`, `NothingWaitsUnasked`, and `KeepsCaptures`: the queue implements `CaptureDelivery` (safety) |
| `FieldQueueDelivery` | two reads and a skip after the first load, 2 faults | the liveness property `DeliversCaptures` |
| `ExceptionLifecycle` | a flagged read and a skip, two supervisors, a reader, two rereads, cap 2 | `RereadCap`, `OrderedHasTask`, `DecisionStands`, `TerminalIsFinal` |
| `RunStops` | two stops, two readers, three readings (one a supervisor's correction), two requests at a time, one may die; one split | `ReadsCount`, `ClosedRunIsDone`, `RecordNeverOlder` |
| `BillingExport` | two stops, a flagged read and its second reading, two requests, three export ids | `OneCurrent`, `BlockedNeverBilled`, `SnapshotsStand` |
| `StaffDirectory` | the founder and two newcomers who share an address, four rows, two requests | `OneRowEach`, `ClaimedByAddressee`, `AdminRemainsAlone` |
| `MeterReads` | a one-digit register, four kinds of meter, two stops, up to three captures; a world seeded in January or August, two playbacks, two months between them or before them, one event lost, one stop read by a person | `Conserved`, `DisagreementFlagged`, `PreviewAgreesWhenCurrent`; `EachTripsItsOwn` |
| `WebSession` | anybody, invited or not; two clicks; the network free to come and go | `NoResurrection`, `TokenFollowsSession`, `UninvitedComesToRest` |
| `Screens` | a console of three clients, one without cycles, two clicks and a change by others; a reader at two stops; a map whose route fills the cap of the prefetch, a failure of the bucket or of the cache | `RestsOnSelection`, `OwnChangeShown`, `RefusalResyncs`; `DraftIsWhatWasTyped`; `PrefetchIsKept`, `MapSettles` |

Each run also checks its module's `TypeOK` (except `FieldQueueDelivery`), the run of
`MeterReads` that of `Playback` as well (`AllTyped`).

What the run of the screens shows: a console may show answers in any order and yet, once
the last one asked for has been shown, shows what is selected, if that is a cycle at all.
What a supervisor did to a run, or an admin to somebody on the staff list, is on the screen
even if the answer to it was lost, because both pages ask again after every outcome; the
form that adds staff asks again only when it hears of success, so of an addition this is
said only if its answer came. A refusal brings these pages up to what refused it. A draft is
what was typed and not submitted, through every order of effects, saves and navigation,
unless it was typed while an earlier reading of the stop was being saved, or the page is
stopped between its first two renders. What a prefetch without a failure has fetched for
the view of its route is on the device from then on, or on its way into the cache, new
versions of the worker included, unless its own put was lost or an empty answer from before
a pack was published was put after it; the cap of the prefetch takes
tiles away from below only (`KeptFromAbove`, a part of `PrefetchIsKept`). That is less than
that the map draws offline, which it need not (`OfflineDraws`, section 5). A map that is
opened always ends in a map or in the plot.

What the playback in the run of `MeterReads` shows: the multiples the simulator reads (3, 0.15, 8, 4 times
a nominal usage of 100) stay on their side of every threshold of the engine,
against the mean of a year at either extreme of the noise, and still do less than three
months later (`FreshMonths`), when the months of the least or of the most usage have left
the window. A run played back so soon, as it was seeded, therefore trips every rule
(`EveryRuleTrips`). Later it need not (`EachTripsItsOwnForever`, section 5).

### Bounds, and why they are enough

- *Two requests* (supervisors, exports, admins): the guards are about pairs; a third
  request only repeats one of the two roles. `RunStops` needs `MaxFailures = 1`: one
  request dying leaves the partial state, and the other finds it.
- *Two faults* in the queue let an answer be lost and the tab die on the retry, or a token
  be lost during an outage; a token may be regained at any time. With two
  loads, one can be overtaken by the other at each of its awaits; they are interchangeable
  in the safety run (`LoadSymmetry`), which has no property that tells them apart.
- *Two stops and three readings*: one stop with a reading and its correction by a
  supervisor, another to keep the run open, read by the other reader: readings by the
  owner, by somebody who is not, and by staff, who may post on any run.
- *Three export ids*: two overlapping requests and an export for them to replace.
- *`Horizon = 3`* months after the imported history, a *one-digit register* and the values
  1, 9 and 10: increase, still, decrease, wrap, and a reading beyond the register all
  happen (with 4 as well the result is the same, in two million states); the histories give a meter with no baseline, a low and a high one, and one
  with a corrected misreading. The multipliers are the
  deployed ones, in tenths; the window is four months instead of twelve and a
  baseline takes two reads instead of three, so that short histories reach both.
- *`MaxClicks = 2`* allows a sign-out followed by a sign-in or a reload, in any page;
  the same run has also been done with 3.
- *Consoles*: two clicks are a selection and another, or a selection and an action: each
  leaves up to two answers that can pass each other (three on the exports page). One
  change by others is what a refusal needs. Of the three clients two have different newest
  cycles and the third has none, so that every pair of them occurs in both orders.
- *Field screens*: `MaxSaves = 1`, `MaxValue = 1`: a save under way while text is typed at
  its stop, or while another page is open, which is all one save can disturb; one text and
  its absence. Two of each have been tried with the same result.
- *Offline map*: the box of the route lies in one tile of the lowest zoom and covers several
  of the next, which `MAX_TILES = 1` cuts off whole; `CONCURRENCY = 1` keeps the
  order of the list, and what several workers add is only which of the answers comes
  first, which the map's own requests show too. One put in the cache at a time
  (`MaxPuts = 1`; the map alone has been checked with 2), one opening (what a second finds
  of the first is proved, not checked), one failure of the
  bucket or of the cache and one later render. `EveryBoxFromAbove` goes through every box
  between 12 corners and caps of 1 to 4, so the cut falls inside a zoom as well.
- *Playback*: January and August, because the month that leaves the window first is the
  month of the seeding, and in these it is the smallest or the largest; one noise factor for
  a whole history, at 0.85 and 1.15: only the mean is
  compared with, and it lies between. One start value, which only the wrap of the register
  depends on and the seed overrides for the meters that wrap. A time unit is a tenth of a
  month; `Pauses = {2}` and `MaxTime = 28` let the playbacks come at once or two months
  after the seeding, or beyond `FreshMonths`. Every month of the year has been tried with
  noise 0.85, 1 and 1.15, either draw and pauses of up to ten months: nothing fails before
  three months, `EveryRuleTrips` included. Two playbacks and one lost event are
  the first playback of a run and its repetition. A seeding is one step: its rows are
  written before a playback can name them.

Counters that code leaves unbounded (sequence numbers, reread counts) stay bounded by
the number of captures or by the property that caps them.

### Fairness

- `FieldQueue`: the tab's own steps, the server's answers and `load` go on (weak
  fairness of each); the device comes back online, the person signs in again, and somebody
  signed in presses sync while something is unsent. The last three are assumptions about
  the environment: the code has no timer and does not sync when a token comes, so a row
  that failed, or was captured without a token, waits for one of its triggers
  (`NothingWaitsUnasked` says what does *not* wait). Captures and faults are not fair;
  faults are bounded, so retries end.
- `WebSession`: requests are answered or fail, the hook learns of the session, the
  refresh interval passes. The person and the network are not fair;
  `TokenFollowsSession` is conditional on being online for good.
- `Consoles`: a request is served and its answer arrives, or it fails. `OfflineMap`:
  requests are answered or fail, a put in the cache ends one way or the other, and a map
  that comes up goes on (the import, the style, `load`). The prefetch needs none. Clicks,
  the signal, the worker's updates and other people are not fair. `FieldScreens` has no fairness.
- `Playback` and the server modules have no fairness: only safety is claimed of them.

## 4. What is proved

Every theorem is about the specification TLC runs, for every value of the constants that
its module's assumption admits. The assumptions say how constants fit together (a reading
has a stop, a person has verified addresses, `NoRead` is not a read), that a cap is
positive, that a client has a newest cycle or `NoCycle`, and that what is counted is finite; none restricts a size. Of the captures they
say that they are finitely many; of the imported reads that they are finitely many too, in
the order of their stops (those of no stop first), no two of a meter at one time, and
that time passes between captures (`Gaps` without 0); of the map that zooms,
cap, padding, pool and openings are natural numbers, the zooms within the grid, stops within the
world, and that a route has a stop. TLC evaluates each in a run. Some theorems assume
more, and say so in their statement: `OneLoadKeepsOrder` and those named "Unless" that
certain requests do not overlap, three others what the imported reads are like. Types
come first; the other invariants below are the
strengthenings under which the property is inductive.

| Module | Theorem | Statement | By way of |
|---|---|---|---|
| `FieldQueueProofs` | `NothingLandsTwice` | `Spec => []LandsAtMostOnce` | `Shapes`, `Backed`, `OnDevice` |
| | `SyncedRowsAreStored` | `Spec => []SyncedIsStored` | the same |
| | `EvidenceComesFirst` | `Spec => []EvidenceFirst` | and `Evidenced` |
| | `QueueKeepsCaptures` | `Spec => KeepsCaptures`, the safety part of `CaptureDelivery` | `StepsDeliver` |
| | `NothingIsLeftWaiting` | `Spec => []NothingWaitsUnasked` | `Flags`, `Asked` |
| | `TypeCorrect` | `Spec => []TypeOK` | `Flags`, `Numbers` |
| | `OneLoadKeepsOrder` | `Spec => [](MirrorCoversStore /\ NumberedOnce /\ (loaded => mirror = disk))`, if loads do not overlap and no capture precedes them (`OneLoad`) | `Numbers`, `Settled` |
| `ExceptionLifecycleProofs` | `TypeCorrect` | `Spec => []TypeOK` | |
| | `CapHolds` | `Spec => []RereadCap /\ []TasksWithinCap` | `CountsWithin` |
| | `OrdersAreInHand` | `Spec => []OrderedHasTask` | |
| | `ClosedForGood` | `Spec => TerminalIsFinal` | `ClosedStep` |
| | `DecisionsHold` | `Spec => []DecisionStands` | |
| | `OneTaskUnlessOrdersMeet` | `Spec /\ []OrdersApart => []AtMostOneOutstanding` | `OneTask` |
| `RunStopsProofs` | `TypeCorrect` | `Spec => []TypeOK` | `Placed`, `Carving`, `Closing` |
| | `ClosedRunsAreDone` | `Spec => []ClosedRunIsDone` | the same |
| | `LandedReadsCount` | `Spec => []ReadsCount` | and `Answered`, `Grounded` |
| | `RecordsNeverOlder` | `Spec => RecordNeverOlder` | and `Winning` |
| | `PendingOnlyMoves` | `Spec => OnlyPendingMoves` | and `Unplaced` |
| | `SkipsAreRaised` | `Spec => []SkipIsRaised` | |
| | `RecordIsLatestUnlessReadingsMeet` | `Spec /\ []ReadingsApart => []RecordIsLatest` | and `Compared`, `Latest` |
| | `ReadIsOwnersUnlessTransfersMeet` | `Spec /\ []TransfersApart => []ReadIsOwners` | and `Unplaced`, `Owned` |
| | `FinishedRunClosesUnlessSettlingsMeet` | `Spec /\ []SettlingApart /\ []SplitsLeaveSome /\ [](failures = 0) => []FinishedRunCloses` | `Unplaced`, `Finishing` |
| `BillingExportProofs` | `TypeCorrect` | `Spec => []TypeOK` | |
| | `OneIsCurrent` | `Spec => []OneCurrent` | `Succession` |
| | `SnapshotsHold` | `Spec => SnapshotsStand` | `Succession` |
| | `NothingBlockedIsBilled` | `Spec => []BlockedNeverBilled` | `Clearance` |
| | `EachStopInFileOnce` | `Spec => []EachStopOnce` | `AllOnce` |
| | `CertifiedReadBillsUnlessReadAgain` | `Spec /\ [][DecidedOnRecord]_vars => CertifiedReadBills` | `OnlyOneBills` |
| `StaffDirectoryProofs` | `TypeCorrect` | `Spec => []TypeOK` | |
| | `OneRow` | `Spec => []OneRowEach` | `RowStep` |
| | `AddresseesClaim` | `Spec => []ClaimedByAddressee` | `Proved` |
| | `AdminsRemain` | `Spec => []AdminRemainsAlone` | `Alone` |
| | `LinksHold` | `Spec => LinkedForGood` | |
| `WebSessionProofs` | `TypeCorrect` | `Spec => []TypeOK` | `BridgeHasSession` |
| | `EndedStaysEnded` | `Spec => NoResurrection` | `BridgeHasSession` |
| `MeterReadsProofs` | `TypeCorrect` | `Spec => []TypeOK` | `Timed`, `Apart` |
| | `DisagreementIsFlagged` | `Spec => []DisagreementFlagged` | `Noticed` |
| | `PreviewAgreesWithServer` | `Spec => []PreviewAgreesWhenCurrent` | `Known`, `Agreed` |
| | `BilledIsNotNegative` | `Spec => []BillableIsNotNegative`, if no imported consumption is negative | `BillableVerdict` |
| | `ConsumptionIsMovement` | `Spec => []EachMoves`, if it is so of the imported reads | `VerdictMoves` |
| | `ConsumptionAddsUp` | `Spec => []Conserved`, if the imported reads add up (`AddsUp`; TLC evaluates it of the histories of the run) | `Sequenced`, `Chained`, `ChainAddsUp` |
| `ScreensProofs` | `DraftsSurvive` | `Spec => []DraftIsWhatWasTyped` | `FieldShapes` |
| | `ConsolesRestOnSelection` | `Spec => []RestsOnSelection` | `OneWait`, `Selected` |
| | `OwnChangesShown` | `Spec => []OwnChangeShown` | `Answers`, `Caught` |
| | `PrefetchesAreKept` | `Spec => []PrefetchIsKept` | `CacheKeeps`, `DoneIsKept`, `ListedFromAbove` |
| | `TypeCorrect` | `Spec => []TypeOK` | `Counted`, `PoolBounded` |

### The arguments

*Field queue.* `Shapes` says of the variables what the rest needs, without the bounds of
`TypeOK` on sequence numbers and faults. `Backed`: whatever the device calls synced, in the
store, in the mirror, in what a load has read or in an answer about to be written, the
server has. It is inductive because the word comes from the server's answer only and rows
of the server never go. `OnDevice`: a capture with a request on its way is in the store, or
on the server already. Without it, a request could outlive the row it was made from. The
store changes in few ways (`StoreStep`: a row written, a row dropped that the server has,
the tab stopped with some outstanding writes done); each of them is a step of
`CaptureDelivery` or none, which is `StepsDeliver`, and with it `QueueKeepsCaptures`.

That nothing waits unasked is `Asked`: whatever the mirror shows as unsent or as being
sent is in the hands of the pass (`InHand`), or the drain will still come to it
(`Wanted`): it is among what the pass has left, the pass is to run again (`resync`), or,
with no pass, the device is offline or a sync was turned away for want of a token
(`declined`), which only a sync that starts a pass takes back. A capture made while the pass is at its last row is
the case that needs `resync`, and the flag is only cleared in the step that takes up
everything there is. `Numbers`: no sequence number in any variable exceeds how many
captures have been numbered, hence the bounds of `TypeOK`. `Settled`, for one load at a
time: until it is through nothing else happens, afterwards the mirror is the store, and
what is in the store or on its way there has numbers of its own below the counter. With
it `MirrorCoversStore` and `NumberedOnce`, which two overlapping loads break (section 5),
are known to be broken by nothing else.

*Exceptions.* `RereadCap` alone does not bound the tasks, and `TasksWithinCap` needs that
a task is only added with a count: the two together, `CountsWithin`, are preserved by
every step, because each place that raises the count (`OrderCommits`, `LandReread`)
re-checks it in the same step, under the row's lock. `OrderedHasTask` is inductive with
the types: the only step that ends tasks without ordering, `LandReread`, moves the
exception out of `reread_ordered` at the same time unless it leaves the tasks alone. A
decision is recorded in a step that closes the exception, and a closed exception's columns
change in no step (`ClosedStep`). `OneTask`: while no two orders for one exception update
its row at once, an order that may still go on has found no task in hand, and none has
come since.

*Runs.* That the types hold is not obvious: a request remembers the run it is about, and
the run must still be there. `Placed`: until the stops of the assigned run are placed
nothing goes on that needs one. `Carving`: two splits never make the same run. `Closing`:
the run a read is about to close has no stop left but the one this read settles, which
stays so while the request is between its count and its commit, because a stop, once
settled, is never pending again and a split only ever fills a run of its own. `Answered`
and `Grounded`: a stop is read exactly when one of its reads is stored, and a read that
found an earlier one there, or is not to become the record, is at a stop that is read.
`Winning`: a read about to be the record of its stop is later than the record that is
there, because the row has been compared again and is held since.

*Runs, unless requests meet.* Three properties that the code means to have are refuted by
TLC (section 5). For each there is a premise about which requests overlap under which it
is proved, so that nothing else breaks it, whatever else is replayed, skipped, split or
dies. `ReadingsApart`: two different readings of one stop are not ingested at once (one
reading sent twice may be); then what a read was compared with is the read of record
until it commits (`Compared`), and nothing later is ever left out (`Latest`).
`TransfersApart`: no stop is being reassigned or split off to another reader while a read
of it is ingested; then what a reader has read or is reading is on that reader's run
(`Owned`). Staff post where they like.
`SettlingApart`, `SplitsLeaveSome` and no failures: the requests that read, skip or take
away stops of one run do not overlap, a split leaves a pending stop, and no request dies;
then an open run without a pending stop is about to be closed by the request that skipped
its last one (`Finishing`). No premise is idle: without one of them, or one half of
`TransfersApart`, TLC finds a violation.

*Export.* `Succession` is `OneCurrent` without the cardinality: two current exports are
one, there is one once there is any, and a superseded one names another that is stored.
The insert is refused unless the prior one the UPDATE found is the only current one still
(`IndexAdmits`). `Clearance` follows a body from the two statements that collect it to the
file: the read of record found first has landed, with its exceptions, before the second
statement looks for them; what that finds cleared stays cleared. `AllOnce` follows the
same bodies: a stop gets one verdict, so it is billed once or held once. The certified
read bills (`CertifiedReadBills`, refuted in section 5) in every step in which a decision
is on the read of record of its stop (`DecidedOnRecord`): a later reading that has taken
its place is the only thing that can keep it out.

*Staff.* Rows change in four ways (`RowStep`), each of which keeps one row to a person and
an address, by the unique indexes. `Alone`: unless two guarded UPDATEs have overlapped
there is an admin, one UPDATE at most is under way, and the admin who covered it is still
there. The other requests cannot take the admin away: a row with a person is not deleted.

*Session.* `BridgeHasSession`: a live call of the bridge was made for a session that the
hook still reports, because the effect's cleanup cancels it when that changes.

*Meter reads.* A capture is on the device, in flight or stored, and no two have one time
(`Timed`, `Apart`). `Noticed`: of two readings of a stop that disagree, one found the
other there, or a third one of the stop was stored before the later was validated, with
which it may have been compared instead; the property follows for the readings that did
not overlap. `Known`: what the form warned of is what the engine finds in a history of
stored reads; the reader remembers which. `Agreed` then follows because the engine looks
at a window of the history only, and of equal windows finds the same
(`SameWindowSameFinding`). What is stored as a consumption is either the movement of the
register or its wrap, and a wrap in its band is not negative (`VerdictMoves`,
`BillableVerdict`). Of `10^Dials` the provers know no more than that it is an integer,
and nothing here needs more.

That consumptions add up is a sum over any number of reads. `Sequenced`: reads are in the
order of their stops, on the device and on the server, and finitely many. `Chained`: what
was judged with all the reads before it known is measured from the read it `Follows`, the
last one of another visit, and nothing that is still to come can stand between the two.
So the reads of record of such a meter form a chain from the first to the last, each with
the movement since the one before, and the sum telescopes (`ChainAddsUp`). The induction
the provers lack is replaced by a least counterexample: of the sets of reads up to one of
them that do not add up, finite as they are, one is smallest (`SomeIsLeast`), and it is
not empty, not the first, and not one more than a set that does.

*Drafts.* Until its second render a page has not got its run, so nothing is
typed or submitted between the commit that takes the draft away and the one that writes
it back: `FieldShapes` says so of every page, and the property is then preserved by each
way a step may leave the drafts alone, save, take or remove one (`DraftsKept`). A save
remembers whether something was typed at its stop since (`over`), so what it may remove
beyond what it saved is in `wiped`.

*Consoles.* `Selected`: there is a request m since which everything asked is of the
selection, what is shown is of it if it was asked since, and m's answer is shown or still
to come; so once nothing is on its way the screen has what is selected. It is said of a
selection with a cycle: without one nothing is asked for. The export pages
need `OneWait`, that one request at most has the buttons wait: it is why the client
cannot be changed under a file being made. `Caught`: the person's last change
is in an answer on its way, or there is a request since which everything asked is
answered with it; `Answers`, that no answer is of a version that was not there yet. The
types rest on `Counted`: the version of a subject is at most the clicks and changes so
far, less what is still pending.

*Map.* `CacheKeeps`: style and labels are kept whole or not at all, and a tile is kept,
or about to be, with something in it, whole or failed, only where a pack is published,
which does not un-publish; a late answer therefore blanks nothing, unless it is from before
the pack, and then it is in `spoiled`; and a new worker keeps the cache of the tiles.
`Secured`: a URL is kept, or its answer is on its way into the cache, or it is in
`spoiled`. Once true of a URL it stays so (`SecuredStays`). `DoneIsKept`: while nothing has
failed, what a prefetch has taken off its queue and is not fetching is secured, whichever
opening it is of. With the whole list done, the view of the route is. The cap takes tiles
away from below because the list is in the order of the zooms (`ListedFromAbove`): a
tile's column and row are half of what they are a zoom closer (`HalfATile`), so the tile
above it covers the same box and stands before it, and the last tile the cap keeps has
fewer than the cap before it (`CapHolds`). The arithmetic needs that a power of two is
twice the one before, which the provers do not know; it is derived from what the library
knows of the subsets of an interval (`PowersOfTwo`).

### Only model-checked

- All liveness (`DeliversCaptures`, `TokenFollowsSession`, `UninvitedComesToRest`,
  `RefusalResyncs`, `MapSettles`), which is out of the prover's reach.
- `EachTripsItsOwn` of `Playback`: arithmetic over twelve months of given numbers, which
  holds of these numbers and not of others. It is a computation, and TLC does it.
- `AllTyped`: its half about `MeterReads` is `TypeCorrect`; its half about `Playback` rests
  on the same numbers (that 10^4 and 10^5 are sizes of a register, that the simulated
  usage of twelve months is a number), of which the provers know nothing.

## 5. Where code and words differ

Three runs check what a comment or a document says and find it violated:

1. `FinishedRunCloses` - "a concurrent read on the last two stops cannot both see one
   remaining" (`ingestion.service.ts:254-256`). Each transaction sees its own stop only;
   both find the other pending; the run stays open, and nothing closes it later. Splitting
   off all the remaining stops leads to the same state, and so does a skip that dies before
   it closes the run; nothing else does (`FinishedRunClosesUnlessSettlingsMeet`).
2. `CertifiedReadBills` - "a certified read is swapped into the billing export in place
   of the flagged one" (`exceptions.service.ts:440-442`, ADR-023). The swap is looked up on
   the stop's read of record; once a second reading has become that, the decision on the
   first one is not consulted. Otherwise it is (`CertifiedReadBillsUnlessReadAgain`).
3. `FailuresNotKept` - a bucket that could not be read is treated "as empty. Don't cache
   it, so the next request retries against origin" (tiles `route.ts:125-126`). The answer is
   a 204, the service worker keeps whatever is `ok` (`sw.js:73-79`) in the cache it asks
   first, and no later request for the tile leaves the device.

More properties are stated in the modules and refuted by TLC, without a run of their own:

- `AtMostOneOutstanding` (`ExceptionLifecycle`): two orders overlap
  (`exceptions.service.ts:311-312` says they cannot both pass). Both UPDATEs start before
  either commits; the NOT EXISTS on tasks is not asked again. With a count of 0 and a cap
  of 2, two tasks are in hand. The count is re-checked, so the cap itself holds.
  Orders that do not overlap never do it (`OneTaskUnlessOrdersMeet`).
- `RecordIsLatest` (`RunStops`): two first readings of a stop are ingested at once; the
  earlier one commits first, the later one finds the incumbent changed and does not become
  the read of record. `RecordNeverOlder` holds instead, and `RecordIsLatest` unless
  different readings of one stop overlap (`RecordIsLatestUnlessReadingsMeet`).
- `ReadIsOwners` (`RunStops`): a reassignment starts (no stop is read), the old reader's
  read commits, the reassignment writes; the read stands on another reader's run. A split
  that takes the stop between the check of the reader and the insert does the same. These
  two are all that do (`ReadIsOwnersUnlessTransfersMeet`).
- `AdminRemains` (`StaffDirectory`): two admins demote each other; each UPDATE still sees
  the other as an admin. Nobody is left who can administer. `AdminRemainsAlone` holds when
  guarded UPDATEs do not overlap.
- `PreviewAgrees` (`MeterReads`) - "the app and the server can never disagree about which
  reads that covers" (capture page, 176-179). The server leaves the stop's own reads out of
  the history, the form does not: a re-captured reading shows no anomaly in the form.
  `PreviewAgreesWhenCurrent` is what does hold: they agree on a stop's *first* reading,
  if the form knew all earlier reads.
- `StreakSpansCycles` (`MeterReads`): a meter at 5 is read at stop 1 twice with 5, a
  re-capture; at stop 2 a third 5 raises the streak of three "cycles" (`validation.ts:55`)
  after two, because the first, superseded reading is still in the history.
- `SignOutHolds` (`WebSession`): a refresh is answered between the press of the button and
  the end of the session at the provider, or the sign-in screen, mounted while the hook
  still reports a session, asks for a token; the token is stored again. Online it goes once
  the hook learns of the end (`TokenFollowsSession`); offline the request to end the
  session fails unnoticed, and the next refresh that reaches the provider signs the person
  back in, which is what `session.ts:53-57` registers the provider's sign-out to prevent.
- `MirrorCoversStore` and `NumberedOnce` (`FieldQueue`) hold when loads do not overlap,
  which is proved (`OneLoadKeepsOrder`); with two loads a capture made meanwhile drops out
  of the mirror until the next load.
- `NothingWaitsOnceSignedIn` (`FieldQueue`): a capture is made, the token goes before its
  write is done, so that the sync it asks for is turned away (`queue.ts:222-223`), and the
  person signs in again. Nothing syncs when a token comes: `load` returns at once when it
  has loaded, and only the window's `online` event calls `sync` (`queue.ts:332-334`). The
  capture waits for the next one, a press of the indicator, a reload or an outage.
  `NothingWaitsUnasked` holds but for this.
- `RetypedSurvives` (`FieldScreens`, `stops/[stopId]/page.tsx:225-240`): a reading is
  submitted, the reader goes on typing, on the page or on a new one of the same stop, and
  the write returns: the draft is removed with the new text in it, and the run opens.
- `DraftSurvives` (`FieldScreens`): the page is left or killed between the commit that
  reads and removes the draft and the render that writes it back; the draft is lost.
- `QueuedIsDeliberate` (`FieldScreens`): a stop whose capture still waits on the device
  is pending at the API, so its page shows the form, not the reading; a second capture
  needs no "Re-capture".
- `ErrorMeansNothingToShow` (`Consoles`, `runs/[id]/page.tsx:22-28`): a reload after a
  refused action fails; the run is still there but the error takes the screen, and nothing
  clears it.
- `EmptySelectionShowsNothing` (`Consoles`, `exports/page.tsx:57-75, 131`): the client is
  changed to one without cycles; the preview of the new client with the cycle of the one
  before is asked for, the cycles come and empty the selection, which asks for nothing and
  clears nothing, and the preview arrives: it stays, under "No runs for this client yet".
- `AdditionShown` (`Consoles`, `staff/page.tsx:176-200`): somebody is added and the answer is
  lost. The form reports a failure and does not ask for the list, unlike the other changes
  of the page.
- `ExceptionResyncs` (`Consoles`): the page of an exception does not ask again after a
  refusal, as the pages of a run and of the staff do.
- `OfflineDraws` (`OfflineMap`) - "Losing signal mid-route leaves the map intact"
  (`docs/decisions/ADR-022`, 30-34). The map is made with no view
  (`BaseMap.tsx:104-110`), so before `load` it asks for the tile of the whole world, 0/0/0,
  which the prefetch, from zoom 13 on, does not list; on a device that has not drawn a map
  online before, the request fails and the map gives way to the plot. Nor does the prefetch
  learn whether an answer was kept: `putIfOk` puts it after it was given and nothing waits
  for it (`sw.js:73-79`). `PrefetchIsKept` is what does hold.
- `CoverageAppears` (`OfflineMap`, tiles `route.ts:48-52`): a tile kept as empty before a
  pack was published stays empty on the device.
- `OverlayFollows` (`OfflineMap`, `BaseMap.tsx:161`): `load` draws with the stops of the
  first render, and the effect that redraws had returned early before it.
- `EachTripsItsOwnForever` (`Playback`): reads older than a year leave the mean, and the
  year that is left may be heavier or lighter than the one that was seeded. Seeded in
  January with noise of 1.15 and played back in April, the mean of the nine months left is
  just over half of what `high` plays back, and nothing is raised; from five months on
  `leak` fails too, and from six on `high` does with no noise at all, for some seedings.
- `StopGetsItsPlan` (`Playback`, `anomalies.ts:82`): the playback counts places among the
  stops still pending (`playback.ts:58-65`). Once a stop of the run was read by a person, or
  a playback lost an event and is repeated, the others get anomalies their meters were not
  prepared for.
- `ReseedChangesNothing` (`Playback`) - "deterministic ids + upserts, so rerunning changes
  nothing" (`seed.ts:13-14`). The id of a historical read holds its time of capture, which
  is counted back from the present (`seed.ts:77`): a second seeding on the same day adds a
  second year of reads.

Smaller ones that no property states: `staff/page.tsx:12-13` says one row waits while its
change is made, `rowBusy !== null` disables all; `geo.ts:66-70` leaves it to the caller to
log that the cap trimmed, and the caller does not; ADR-020:47-48 has a run open offline,
while the page fetches the run first.

## 6. Mutants

For every property of a passing run `PROJECT.json` names a definition and a mutated form
of it - a dropped guard, a missing reset, a stale comparison - under which the property
fails in that run. The mutated forms stand in the modules just before the definitions
they replace (`OrderUncapped` before `OrderAllowed`, `Kept` before `Cancel`) and are used
nowhere else.

## 7. Hazards

`PROJECT.json` lists what in this code is hard to test, at its line, with the property
that would catch it. Where no property covers one its note says why: because the code
accepts it (a late read is not recomputed) or because a property states it and is refuted
(section 5). Others were met while modelling and are not in that list, because nothing
here checks them:

- a failed `me` leaves the page of a stop loading for good (`stops/[stopId]/page.tsx:137-139`);
  a save that returns after the reader stepped on pulls them back to the run;
- on the assignment page the routes of the client before stay until the new ones come
  (`assign/page.tsx:25-29`); the error of the exceptions queue is never cleared;
- a skip queued for a stop that has moved to another run matches no row and is answered 200
  (`runs.service.ts:361`); its exception may be raised after a read has answered the skip
  (378), or not at all if the request dies after its UPDATE (353);
- corrected readings stay in the history of later stops (`rules.ts:115`); the form is given
  eight reads, the server up to a year's (`meter-reads.service.ts:9`);
- a read captured before its run was reassigned is refused and retried without end
  (`ingestion.service.ts:114`).

## 8. Not modelled

- *Screens*: rendering, geolocation, the taking of photographs, the plot that stands in
  for a map, the map of a stop's page, messages and notes, pages of a single load (dashboard, roster, catalogue,
  meter history), downloads.
- *Shell pages and assets* the service worker keeps: the same put-if-ok as tiles, with
  names that change with every build.
- *Queries*: lists, details, dashboard, roster, catalogue, meter history. They change
  nothing.
- *Audit log and taxonomy cache*: append-only rows after the change they describe, and a
  lazily filled lookup of seeded rows.
- *Photo storage*: an upload succeeds or fails.
- *Development*: seeded sign-in, the local staff list, the verifier, the rows of the seed
  that nothing is played back on, CI, deployment, configuration.
- Floating-point rounding of the baseline, and the annotations of a read.

## 9. Plan

Order: what loses data or money first. Done: `FieldQueue` with `CaptureDelivery`,
`ExceptionLifecycle`, `RunStops`, `BillingExport`, `StaffDirectory`, `ReadValidation` with
`MeterReads`, `WebSession`, `FieldScreens`, `OfflineMap`, `Consoles`, `Playback`.

Next, a model: device and server together, `FieldQueue` with the ingest transaction of
`RunStops` in place of its abstract server, for captures refused after a reassignment.

Next, proofs: that composition's refinement of the two modules it is made of, with the
premises of the theorems named "Unless" replaced by what a single device sends; and, for
two loads, what still holds of the mirror between them.

----------------------------- MODULE MCScreens -----------------------------
(* A tab on one of the consoles, on a reader's screens, or on the map of a *)
(* run.  The three share no state: each is explored on its own, the others *)
(* standing still.                                                         *)
EXTENDS Integers

CONSTANTS
  Clients, Cycles, NoCycle, FirstCycle, Home, MaxClicks, MaxChanges,
  Stops, MaxValue, MaxSaves,
  GRID, MIN_ZOOM, MAX_ZOOM, MAX_TILES, CONCURRENCY, MIN_PAD, SCREEN, Routes, Corners,
  MaxPuts, MaxOpens, MaxFailures, MaxRenders

ASSUME ScreensAssumption ==
  /\ {MaxValue, MaxClicks, MaxChanges} \subseteq Nat
  /\ Stops # {}
  /\ Home \in [client : Clients, cycle : Cycles] /\ NoCycle \notin Cycles
  /\ FirstCycle \in [Clients -> Cycles \cup {NoCycle}]
  /\ {GRID, MIN_ZOOM, MAX_ZOOM, MAX_TILES, CONCURRENCY, MIN_PAD, MaxOpens} \subseteq Nat
  /\ MAX_ZOOM <= GRID
  /\ LET World == 0..2^GRID - 1
     IN  Corners \cup UNION Routes \subseteq [lng : World, lat : World]
  /\ {} \notin Routes

VARIABLES
  open,  \* what is explored
  page, subjects, key, shown, calls, issued, busy, adding, picked, loadError, clicks,
  changes, newest, strayed, own, refusal,
  draft, tab, saves, queued, status, typed, wiped, cut,
  route, net, worker, tiles, asked, keeping, warm, map, opens, assured, spoiled

C == INSTANCE Consoles
F == INSTANCE FieldScreens
M == INSTANCE OfflineMap

console == <<page, subjects, key, shown, calls, issued, busy, adding, picked, loadError,
             clicks, changes, newest, strayed, own, refusal>>
field == <<draft, tab, saves, queued, status, typed, wiped, cut>>
offline == <<route, net, worker, tiles, asked, keeping, warm, map, opens, assured, spoiled>>
vars == <<open, console, field, offline>>

MCFirstCycle ==
  [c \in Clients |-> CASE c = "ames" -> "may" [] c = "boone" -> "june" [] OTHER -> NoCycle]
MCHome == [client |-> "ames", cycle |-> "may"]

\* Two stops whose lowest tile fills the cap.
At(x, y) == [lng |-> x, lat |-> y]
MCRoutes == {{At(2, 2), At(5, 5)}}
MCCorners == {At(x, y) : x \in {0, 3, 8, 12}, y \in {0, 7, 10}}

Init ==
  /\ open \in {"console", "field", "map"}
  /\ C!Init /\ F!Init /\ M!Init
  /\ open = "field" \/ status = [s \in Stops |-> "pending"]
  /\ open = "map" \/ ~net.region

Next ==
  \/ open = "console" /\ C!Next /\ UNCHANGED <<open, field, offline>>
  \/ open = "field" /\ F!Next /\ UNCHANGED <<open, console, offline>>
  \/ open = "map" /\ M!Next /\ UNCHANGED <<open, console, field>>

Spec == Init /\ [][Next]_vars /\ C!Fairness /\ M!Fairness

\* The types of all three.
TypeOK == C!TypeOK /\ F!TypeOK /\ M!TypeOK

\* A console at rest shows what is selected, if that is anything (Consoles).
RestsOnSelection == C!RestsOnSelection
\* The person's own change ends up on the screen, unless it is somebody added whose
\* answer was lost (Consoles).
OwnChangeShown == C!OwnChangeShown
\* A refusal brings the page up to date (Consoles).
RefusalResyncs == C!RefusalResyncs

\* A stop's draft is what was typed and not submitted, unless while a reading of the
\* stop was being saved (FieldScreens).
DraftIsWhatWasTyped == F!DraftIsWhatWasTyped

\* The cap of a prefetch leaves the tiles above those it keeps, for other boxes and
\* caps too (OfflineMap).
KeptFromAbove == M!WarmedFromAbove /\ M!EveryBoxFromAbove
\* What was prefetched without a failure is kept for the route, and what the cap left
\* out can be drawn from above (OfflineMap).
PrefetchIsKept == M!PrefetchIsKept /\ KeptFromAbove
\* A map comes up or gives way (OfflineMap).
MapSettles == M!MapSettles

\* A transient failure is not cached (OfflineMap).
FailuresNotKept == M!FailuresNotKept
=============================================================================

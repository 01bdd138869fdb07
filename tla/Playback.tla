------------------------------ MODULE Playback ------------------------------
(***************************************************************************)
(* The demonstration world: the seed (apps/api/seed) builds a year of      *)
(* history for the ten meters of a route and an open run over them, shaped *)
(* so that the simulator (packages/simulator), which replays the run       *)
(* through the public API, trips every rule of the validation engine.      *)
(*                                                                         *)
(* A unit of time is a tenth of a month.  The noise of the generator is    *)
(* one factor for the whole history, at its extremes: only the mean of a   *)
(* history is compared with.  Of ingestion the part that validates and     *)
(* stores is here; the rest is in RunStops.                                *)
(***************************************************************************)
EXTENDS Integers, Sequences, FiniteSets, FiniteSetsExt, Functions, TLC

CONSTANTS
  Months,       \* the calendar months of time 0, January being 0
  Jitters,      \* noise of the generated usage, in hundredths
  StartValues,  \* registers at the start of the history
  Draws,        \* noise of the usage played back, in hundredths of nominal
  Pauses,       \* how many months may pass between two playbacks
  MaxSeeds, MaxPlays, MaxByHand, MaxLost, MaxTime,
  Null, Imported

VARIABLES
  month,   \* the calendar month of time 0
  jitter, start,
  now,
  seeds,   \* when the world was seeded
  runs,    \* those of the seedings that made a run
  reads,   \* the read events of each stop's meter
  record,  \* each run's stops: the read of record
  play,    \* the playback in progress
  plays,   \* how many playbacks were started
  byHand,  \* how many stops were read by a person
  played   \* history: what each reading played back was meant to be and raised

vars == <<month, jitter, start, now, seeds, runs, reads, record, play, plays, byHand, played>>
world == <<month, jitter, start>>

Month == 10

\* DEFAULT_VALIDATION_CONFIG
Engine(registerDials) ==
  INSTANCE ReadValidation WITH
    Dials <- registerDials, BaselineMonths <- 12 * Month, MinBaselineReads <- 3,
    ZeroStreakCycles <- 3, DuplicateTolerance <- 2, HighRead <- 20, LowRead <- 3, LeakSpike <- 50,
    RolloverBand <- 20, RolloverProximity <- 9

METERS_PER_ROUTE == 10
DemoStops == 1..METERS_PER_ROUTE
DEMO_ANOMALY_PLAN ==
  <<"high", "low", "leak", "negative", "rollover_in_band", "rollover_oob", "zero",
    "location_absent", "clean", "clean">>
Kinds == {DEMO_ANOMALY_PLAN[i] : i \in DemoStops}

EXPECTED_EXCEPTION ==
  [kind \in Kinds |->
    CASE kind = "high" -> {"high_read"}
      [] kind = "low" -> {"low_read"}
      [] kind = "leak" -> {"leak_spike"}
      [] kind = "negative" -> {"negative_consumption"}
      [] kind = "rollover_oob" -> {"rollover_out_of_band"}
      [] kind = "zero" -> {"zero_consumption_streak"}
      [] kind = "location_absent" -> {"location_absent"}
      [] kind \in {"clean", "rollover_in_band"} -> {}]

Rolls(kind) == kind \in {"rollover_in_band", "rollover_oob"}
dials(s) == IF Rolls(DEMO_ANOMALY_PLAN[s]) THEN 4 ELSE 5
registerMax(s) == Engine(dials(s))!registerMax
wrap(s, v) == v % (registerMax(s) + 1)

-----------------------------------------------------------------------------
(* The seed.                                                               *)

DEMO_NOMINAL_USAGE == 100
HISTORY_MONTHS == 12
SEASONAL_MULTIPLIERS == <<85, 85, 90, 100, 115, 140, 170, 175, 150, 120, 95, 85>>

\* The usage of the month that ends i months before time t.
Usage(t, i) ==
  LET m == ((Month * month + t - Month * i) \div Month) % 12
  IN (DEMO_NOMINAL_USAGE * SEASONAL_MULTIPLIERS[m + 1] * jitter + 5000) \div 10000

\* The register then, and what is read of it: parked near its end, or standing
\* still for the last two months, where the stop's anomaly needs it.
Generated(t, s, i) ==
  wrap(s, start + MapThenSumSet(LAMBDA k : Usage(t, k), i..HISTORY_MONTHS))
Unshaped(t, s, i) == [value |-> Generated(t, s, i), consumption |-> Usage(t, i)]
Shaped(t, s, i) ==
  LET kind == DEMO_ANOMALY_PLAN[s] IN
  CASE Rolls(kind) /\ i = 1 ->
         [value |-> registerMax(s) - 50, consumption |-> Usage(t, i)]
    [] kind = "zero" /\ i <= 2 -> [value |-> Generated(t, s, 3), consumption |-> 0]
    [] OTHER -> Unshaped(t, s, i)

\* A year of reads before t, received when they were captured.
History(t, s) ==
  {[at |-> t - Month * i, received |-> t - Month * i, of |-> Imported,
    value |-> Shaped(t, s, i).value, consumption |-> Shaped(t, s, i).consumption] :
     i \in 1..HISTORY_MONTHS}

Unread == [s \in DemoStops |-> Null]

\* The id of a read is made of its meter and its time of capture: the reads of two
\* seedings are different rows unless the two were at the same instant of a month.
\* The id of a run is made of its day: a second seeding on one day makes none.
Seed ==
  /\ Cardinality(seeds) < MaxSeeds
  /\ {now - Month * i : i \in 1..HISTORY_MONTHS} \cap {h.at : h \in UNION Range(reads)} = {}
  /\ seeds' = seeds \cup {now}
  /\ reads' = [s \in DemoStops |-> reads[s] \cup History(now, s)]
  /\ \/ runs' = runs \cup {now}
     \/ runs # {} /\ runs' = runs
  /\ record' = [r \in runs' |->
                  IF r \in runs THEN record[r] ELSE Unread]
  /\ now' = now + 1
  /\ UNCHANGED <<world, play, plays, byHand, played>>

-----------------------------------------------------------------------------
(* Reads arrive.                                                           *)

\* The value shown with a stop is that of the read received last.
lastValue(s) == (CHOOSE h \in reads[s] : \A g \in reads[s] : g.received <= h.received).value

\* What a read of stop s of run r is judged with: the meter's reads before it,
\* without those of the same stop, and the stop's read of record.
Validated(r, s, ev) ==
  Engine(dials(s))!runValidation(
    [value |-> ev.value, at |-> ev.at, located |-> ev.located,
     history |-> {h \in reads[s] : h.at < ev.at /\ h.of # <<r, s>>},
     duplicate |-> IF record[r][s] = Null THEN Null ELSE record[r][s].value])

Stored(r, s, ev) ==
  [at |-> ev.at, received |-> now, of |-> <<r, s>>, value |-> ev.value,
   consumption |-> Validated(r, s, ev).consumption]

\* The latest reading of a stop is its read of record.
Recorded(r, s, ev) ==
  IF record[r][s] = Null \/ ev.at >= record[r][s].at
  THEN [value |-> ev.value, at |-> ev.at] ELSE record[r][s]

\* A value beyond the register is refused.
Accepted(evs) == Restrict(evs, {s \in DOMAIN evs : evs[s].value <= registerMax(s)})

\* The events evs, one for each of some stops of run r, are ingested.
Ingest(r, evs) ==
  /\ reads' = [s \in DemoStops |->
                 IF s \in DOMAIN evs THEN reads[s] \cup {Stored(r, s, evs[s])} ELSE reads[s]]
  /\ record' = [record EXCEPT ![r] =
                  [s \in DemoStops |-> IF s \in DOMAIN evs THEN Recorded(r, s, evs[s]) ELSE @[s]]]
  /\ now' = now + 1

\* A person reads a stop and finds the usual usage.
ReadByHand ==
  /\ byHand < MaxByHand /\ byHand' = byHand + 1
  /\ \E r \in runs, s \in DemoStops :
       Ingest(r, s :> [value |-> wrap(s, lastValue(s) + DEMO_NOMINAL_USAGE), at |-> now,
                       located |-> TRUE])
  /\ UNCHANGED <<world, seeds, runs, play, plays, played>>

-----------------------------------------------------------------------------
(* The simulator.                                                          *)

\* The value played back after value v, in hundredths of the nominal usage.
Times == [high |-> 300, low |-> 15, leak |-> 800, rollover_in_band |-> 100,
          rollover_oob |-> 400, zero |-> 0]
SecondReading(v) == v + 800
applyAnomaly(kind, s, v, draw) ==
  CASE kind \in {"clean", "location_absent"} -> wrap(s, v + draw)
    [] kind = "negative" -> IF v > 1500 THEN v - 1500 ELSE 0
    [] OTHER -> wrap(s, v + Times[kind])

Idle == [at |-> "idle"]
Pending(r) == {s \in DemoStops : record[r][s] = Null}

\* A stop is given the anomaly of its place among the stops still pending.
Kind(r, s) == DEMO_ANOMALY_PLAN[Cardinality({p \in Pending(r) : p <= s})]

\* The run is fetched and its readings made up.
Plan ==
  /\ play = Idle
  /\ plays < MaxPlays /\ plays' = plays + 1
  /\ \E r \in runs, draw \in Draws :
       /\ Pending(r) # {}
       /\ play' = [at |-> "planned", run |-> r,
                   kinds |-> [s \in Pending(r) |-> Kind(r, s)],
                   again |-> [value |-> SecondReading(lastValue(Min(Pending(r)))),
                              at |-> now, located |-> TRUE],
                   events |-> [s \in Pending(r) |->
                     [value |-> applyAnomaly(Kind(r, s), s, lastValue(s), draw),
                      at |-> now, located |-> Kind(r, s) # "location_absent"]]]
  /\ now' = now + 1
  /\ UNCHANGED <<world, seeds, runs, reads, record, byHand, played>>

\* What the readings evs, accepted, are found to be: the first of a stop nobody has
\* read, or its reading again after that.
Untouched(s, again) ==
  /\ \A h \in reads[s] : h.of = Imported \/ (again /\ h.of = <<play.run, s>>)
  /\ again => \E p \in played : p.run = play.run /\ p.stop = s /\ ~p.again /\ p.untouched
Outcome(evs, again) ==
  {[run |-> play.run, stop |-> s, kind |-> play.kinds[s], again |-> again,
    untouched |-> Untouched(s, again), months |-> (play.again.at - play.run) \div Month,
    raised |-> Validated(play.run, s, evs[s]).exceptions] : s \in DOMAIN evs}

\* They are posted; some may fail, and the simulator goes on.
Post ==
  /\ play.at = "planned"
  /\ \E lost \in UNION {kSubset(n, DOMAIN play.events) : n \in 0..MaxLost} :
       LET evs == Accepted(Restrict(play.events, DOMAIN play.events \ lost)) IN
       Ingest(play.run, evs) /\ played' = played \cup Outcome(evs, FALSE)
  /\ play' = [play EXCEPT !.at = "posted"]
  /\ UNCHANGED <<world, seeds, runs, plays, byHand>>

\* The first stop is read again, with a value that disagrees.
Again ==
  /\ play.at = "posted"
  /\ LET evs == Accepted(Min(DOMAIN play.events) :> play.again) IN
     Ingest(play.run, evs) /\ played' = played \cup Outcome(evs, TRUE)
  /\ play' = Idle
  /\ UNCHANGED <<world, seeds, runs, plays, byHand>>

\* A request fails altogether, or the simulator is stopped.
GiveUp ==
  /\ play # Idle /\ play' = Idle
  /\ UNCHANGED <<world, now, seeds, runs, reads, record, plays, byHand, played>>

\* Between playbacks, which take seconds, months may pass.
Wait ==
  /\ play = Idle
  /\ \E months \in Pauses : now' = now + Month * months
  /\ now' < MaxTime
  /\ UNCHANGED <<world, seeds, runs, reads, record, play, plays, byHand, played>>

Init ==
  /\ month \in Months /\ jitter \in Jitters /\ start \in StartValues
  /\ now = 0 /\ seeds = {} /\ runs = {}
  /\ reads = [s \in DemoStops |-> {}]
  /\ record = [r \in {} |-> Null]
  /\ play = Idle /\ plays = 0 /\ byHand = 0 /\ played = {}

Next ==
  /\ now < MaxTime
  /\ Seed \/ ReadByHand \/ Plan \/ Post \/ Again \/ GiveUp \/ Wait

Spec == Init /\ [][Next]_vars

-----------------------------------------------------------------------------
(* Properties.                                                             *)

Codes == Engine(5)!ExceptionCodes

TypeOK ==
  /\ month \in 0..11 /\ jitter \in Jitters /\ start \in StartValues
  /\ now \in Nat /\ seeds \subseteq 0..now /\ runs \subseteq seeds
  /\ \A s \in DemoStops : \A h \in reads[s] : h.value \in 0..registerMax(s) /\ h.at <= h.received
  /\ DOMAIN record = runs /\ \A r \in runs : DOMAIN record[r] = DemoStops
  /\ play.at \in {"idle", "planned", "posted"}
  /\ plays \in 0..MaxPlays /\ byHand \in 0..MaxByHand
  /\ \A p \in played : p.raised \subseteq Codes

\* A reading as the seed shaped it for: of a meter nobody has read since, with the
\* anomaly the meter was prepared for.
AsSeeded(p) == p.untouched /\ p.kind = DEMO_ANOMALY_PLAN[p.stop]

TripsItsOwn(p) ==
  IF p.again THEN "duplicate_mismatch" \in p.raised
  ELSE p.raised = EXPECTED_EXCEPTION[p.kind]

\* The months after which the mean of what is left of the seeded year may have grown
\* out of what the anomalies were made for.
FreshMonths == 3

\* Played back less than three months after the seeding, whatever the season and the
\* noise of the history, a meter not read since raises exactly the exception its
\* anomaly is made for, and read again it disagrees (anomalies.ts:37-47, 82-87).
EachTripsItsOwn ==
  \A p \in played : AsSeeded(p) /\ p.months < FreshMonths => TripsItsOwn(p)

\* Refuted: the same however long after the seeding.  The seeded reads that are over
\* a year old are left out of the mean; seeded in January and played back in April,
\* a year at noise 1.15 has a mean of half of what `high` plays back.
EachTripsItsOwnForever == \A p \in played : AsSeeded(p) => TripsItsOwn(p)

\* So that a run played back as it was seeded trips every rule (seed.ts:10-13).
EveryRuleTrips ==
  \A r \in runs :
    LET of == {p \in played : p.run = r} IN
    /\ {p.stop : p \in {q \in of : ~q.again}} = DemoStops /\ (\E p \in of : p.again)
    /\ \A p \in of : AsSeeded(p) /\ p.months < FreshMonths
    => UNION {p.raised : p \in of} = Codes

\* "Stop sequence i gets plan[i]" (anomalies.ts:82).
StopGetsItsPlan == \A p \in played : p.kind = DEMO_ANOMALY_PLAN[p.stop]

\* "Idempotent - deterministic ids + upserts, so rerunning changes nothing"
\* (seed.ts:13-14): not even where it finds the run it would make.
ReseedChangesNothing == [][seeds' # seeds /\ runs' = runs => UNCHANGED reads]_vars
=============================================================================

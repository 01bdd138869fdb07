---------------------------- MODULE MCMeterReads ----------------------------
(* The two users of the validation engine: a reader with the form, and the *)
(* simulator on a seeded world.  They share no state: each is explored on  *)
(* its own, the other standing still.                                      *)
(*                                                                         *)
(* The reader has a one-digit register: a new meter; meters with a usual   *)
(* consumption of one and of four a month; and one whose first stop was    *)
(* misread, and read again.  The world is seeded in the month of the least *)
(* or of the most usage.                                                   *)
EXTENDS MeterReads

CONSTANTS Months, Jitters, StartValues, Draws, Pauses, MaxSeeds, MaxPlays, MaxByHand, MaxLost,
          MaxTime, Imported

VARIABLES
  who,  \* which of them is explored
  month, jitter, start, time, seeds, runs, reads, record, play, plays, byHand, played

P == INSTANCE Playback WITH now <- time

playback == <<month, jitter, start, time, seeds, runs, reads, record, play, plays, byHand,
              played>>

Read(stop, value, at, consumption) ==
  [stop |-> stop, value |-> value, at |-> at, consumption |-> consumption]
MCHistories ==
  {{},
   {Read(NoStop, 0, -3, Null), Read(NoStop, 1, -2, 1), Read(NoStop, 2, -1, 1)},
   {Read(NoStop, 0, -3, Null), Read(NoStop, 4, -2, 4), Read(NoStop, 8, -1, 4)},
   {Read(NoStop, 0, -3, Null), Read(1, 8, -2, 8), Read(1, 1, -1, 1)}}

\* What they consumed is measured as the engine measures it.
ASSUME HistoriesAddUp == \A history \in MCHistories : AddsUp(history)

MCInit ==
  /\ who \in {"reader", "simulator"}
  /\ Init /\ P!Init
  /\ who = "reader" \/ stored = {}
  /\ \/ who = "simulator"
     \/ <<month, jitter, start>> = CHOOSE w \in Months \X Jitters \X StartValues : TRUE

MCNext ==
  \/ who = "reader" /\ Next /\ UNCHANGED <<who, playback>>
  \/ who = "simulator" /\ P!Next /\ UNCHANGED <<who, vars>>

MCSpec == MCInit /\ [][MCNext]_<<who, vars, playback>>

\* The types of both.
AllTyped == TypeOK /\ P!TypeOK

\* A reading played back raises what it was made for (Playback).
EachTripsItsOwn == P!EachTripsItsOwn
=============================================================================

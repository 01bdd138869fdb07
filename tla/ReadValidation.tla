---------------------------- MODULE ReadValidation ----------------------------
(***************************************************************************)
(* The validation engine (packages/contracts/src/engine): what is wrong    *)
(* with a reading, judged by the meter's own recent reads.  It runs on the *)
(* server when a read is ingested and on the reader's device before it is  *)
(* captured.                                                               *)
(*                                                                         *)
(* Time is in months.  A history is a set of reads, in order of their      *)
(* capture times, which differ.  The baseline is a mean; it is compared as *)
(* a sum and a count, without the rounding of a floating point division.   *)
(* The annotation of a wrap, which nothing reads back, is left out.        *)
(***************************************************************************)
EXTENDS Integers, FiniteSets, FiniteSetsExt

CONSTANTS
  Dials,                 \* digits of the register
  BaselineMonths, MinBaselineReads, ZeroStreakCycles, DuplicateTolerance,
  HighRead, LowRead, LeakSpike, RolloverBand, RolloverProximity, \* in tenths
  Null

ASSUME ReadValidationAssumption ==
  /\ {Dials, BaselineMonths, MinBaselineReads, ZeroStreakCycles} \subseteq Nat \ {0}
  /\ {DuplicateTolerance, HighRead, LowRead, LeakSpike, RolloverBand,
      RolloverProximity} \subseteq Nat
  /\ Null \notin Int

registerMax == 10^Dials - 1

ReadingCodes == {"leak_spike", "high_read", "low_read", "rollover_out_of_band",
                 "negative_consumption", "zero_consumption_streak"}
ExceptionCodes == ReadingCodes \cup {"location_absent", "duplicate_mismatch"}
blocksBilling(code) == code \in ReadingCodes

\* The n latest of a set of reads.
Latest(n, reads) == {h \in reads : Cardinality({g \in reads : g.at > h.at}) < n}

-----------------------------------------------------------------------------
(* derive: what the rules share.  in is a reading with its history,        *)
(* [value, at, located, history, duplicate].                               *)

withinWindow(in) == {h \in in.history : h.at >= in.at - BaselineMonths}

WrapShort(prior, value) == registerMax - prior + value
Wrap(prior, value) == registerMax + 1 - prior + value

\* What a set of reads consumed together.
Consumed(reads) == MapThenSumSet(LAMBDA h : h.consumption, reads)

derive(in) ==
  LET window == withinWindow(in)
      priors == {h.value : h \in Latest(1, window)}
      prior == IF priors = {} THEN Null ELSE CHOOSE v \in priors : TRUE
      positives == {h \in window : h.consumption # Null /\ h.consumption > 0}
  IN [in        |-> in,
      window    |-> window,
      prior     |-> prior,
      delta     |-> IF prior = Null THEN Null ELSE in.value - prior,
      wrap      |-> IF prior # Null /\ in.value < prior THEN Wrap(prior, in.value) ELSE Null,
      hasBaseline |-> Cardinality(positives) >= MinBaselineReads,
      sum       |-> Consumed(positives),
      count     |-> Cardinality(positives)]

IsIncrease(d) == d.delta # Null /\ d.delta > 0
IsZero(d) == d.delta # Null /\ d.delta = 0
IsDecrease(d) == d.delta # Null /\ d.delta < 0

\* A decrease that is a wrap of the register with a usage of the usual size;
\* any wrap is, while there is no baseline.
InBandJudged(d) ==
  IsDecrease(d) /\ d.wrap >= 0 /\ d.hasBaseline /\ d.wrap * d.count * 10 <= d.sum * RolloverBand
InBand(d) ==
  /\ IsDecrease(d) /\ d.wrap >= 0
  /\ d.hasBaseline => d.wrap * d.count * 10 <= d.sum * RolloverBand

\* effectiveConsumption: the consumption stored with the read.
effectiveUnlessJudged(d) ==
  IF d.delta = Null THEN Null ELSE IF InBandJudged(d) THEN d.wrap ELSE d.delta
effectiveConsumption(d) ==
  IF d.delta = Null THEN Null ELSE IF InBand(d) THEN d.wrap ELSE d.delta

-----------------------------------------------------------------------------
(* The rules.  The first of the consumption rules to fire decides, in the  *)
(* order of their priorities.                                              *)

\* Usage of at least, or at most, a multiple of the baseline.
AtLeast(d, tenths) == d.delta * d.count * 10 >= d.sum * tenths
AtMost(d, tenths) == d.delta * d.count * 10 <= d.sum * tenths
Judged(d) == IsIncrease(d) /\ d.hasBaseline

leakSpike(d) == Judged(d) /\ AtLeast(d, LeakSpike)
highRead(d) == Judged(d) /\ AtLeast(d, HighRead) /\ ~AtLeast(d, LeakSpike)
lowRead(d) == Judged(d) /\ AtMost(d, LowRead)
looksLikeWrap(d) == d.prior * 10 >= registerMax * RolloverProximity

\* The cycles before this one are read off the history: a read without a
\* consumption is a gap and breaks the streak.
zeroStreak(d) ==
  LET tail == Latest(ZeroStreakCycles - 1, d.window) IN
  /\ IsZero(d)
  /\ Cardinality(tail) = ZeroStreakCycles - 1
  /\ \A h \in tail : h.consumption = 0

ConsumptionFinding(d) ==
  IF leakSpike(d) THEN {"leak_spike"}
  ELSE IF highRead(d) THEN {"high_read"}
  ELSE IF lowRead(d) THEN {"low_read"}
  ELSE IF InBand(d) THEN {}
  ELSE IF IsDecrease(d) /\ looksLikeWrap(d) THEN {"rollover_out_of_band"}
  ELSE IF IsDecrease(d) THEN {"negative_consumption"}
  ELSE IF zeroStreak(d) THEN {"zero_consumption_streak"}
  ELSE {}

Distance(a, b) == IF a > b THEN a - b ELSE b - a

IndependentFindings(in) ==
  {c \in {"location_absent"} : ~in.located}
  \cup {c \in {"duplicate_mismatch"} :
          in.duplicate # Null /\ Distance(in.value, in.duplicate) > DuplicateTolerance}

runValidation(in) ==
  LET d == derive(in)
      exceptions == ConsumptionFinding(d) \cup IndependentFindings(in)
  IN [exceptions  |-> exceptions,
      consumption |-> effectiveConsumption(d),
      billable    |-> \A c \in exceptions : ~blocksBilling(c)]
=============================================================================

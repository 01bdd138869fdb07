--------------------------- MODULE MeterReadsProofs ---------------------------
(***************************************************************************)
(* What holds of MeterReads for any register, any thresholds, any histories*)
(* and any number of stops and captures in any order: the engine judges by *)
(* the window and the value alone, lets no negative consumption through to *)
(* billing, notices two readings of a stop that disagree, agrees with the  *)
(* form that had the same history, and the reads of record of a meter add  *)
(* up to what its register moved by.                                       *)
(***************************************************************************)
EXTENDS MeterReads, FiniteSetTheorems, WellFoundedInduction, TLAPS

-----------------------------------------------------------------------------
(* The engine.                                                             *)

\* The size of the register is an integer.
LEMMA RegisterIsInteger == registerMax \in Int
<1>1. Dials \in Nat
  BY ReadValidationAssumption DEF ReadValidationAssumption
<1>2. 10^Dials \in Int
  BY <1>1, SMT
<1> QED
  BY <1>2 DEF registerMax

\* The rules of consumption and the others report different codes.
LEMMA CodesApart ==
  /\ \A d : ConsumptionFinding(d) \subseteq ReadingCodes
  /\ \A in : /\ IndependentFindings(in) \subseteq ExceptionCodes
             /\ IndependentFindings(in) \cap ReadingCodes = {}
  /\ ReadingCodes \subseteq ExceptionCodes
BY DEF ConsumptionFinding, IndependentFindings, ReadingCodes, ExceptionCodes

\* What the rules share is a function of the value and the window.
LEMMA DerivedFromWindow ==
  ASSUME NEW a, NEW b, a.value = b.value, withinWindow(a) = withinWindow(b)
  PROVE  LET d == derive(a) e == derive(b) IN
         /\ d.window = e.window /\ d.prior = e.prior /\ d.delta = e.delta /\ d.wrap = e.wrap
         /\ d.hasBaseline = e.hasBaseline /\ d.sum = e.sum /\ d.count = e.count
BY DEF derive

\* Two readings of one value judged with one window get the same finding and the
\* same consumption, whatever else is known of them.
LEMMA SameWindowSameFinding ==
  ASSUME NEW a, NEW b, a.value = b.value, withinWindow(a) = withinWindow(b)
  PROVE  /\ ConsumptionFinding(derive(a)) = ConsumptionFinding(derive(b))
         /\ effectiveConsumption(derive(a)) = effectiveConsumption(derive(b))
<1> DEFINE d == derive(a)
           e == derive(b)
<1>1. /\ d.window = e.window /\ d.prior = e.prior /\ d.delta = e.delta /\ d.wrap = e.wrap
      /\ d.hasBaseline = e.hasBaseline /\ d.sum = e.sum /\ d.count = e.count
  BY DerivedFromWindow
<1> HIDE DEF d, e
<1>2. IsIncrease(d) = IsIncrease(e) /\ IsZero(d) = IsZero(e) /\ IsDecrease(d) = IsDecrease(e)
  BY <1>1 DEF IsIncrease, IsZero, IsDecrease
<1>3. InBand(d) = InBand(e) /\ looksLikeWrap(d) = looksLikeWrap(e)
  BY <1>1, <1>2 DEF InBand, looksLikeWrap
<1>4. leakSpike(d) = leakSpike(e) /\ highRead(d) = highRead(e) /\ lowRead(d) = lowRead(e)
  BY <1>1, <1>2 DEF leakSpike, highRead, lowRead, Judged, AtLeast, AtMost
<1>5. zeroStreak(d) = zeroStreak(e)
  BY <1>1, <1>2 DEF zeroStreak
<1>6. ConsumptionFinding(d) = ConsumptionFinding(e)
  BY <1>2, <1>3, <1>4, <1>5 DEF ConsumptionFinding
<1>7. effectiveConsumption(d) = effectiveConsumption(e)
  BY <1>1, <1>3 DEF effectiveConsumption
<1> QED
  BY <1>6, <1>7 DEF d, e

\* A reading and a history of whole numbers.
Whole(in) == in.value \in Int /\ \A h \in in.history : h.value \in Int

\* What is derived from them.
LEMMA DerivedTypes ==
  ASSUME NEW in, Whole(in)
  PROVE  LET d == derive(in) IN
         /\ d.prior \in Int \cup {Null} /\ d.delta \in Int \cup {Null}
         /\ d.prior = Null <=> d.delta = Null
         /\ d.delta # Null => d.delta = in.value - d.prior
         /\ IsDecrease(d) => d.wrap \in Int
<1> DEFINE window == withinWindow(in)
           priors == {h.value : h \in Latest(1, window)}
           prior == IF priors = {} THEN Null ELSE CHOOSE v \in priors : TRUE
           d == derive(in)
<1>1. priors \subseteq Int
  BY DEF Whole, Latest, withinWindow
<1>2. prior \in Int \cup {Null} /\ Null \notin Int
  BY <1>1, ReadValidationAssumption DEF ReadValidationAssumption
<1>3. /\ d.prior = prior /\ d.delta = IF prior = Null THEN Null ELSE in.value - prior
      /\ d.wrap = IF prior # Null /\ in.value < prior THEN Wrap(prior, in.value) ELSE Null
  BY DEF derive
<1> HIDE DEF window, priors, prior, d
<1>4. in.value \in Int
  BY DEF Whole
<1>5. prior # Null => in.value - prior \in Int /\ in.value - prior # Null
  BY <1>2, <1>4
<1>6. IsDecrease(d) => d.wrap \in Int
  <2> SUFFICES ASSUME IsDecrease(d) PROVE d.wrap \in Int
    OBVIOUS
  <2>1. prior \in Int /\ in.value < prior
    BY <1>2, <1>3, <1>4 DEF IsDecrease
  <2> QED
    BY <1>2, <1>3, <1>4, <2>1, RegisterIsInteger DEF Wrap
<1>7. /\ d.prior \in Int \cup {Null} /\ d.delta \in Int \cup {Null}
      /\ d.prior = Null <=> d.delta = Null
      /\ d.delta # Null => d.delta = in.value - d.prior
  BY <1>2, <1>3, <1>5
<1> QED
  BY <1>6, <1>7 DEF d

\* A verdict: known codes, a consumption or none, and billable exactly when no
\* rule of consumption fired.
LEMMA VerdictTyped ==
  ASSUME NEW in, Whole(in)
  PROVE  LET v == runValidation(in) IN
         /\ v.exceptions \subseteq ExceptionCodes
         /\ v.exceptions \cap ReadingCodes = ConsumptionFinding(derive(in))
         /\ v.consumption \in Int \cup {Null}
         /\ v.billable \in BOOLEAN
         /\ v.billable <=> ConsumptionFinding(derive(in)) = {}
<1> DEFINE d == derive(in)
           v == runValidation(in)
           exceptions == ConsumptionFinding(d) \cup IndependentFindings(in)
<1>1. /\ v.exceptions = exceptions /\ v.consumption = effectiveConsumption(d)
      /\ v.billable = (\A c \in exceptions : ~blocksBilling(c))
  BY DEF runValidation
<1>2. exceptions \subseteq ExceptionCodes /\ exceptions \cap ReadingCodes = ConsumptionFinding(d)
  BY CodesApart
<1>3. effectiveConsumption(d) \in Int \cup {Null}
  <2>1. d.delta \in Int \cup {Null} /\ (IsDecrease(d) => d.wrap \in Int)
    BY DerivedTypes
  <2> HIDE DEF d
  <2> QED
    BY <2>1 DEF effectiveConsumption, InBand
<1>4. (\A c \in exceptions : ~blocksBilling(c)) <=> ConsumptionFinding(d) = {}
  BY <1>2, CodesApart DEF blocksBilling
<1> HIDE DEF d, exceptions, v
<1>5. v.billable \in BOOLEAN /\ (v.billable <=> ConsumptionFinding(d) = {})
  BY <1>1, <1>4
<1> QED
  BY <1>1, <1>2, <1>3, <1>5 DEF d, v

\* The rule that lets a wrap pass and the consumption that is stored for it are
\* decided separately, and agree: what is let through is not negative.
LEMMA BillableVerdict ==
  ASSUME NEW in, Whole(in), runValidation(in).billable, runValidation(in).consumption # Null
  PROVE  runValidation(in).consumption >= 0
<1> DEFINE d == derive(in)
<1>1. runValidation(in).consumption = effectiveConsumption(d)
  BY DEF runValidation
<1>2. ConsumptionFinding(d) = {}
  BY VerdictTyped
<1>3. d.delta \in Int \cup {Null} /\ (IsDecrease(d) => d.wrap \in Int)
  BY DerivedTypes
<1> HIDE DEF d
<1>4. CASE IsDecrease(d)
  <2>1. ~leakSpike(d) /\ ~highRead(d) /\ ~lowRead(d)
    BY <1>2 DEF ConsumptionFinding
  <2>2. InBand(d)
    BY <1>2, <1>4, <2>1 DEF ConsumptionFinding
  <2>3. effectiveConsumption(d) = d.wrap /\ d.wrap >= 0
    BY <1>4, <2>2 DEF effectiveConsumption, InBand, IsDecrease
  <2> QED
    BY <1>1, <2>3
<1>5. CASE ~IsDecrease(d)
  <2>1. effectiveConsumption(d) = d.delta
    BY <1>5 DEF effectiveConsumption, InBand
  <2> QED
    BY <1>1, <1>3, <1>5, <2>1 DEF IsDecrease
<1> QED
  BY <1>4, <1>5

-----------------------------------------------------------------------------
(* Types.                                                                  *)

\* Nothing is captured in the future.
Timed == \A c \in queue \cup flight \cup stored : c.at \in Int /\ c.at <= now

\* A capture is in one place at a time.
Apart ==
  /\ \A c \in queue, r \in flight \cup stored : c.at # r.at
  /\ \A c \in flight, r \in stored : c.at # r.at

Typed == TypeOK /\ Timed /\ Apart

\* The reads stored before are read events.
LEMMA EarlierTyped == Init => Typed
<1> SUFFICES ASSUME Init PROVE Typed
  OBVIOUS
<1>1. PICK reads \in Histories : stored = {Earlier(h) : h \in reads}
  BY DEF Init
<1>2. \A h \in reads :
        /\ h.stop \in Stops \cup {NoStop} /\ h.value \in 0..registerMax
        /\ h.at \in Int /\ h.at < 0 /\ h.consumption \in Int \cup {Null}
        /\ \A g \in reads : g.at = h.at => g = h
  BY MeterReadsAssumption DEF MeterReadsAssumption
<1>3. \A h \in reads :
        LET r == Earlier(h) IN
        /\ r.value = h.value /\ r.at = h.at /\ r.stop = h.stop /\ r.consumption = h.consumption
        /\ r.findings = {} /\ r.warned = {}
        /\ {r.billable, r.informed, r.alone, r.current} \subseteq BOOLEAN
  BY DEF Earlier
<1>4. \A r \in stored :
        /\ r.value \in 0..registerMax /\ r.at \in Int /\ r.at < 0
        /\ r.stop \in Stops \cup {NoStop} /\ r.consumption \in Int \cup {Null}
        /\ r.findings = {} /\ r.warned = {}
        /\ {r.billable, r.informed, r.alone, r.current} \subseteq BOOLEAN
  BY <1>1, <1>2, <1>3
<1>5. \A c, r \in stored : c.at = r.at => c = r
  <2> SUFFICES ASSUME NEW c \in stored, NEW r \in stored, c.at = r.at PROVE c = r
    OBVIOUS
  <2>1. PICK g \in reads, h \in reads : c = Earlier(g) /\ r = Earlier(h)
    BY <1>1
  <2>2. g = h
    BY <1>2, <1>3, <2>1
  <2> QED
    BY <2>1, <2>2
<1> QED
  BY <1>4, <1>5 DEF Init, Typed, TypeOK, Timed, Apart

\* What the form warns of is one of the codes of a reading.
LEMMA Warnings ==
  ASSUME NEW history, NEW value, NEW at, NEW located
  PROVE  anomalyCodes(history, value, at, located) \subseteq ReadingCodes
BY DEF anomalyCodes

\* What a capture is judged with on the server.
Inputs(c) ==
  [value |-> c.value, at |-> c.at, located |-> c.located,
   history |-> loadHistory(c), duplicate |-> Duplicate(c)]

\* What is typed is a natural number.
LEMMA TypedIn ==
  ASSUME TypeOK, NEW c \in queue
  PROVE  c.value \in Nat /\ c.stop \in Stops /\ c.warned \subseteq ReadingCodes
<1>1. c.value \in Values /\ c.stop \in Stops /\ c.warned \subseteq ReadingCodes
  BY DEF TypeOK
<1>2. Values \subseteq Nat
  BY MeterReadsAssumption DEF MeterReadsAssumption
<1> QED
  BY <1>1, <1>2

\* They are whole numbers.
LEMMA InputsWhole ==
  ASSUME TypeOK, NEW c \in queue
  PROVE  Whole(Inputs(c))
<1>1. c.value \in Int
  BY TypedIn
<1>2. \A h \in stored : h.value \in Int
  BY RegisterIsInteger DEF TypeOK
<1>3. loadHistory(c) \subseteq stored
  BY DEF loadHistory
<1>4. Inputs(c).value = c.value /\ Inputs(c).history = loadHistory(c)
  BY DEF Inputs
<1> QED
  BY <1>1, <1>2, <1>3, <1>4 DEF Whole

\* The event that Validate makes of capture c.
EventOf(f, c) ==
  LET verdict == runValidation(Inputs(c)) IN
  /\ f.stop = c.stop /\ f.value = c.value /\ f.at = c.at /\ f.warned = c.warned
  /\ f.findings = verdict.exceptions /\ f.consumption = verdict.consumption
  /\ f.billable = verdict.billable
  /\ f.informed \in BOOLEAN
  /\ f.informed <=> \A x \in (queue \cup flight) \ {c} : x.stop = c.stop \/ x.at > c.at
  /\ f.alone \in BOOLEAN /\ (f.alone <=> \A x \in flight : x.stop # c.stop)
  /\ f.current \in BOOLEAN
  /\ f.current <=>
       c.seen # Offline /\ c.seen = {h.at : h \in {g \in stored : g.at < c.at}}

\* Validate takes a capture off the device and puts its event in flight.
LEMMA ValidateMoves ==
  ASSUME TypeOK, NEW c \in queue, Validate(c)
  PROVE  /\ c.value <= registerMax
         /\ queue' = queue \ {c} /\ UNCHANGED <<stored, page, now>>
         /\ \E f : EventOf(f, c) /\ flight' = flight \cup {f}
<1> DEFINE verdict == runValidation(Inputs(c))
           informed == \A x \in (queue \cup flight) \ {c} : x.stop = c.stop \/ x.at > c.at
           alone == \A x \in flight : x.stop # c.stop
           current == c.seen # Offline /\ c.seen = {h.at : h \in {g \in stored : g.at < c.at}}
           f == [stop |-> c.stop, value |-> c.value, at |-> c.at,
                 consumption |-> verdict.consumption, findings |-> verdict.exceptions,
                 billable |-> verdict.billable, warned |-> c.warned,
                 informed |-> informed, alone |-> alone, current |-> current]
<1>1. /\ Fits(c.value) /\ queue' = queue \ {c} /\ UNCHANGED <<stored, page, now>>
      /\ flight' = flight \cup {f}
  BY Zenon DEF Validate, Inputs
<1>2. informed \in BOOLEAN /\ alone \in BOOLEAN /\ current \in BOOLEAN
  OBVIOUS
<1> HIDE DEF informed, verdict, alone, current
<1>3. /\ f.stop = c.stop /\ f.value = c.value /\ f.at = c.at /\ f.warned = c.warned
      /\ f.findings = verdict.exceptions /\ f.consumption = verdict.consumption
      /\ f.billable = verdict.billable
      /\ f.informed = informed /\ f.alone = alone /\ f.current = current
  OBVIOUS
<1> HIDE DEF f
<1>4. EventOf(f, c)
  BY <1>2, <1>3, Zenon DEF EventOf, verdict, informed, alone, current
<1> QED
  BY <1>1, <1>4 DEF Fits

\* Submit puts a capture on the device.
LEMMA SubmitMoves ==
  ASSUME NEW value, NEW gap, NEW located, Submit(value, gap, located)
  PROVE  \E c : /\ queue' = queue \cup {c} /\ c.stop = page.stop /\ c.value = value
               /\ c.at = now + gap /\ c.warned \subseteq ReadingCodes
<1> DEFINE at == now + gap
<1>1. PICK history \in {page.history, Offline} :
        queue' = queue \cup
          {[stop |-> page.stop, value |-> value, at |-> at, located |-> located,
            warned |-> anomalyCodes(history, value, at, located),
            seen |-> IF history = Offline THEN Offline ELSE {h.at : h \in history}]}
  BY DEF Submit
<1> DEFINE c == [stop |-> page.stop, value |-> value, at |-> at, located |-> located,
                 warned |-> anomalyCodes(history, value, at, located),
                 seen |-> IF history = Offline THEN Offline ELSE {h.at : h \in history}]
<1>2. /\ c.stop = page.stop /\ c.value = value /\ c.at = at
      /\ c.warned = anomalyCodes(history, value, at, located)
  OBVIOUS
<1>3. queue' = queue \cup {c}
  BY <1>1
<1> HIDE DEF c
<1> QED
  BY <1>2, <1>3, Warnings

\* Every step keeps the types, and a capture where it is or in the place after.
LEMMA TypedStep == Typed /\ [Next]_vars => Typed'
<1> SUFFICES ASSUME Typed, [Next]_vars PROVE Typed'
  OBVIOUS
<1> USE MeterReadsAssumption DEF MeterReadsAssumption
<1>1. ASSUME NEW s \in Stops, OpenStop(s) PROVE Typed'
  <2>1. UNCHANGED <<stored, queue, flight, now>> /\ page'.stop = s /\ page'.history = RecentReads
    BY <1>1 DEF OpenStop
  <2>2. RecentReads \subseteq stored
    BY DEF RecentReads, Latest
  <2> QED
    BY <2>1, <2>2 DEF Typed, TypeOK, Timed, Apart
<1>2. ASSUME NEW value \in Values, NEW gap \in Gaps, NEW located \in Fixes,
             Submit(value, gap, located)
      PROVE  Typed'
  <2> DEFINE at == now + gap
  <2>1. now \in Nat /\ gap \in Nat /\ at \in Nat /\ at > now
    BY DEF Typed, TypeOK
  <2>2. PICK c : /\ queue' = queue \cup {c} /\ c.stop = page.stop /\ c.value = value /\ c.at = at
                 /\ c.warned \subseteq ReadingCodes
    BY <1>2, SubmitMoves
  <2>3. /\ page # NoPage /\ now' = at /\ page' = NoPage /\ UNCHANGED <<stored, flight>>
    BY <1>2 DEF Submit
  <2> HIDE DEF at
  <2>4. page.stop \in Stops
    BY <2>3 DEF Typed, TypeOK
  <2>5. \A x \in queue \cup flight \cup stored : x.at \in Int /\ x.at <= now /\ x.at # c.at
    BY <2>1, <2>2 DEF Typed, Timed
  <2>6. TypeOK'
    BY <2>1, <2>2, <2>3, <2>4, <2>5 DEF Typed, TypeOK
  <2>7. Timed' /\ Apart'
    BY <2>1, <2>2, <2>3, <2>5 DEF Typed, Timed, Apart
  <2> QED
    BY <2>6, <2>7 DEF Typed
<1>3. ASSUME NEW c \in queue, Reject(c) PROVE Typed'
  BY <1>3 DEF Reject, Typed, TypeOK, Timed, Apart
<1>4. ASSUME NEW c \in queue, Validate(c) PROVE Typed'
  <2>1. PICK f : EventOf(f, c) /\ flight' = flight \cup {f}
    BY <1>4, ValidateMoves DEF Typed
  <2>2. c.value <= registerMax /\ queue' = queue \ {c} /\ UNCHANGED <<stored, page, now>>
    BY <1>4, ValidateMoves DEF Typed
  <2>3. /\ f.findings \subseteq ExceptionCodes /\ f.consumption \in Int \cup {Null}
        /\ {f.billable, f.informed, f.alone, f.current} \subseteq BOOLEAN
    BY <2>1, InputsWhole, VerdictTyped DEF EventOf, Typed
  <2>4. f.value \in 0..registerMax /\ f.stop \in Stops /\ f.warned \subseteq ReadingCodes /\ f.at = c.at
    <3>1. c.value \in Nat /\ c.stop \in Stops /\ c.warned \subseteq ReadingCodes
      BY TypedIn DEF Typed
    <3>2. f.value = c.value /\ f.stop = c.stop /\ f.warned = c.warned /\ f.at = c.at
      BY <2>1 DEF EventOf
    <3> QED
      BY <2>2, <3>1, <3>2, RegisterIsInteger
  <2>5. /\ f.at \in Int /\ f.at <= now
        /\ \A x \in (queue \ {c}) \cup flight \cup stored : x.at # f.at
    BY <2>4 DEF Typed, TypeOK, Timed, Apart
  <2>6. TypeOK'
    BY <2>1, <2>2, <2>3, <2>4, <2>5 DEF Typed, TypeOK
  <2>7. Timed' /\ Apart'
    BY <2>1, <2>2, <2>5 DEF Typed, Timed, Apart
  <2> QED
    BY <2>6, <2>7 DEF Typed
<1>5. ASSUME NEW c \in flight, Store(c) PROVE Typed'
  <2>1. stored' = stored \cup {c} /\ flight' = flight \ {c} /\ UNCHANGED <<page, queue, now>>
    BY <1>5 DEF Store
  <2>2. \A x \in flight \ {c} : x.at # c.at
    BY DEF Typed, TypeOK
  <2>3. TypeOK'
    BY <2>1 DEF Typed, TypeOK
  <2> QED
    BY <2>1, <2>2, <2>3 DEF Typed, Timed, Apart
<1>6. CASE UNCHANGED vars
  BY <1>6 DEF vars, Typed, TypeOK, Timed, Apart
<1> QED
  BY <1>1, <1>2, <1>3, <1>4, <1>5, <1>6 DEF Next

\* The types hold in every state; a capture is on the device, in flight or
\* stored, at a time of its own.
THEOREM TypeCorrect == Spec => []TypeOK
<1>1. Typed => TypeOK
  BY DEF Typed
<1> QED
  BY <1>1, EarlierTyped, TypedStep, PTL DEF Spec

-----------------------------------------------------------------------------
(* How the events change.                                                  *)

\* Every step adds to the stored reads at most what was in flight, and to those
\* in flight at most the event of a capture that leaves the queue.
LEMMA EventMoves ==
  ASSUME TypeOK, [Next]_vars
  PROVE  \/ UNCHANGED <<stored, flight>>
         \/ \E c \in flight : stored' = stored \cup {c} /\ flight' = flight \ {c}
         \/ \E c \in queue : \E f :
              stored' = stored /\ EventOf(f, c) /\ flight' = flight \cup {f}
<1>1. ASSUME NEW c \in queue, Validate(c)
      PROVE  \E f : stored' = stored /\ EventOf(f, c) /\ flight' = flight \cup {f}
  BY <1>1, ValidateMoves
<1>2. ASSUME NEW c \in flight, Store(c)
      PROVE  stored' = stored \cup {c} /\ flight' = flight \ {c}
  BY <1>2 DEF Store
<1>3. \A s \in Stops : OpenStop(s) => UNCHANGED <<stored, flight>>
  BY DEF OpenStop
<1>4. \A value \in Values, gap \in Gaps, located \in Fixes :
        Submit(value, gap, located) => UNCHANGED <<stored, flight>>
  BY DEF Submit
<1>5. \A c \in queue : Reject(c) => UNCHANGED <<stored, flight>>
  BY DEF Reject
<1>6. UNCHANGED vars => UNCHANGED <<stored, flight>>
  BY DEF vars
<1> QED
  BY <1>1, <1>2, <1>3, <1>4, <1>5, <1>6 DEF Next

\* The latest of one read is that read.
LEMMA LatestOfOne ==
  ASSUME NEW h, h.at \in Int
  PROVE  Latest(1, {h}) = {h}
<1>1. {g \in {h} : g.at > h.at} = {}
  OBVIOUS
<1>2. Cardinality({g \in {h} : g.at > h.at}) = 0
  BY <1>1, FS_EmptySet
<1> QED
  BY <1>2 DEF Latest

-----------------------------------------------------------------------------
(* Readings of one stop that disagree.                                     *)

\* Of two such readings, one noticed the other, or a third one of the stop was
\* already stored and may have been what the later one was compared with.
Noticed ==
  \A a, b \in stored \cup flight :
    /\ a # b /\ a.stop = b.stop /\ a.stop # NoStop /\ a.alone /\ b.alone
    /\ Distance(a.value, b.value) > DuplicateTolerance
    => \/ "duplicate_mismatch" \in a.findings \cup b.findings
       \/ \E r \in stored \ {a, b} : r.stop = a.stop

\* Distance does not depend on the order.
LEMMA DistanceSymmetric ==
  ASSUME NEW a \in Int, NEW b \in Int
  PROVE  Distance(a, b) = Distance(b, a)
BY DEF Distance

\* A reading judged alone is compared with the one that is stored, if there is one.
LEMMA ComparedWithStored ==
  ASSUME Typed, NEW c \in queue, NEW f, EventOf(f, c), f.alone, NEW a \in stored \cup flight,
         a.stop = f.stop, Distance(a.value, f.value) > DuplicateTolerance
  PROVE  \/ "duplicate_mismatch" \in f.findings
         \/ \E r \in stored \ {a, f} : r.stop = a.stop
<1>1. a \in stored
  BY DEF EventOf
<1>2. f \notin stored
  BY DEF EventOf, Typed, Apart
<1> SUFFICES ASSUME \A r \in stored \ {a, f} : r.stop # a.stop
             PROVE  "duplicate_mismatch" \in f.findings
  OBVIOUS
<1>3. {h \in stored : h.stop = c.stop} = {a}
  BY <1>1, <1>2 DEF EventOf
<1>4. Duplicate(c) = a.value
  <2>1. Latest(1, {a}) = {a}
    BY <1>1, LatestOfOne DEF Typed, Timed
  <2> QED
    BY <1>3, <2>1 DEF Duplicate, RecordAmong
<1>5. Distance(c.value, a.value) > DuplicateTolerance
  <2>1. f.value \in Int /\ a.value \in Int /\ f.value = c.value
    BY <1>1, TypedIn, RegisterIsInteger DEF EventOf, Typed, TypeOK
  <2> QED
    BY <2>1, DistanceSymmetric
<1>6. a.value # Null
  BY <1>1, ReadValidationAssumption, RegisterIsInteger DEF Typed, TypeOK, ReadValidationAssumption
<1>7. "duplicate_mismatch" \in IndependentFindings(Inputs(c))
  <2>1. Inputs(c).value = c.value /\ Inputs(c).duplicate = Duplicate(c)
    BY DEF Inputs
  <2> QED
    BY <1>4, <1>5, <1>6, <2>1 DEF IndependentFindings
<1>8. runValidation(Inputs(c)).exceptions =
        ConsumptionFinding(derive(Inputs(c))) \cup IndependentFindings(Inputs(c))
  BY DEF runValidation
<1> QED
  BY <1>7, <1>8 DEF EventOf

\* Every step keeps it so.
LEMMA NoticedStep == Typed /\ Noticed /\ [Next]_vars => Noticed'
<1> SUFFICES ASSUME Typed, Noticed, [Next]_vars,
                    NEW a \in (stored \cup flight)', NEW b \in (stored \cup flight)',
                    a # b, a.stop = b.stop, a.stop # NoStop, a.alone, b.alone,
                    Distance(a.value, b.value) > DuplicateTolerance
             PROVE  \/ "duplicate_mismatch" \in a.findings \cup b.findings
                    \/ \E r \in stored' \ {a, b} : r.stop = a.stop
  BY DEF Noticed
<1>1. stored \subseteq stored'
  BY EventMoves DEF Typed
<1>2. CASE a \in stored \cup flight /\ b \in stored \cup flight
  BY <1>1, <1>2 DEF Noticed
<1>3. ASSUME NEW c \in queue, NEW f, EventOf(f, c), flight' = flight \cup {f}, stored' = stored,
             ~(a \in stored \cup flight /\ b \in stored \cup flight)
      PROVE  \/ "duplicate_mismatch" \in a.findings \cup b.findings
             \/ \E r \in stored' \ {a, b} : r.stop = a.stop
  <2>1. CASE b = f /\ a \in stored \cup flight
    BY <1>3, <2>1, ComparedWithStored
  <2>2. CASE a = f /\ b \in stored \cup flight
    <3>1. a.value \in Int /\ b.value \in Int
      <4>1. b.value \in Int
        BY <2>2, RegisterIsInteger DEF Typed, TypeOK
      <4> QED
        BY <1>3, <2>2, <4>1, TypedIn DEF EventOf, Typed
    <3>2. Distance(b.value, a.value) > DuplicateTolerance
      BY <3>1, DistanceSymmetric
    <3>3. \/ "duplicate_mismatch" \in f.findings
          \/ \E r \in stored \ {b, f} : r.stop = b.stop
      BY <1>3, <2>2, <3>2, ComparedWithStored
    <3> QED
      BY <1>3, <2>2, <3>3
  <2> QED
    BY <1>3, <2>1, <2>2
<1>4. \/ a \in stored \cup flight /\ b \in stored \cup flight
      \/ \E c \in queue : \E f : stored' = stored /\ EventOf(f, c) /\ flight' = flight \cup {f}
  BY EventMoves DEF Typed
<1> QED
  BY <1>2, <1>3, <1>4

\* Two readings of one stop that disagree are noticed, whichever arrives first,
\* unless they overlap on the server (ingestion.service.ts:87-123).
THEOREM DisagreementIsFlagged == Spec => []DisagreementFlagged
<1>1. Init => Noticed
  <2> SUFFICES ASSUME Init PROVE \A r \in stored \cup flight : ~r.alone
    BY DEF Noticed
  <2>1. \A h : ~Earlier(h).alone
    BY DEF Earlier
  <2> QED
    BY <2>1 DEF Init
<1>2. Noticed => DisagreementFlagged
  BY DEF Noticed, DisagreementFlagged
<1> QED
  BY <1>1, <1>2, EarlierTyped, TypedStep, NoticedStep, PTL DEF Spec

-----------------------------------------------------------------------------
(* The form and the server.                                                *)

\* What a capture was warned of follows from a history of stored reads, the ones
\* it remembers having seen.
Known ==
  \A c \in queue : c.seen # Offline =>
    \E history \in SUBSET stored :
      /\ history # Offline /\ c.seen = {h.at : h \in history}
      /\ c.warned = anomalyCodes(history, c.value, c.at, c.located)

\* An event the form knew everything for is judged as the form judged it, unless
\* the stop had been read before.
Agreed ==
  \A r \in stored \cup flight : r.current =>
    \/ r.warned = r.findings \cap ReadingCodes
    \/ \E x \in stored \ {r} : x.stop = r.stop /\ x.at <= r.at

\* Every step keeps what a capture remembers.
LEMMA KnownStep == Typed /\ Known /\ [Next]_vars => Known'
<1> SUFFICES ASSUME Typed, Known, [Next]_vars PROVE Known'
  OBVIOUS
<1>1. stored \subseteq stored'
  BY EventMoves DEF Typed
<1>2. ASSUME queue' \subseteq queue PROVE Known'
  <2> SUFFICES ASSUME NEW c \in queue', c.seen # Offline
               PROVE  \E history \in SUBSET (stored') :
                        /\ history # Offline /\ c.seen = {h.at : h \in history}
                        /\ c.warned = anomalyCodes(history, c.value, c.at, c.located)
    BY DEF Known
  <2>1. PICK history \in SUBSET stored :
          /\ history # Offline /\ c.seen = {h.at : h \in history}
          /\ c.warned = anomalyCodes(history, c.value, c.at, c.located)
    BY <1>2 DEF Known
  <2>2. history \in SUBSET (stored')
    BY <1>1
  <2> QED
    BY <2>1, <2>2
<1>3. ASSUME NEW value \in Values, NEW gap \in Gaps, NEW located \in Fixes,
             Submit(value, gap, located)
      PROVE  Known'
  <2> DEFINE at == now + gap
  <2>1. PICK history \in {page.history, Offline} :
          queue' = queue \cup
            {[stop |-> page.stop, value |-> value, at |-> at, located |-> located,
              warned |-> anomalyCodes(history, value, at, located),
              seen |-> IF history = Offline THEN Offline ELSE {h.at : h \in history}]}
    BY <1>3 DEF Submit
  <2> DEFINE new == [stop |-> page.stop, value |-> value, at |-> at, located |-> located,
                     warned |-> anomalyCodes(history, value, at, located),
                     seen |-> IF history = Offline THEN Offline ELSE {h.at : h \in history}]
  <2>2. /\ new.value = value /\ new.at = at /\ new.located = located
        /\ new.warned = anomalyCodes(history, value, at, located)
        /\ new.seen = IF history = Offline THEN Offline ELSE {h.at : h \in history}
    OBVIOUS
  <2>3. queue' = queue \cup {new}
    BY <2>1
  <2> HIDE DEF new, at
  <2>4. stored' = stored /\ page # NoPage
    BY <1>3 DEF Submit
  <2>5. page.history \subseteq stored
    BY <2>4 DEF Typed, TypeOK
  <2>6. ASSUME new.seen # Offline
        PROVE  \E h \in SUBSET stored :
                 /\ h # Offline /\ new.seen = {g.at : g \in h}
                 /\ new.warned = anomalyCodes(h, new.value, new.at, new.located)
    <3>1. history # Offline /\ history \in SUBSET stored
      BY <2>1, <2>2, <2>5, <2>6
    <3>2. new.seen = {g.at : g \in history}
      BY <2>2, <3>1
    <3> QED
      BY <2>2, <3>1, <3>2
  <2> QED
    BY <2>3, <2>4, <2>6 DEF Known
<1>4. \/ queue' \subseteq queue
      \/ \E value \in Values, gap \in Gaps, located \in Fixes : Submit(value, gap, located)
  <2>1. \A s \in Stops : OpenStop(s) => queue' = queue
    BY DEF OpenStop
  <2>2. \A c \in queue : Reject(c) \/ Validate(c) => queue' \subseteq queue
    BY DEF Reject, Validate
  <2>3. \A c \in flight : Store(c) => queue' = queue
    BY DEF Store
  <2>4. UNCHANGED vars => queue' = queue
    BY DEF vars
  <2> QED
    BY <2>1, <2>2, <2>3, <2>4 DEF Next
<1> QED
  BY <1>2, <1>3, <1>4

\* The first reading of a stop, of which the form knew all the server knows, is
\* judged with the same window on both sides.
LEMMA JudgedAlike ==
  ASSUME Typed, Known, NEW c \in queue, NEW f, EventOf(f, c), f.current,
         \A x \in stored : x.stop = c.stop => ~(x.at <= c.at)
  PROVE  f.warned = f.findings \cap ReadingCodes
<1> DEFINE before == {g \in stored : g.at < c.at}
           form == [value |-> c.value, at |-> c.at, located |-> c.located,
                    history |-> before, duplicate |-> Null]
<1>1. c.seen # Offline /\ c.seen = {h.at : h \in before}
  BY DEF EventOf
<1>2. PICK history \in SUBSET stored :
        /\ history # Offline /\ c.seen = {h.at : h \in history}
        /\ c.warned = anomalyCodes(history, c.value, c.at, c.located)
  BY <1>1 DEF Known
<1>3. \A g, h \in stored : g.at = h.at => g = h
  BY DEF Typed, TypeOK
<1>4. history = before
  <2>1. \A g \in history : \E h \in before : g.at = h.at
    BY <1>1, <1>2
  <2>2. \A h \in before : \E g \in history : g.at = h.at
    BY <1>1, <1>2
  <2> QED
    BY <1>3, <2>1, <2>2
<1>5. c.warned = runValidation(form).exceptions \cap ReadingCodes
  BY <1>2, <1>4 DEF anomalyCodes
<1>6. withinWindow(form) = withinWindow(Inputs(c))
  <2>1. /\ form.at = c.at /\ form.history = before
        /\ Inputs(c).at = c.at /\ Inputs(c).history = loadHistory(c)
    BY DEF Inputs
  <2>2. \A g \in stored : g.at \in Int
    BY DEF Typed, TypeOK
  <2>3. c.at \in Int
    BY DEF Typed, Timed
  <2>4. \A g \in before : g.stop # c.stop
    BY <2>2, <2>3
  <2>5. loadHistory(c) = {h \in before : h.at >= c.at - BaselineMonths}
    BY <2>4 DEF loadHistory
  <2> HIDE DEF form, before
  <2>6. withinWindow(form) = {h \in before : h.at >= c.at - BaselineMonths}
    BY <2>1 DEF withinWindow
  <2>7. withinWindow(Inputs(c)) = {h \in loadHistory(c) : h.at >= c.at - BaselineMonths}
    BY <2>1 DEF withinWindow
  <2> QED
    BY <2>5, <2>6, <2>7
<1>7. form.value = Inputs(c).value
  BY DEF Inputs
<1>8. Whole(form)
  <2>1. c.value \in Int /\ \A h \in stored : h.value \in Int
    BY TypedIn, RegisterIsInteger DEF Typed, TypeOK
  <2>2. form.value = c.value /\ form.history = before
    OBVIOUS
  <2> QED
    BY <2>1, <2>2 DEF Whole
<1> HIDE DEF form
<1>9. ConsumptionFinding(derive(form)) = ConsumptionFinding(derive(Inputs(c)))
  BY <1>6, <1>7, SameWindowSameFinding
<1>10. runValidation(Inputs(c)).exceptions \cap ReadingCodes = ConsumptionFinding(derive(Inputs(c)))
  BY InputsWhole, VerdictTyped DEF Typed
<1>11. runValidation(form).exceptions \cap ReadingCodes = ConsumptionFinding(derive(form))
  BY <1>8, VerdictTyped
<1> QED
  BY <1>5, <1>9, <1>10, <1>11 DEF EventOf

\* Every step keeps the two in agreement.
LEMMA AgreedStep == Typed /\ Known /\ Agreed /\ [Next]_vars => Agreed'
<1> SUFFICES ASSUME Typed, Known, Agreed, [Next]_vars,
                    NEW r \in (stored \cup flight)', r.current
             PROVE  \/ r.warned = r.findings \cap ReadingCodes
                    \/ \E x \in stored' \ {r} : x.stop = r.stop /\ x.at <= r.at
  BY DEF Agreed
<1>1. stored \subseteq stored'
  BY EventMoves DEF Typed
<1>2. CASE r \in stored \cup flight
  BY <1>1, <1>2 DEF Agreed
<1>3. ASSUME NEW c \in queue, EventOf(r, c)
      PROVE  \/ r.warned = r.findings \cap ReadingCodes
             \/ \E x \in stored' \ {r} : x.stop = r.stop /\ x.at <= r.at
  <2>1. CASE \E x \in stored : x.stop = c.stop /\ x.at <= c.at
    <3>1. PICK x \in stored : x.stop = c.stop /\ x.at <= c.at
      BY <2>1
    <3>2. r.at = c.at /\ r.stop = c.stop /\ x.at # c.at
      BY <1>3 DEF EventOf, Typed, Apart
    <3> QED
      BY <1>1, <3>1, <3>2
  <2>2. CASE ~\E x \in stored : x.stop = c.stop /\ x.at <= c.at
    BY <1>3, <2>2, JudgedAlike
  <2> QED
    BY <2>1, <2>2
<1> QED
  BY <1>2, <1>3, EventMoves DEF Typed

\* The form and the server judge the first reading of a stop alike if the form
\* knew all the meter's earlier reads the server knows (page.tsx:194-202).
THEOREM PreviewAgreesWithServer == Spec => []PreviewAgreesWhenCurrent
<1> DEFINE Inv == Typed /\ Known /\ Agreed
<1>1. Init => Inv
  <2> SUFFICES ASSUME Init PROVE Known /\ Agreed
    BY EarlierTyped
  <2>1. \A h : ~Earlier(h).current
    BY DEF Earlier
  <2> QED
    BY <2>1 DEF Init, Known, Agreed
<1>2. Inv /\ [Next]_vars => Inv'
  BY TypedStep, KnownStep, AgreedStep
<1>3. Inv => PreviewAgreesWhenCurrent
  <2> SUFFICES ASSUME Inv, NEW r \in stored, r.current,
                      \A x \in stored \ {r} : x.stop = r.stop => x.at > r.at
               PROVE  r.warned = r.findings \cap ReadingCodes
    BY DEF PreviewAgreesWhenCurrent
  <2>1. \A x \in stored : x.at \in Int
    BY DEF Typed, TypeOK
  <2>2. ~\E x \in stored \ {r} : x.stop = r.stop /\ x.at <= r.at
    BY <2>1
  <2> QED
    BY <2>2 DEF Agreed
<1> QED
  BY <1>1, <1>2, <1>3, PTL DEF Spec

-----------------------------------------------------------------------------
(* What is billed.                                                         *)

\* A read that validation lets through to billing never carries a negative
\* consumption, if no imported one does (rules.ts:60-75, baseline.ts:103-112).
THEOREM BilledIsNotNegative ==
  ASSUME \A reads \in Histories : \A h \in reads : h.consumption # Null => h.consumption >= 0
  PROVE  Spec => []BillableIsNotNegative
<1> DEFINE Sound == \A r \in stored \cup flight : r.billable /\ r.consumption # Null => r.consumption >= 0
           Inv == Typed /\ Sound
<1>1. Init => Inv
  <2> SUFFICES ASSUME Init PROVE Sound
    BY EarlierTyped
  <2>1. \A h : Earlier(h).consumption = h.consumption
    BY DEF Earlier
  <2> QED
    BY <2>1 DEF Init
<1>2. Inv /\ [Next]_vars => Inv'
  <2> SUFFICES ASSUME Typed, Sound, [Next]_vars PROVE Sound'
    BY TypedStep
  <2>1. ASSUME NEW c \in queue, NEW f, EventOf(f, c), f.billable, f.consumption # Null
        PROVE  f.consumption >= 0
    <3>1. Whole(Inputs(c))
      BY InputsWhole DEF Typed
    <3> QED
      BY <2>1, <3>1, BillableVerdict DEF EventOf
  <2> QED
    BY <2>1, EventMoves DEF Typed
<1>3. Inv => BillableIsNotNegative
  BY DEF BillableIsNotNegative
<1> QED
  BY <1>1, <1>2, <1>3, PTL DEF Spec

\* Every consumption is the movement since an earlier read.
EachMoves == \A r \in stored : r.consumption # Null => \E g \in stored : Movement(g, r)

\* The consumption that is stored with an event is a movement since the latest of
\* the reads it was judged with.
LEMMA VerdictMoves ==
  ASSUME Typed, NEW c \in queue, NEW f, EventOf(f, c), f.consumption # Null
  PROVE  \E g \in stored : g \in Latest(1, withinWindow(Inputs(c))) /\ Movement(g, f)
<1> DEFINE in == Inputs(c)
           d == derive(in)
           priors == {h.value : h \in Latest(1, withinWindow(in))}
<1>1. Whole(in) /\ in.value = c.value /\ in.history = loadHistory(c)
  BY InputsWhole DEF Typed, Inputs
<1>2. f.consumption = effectiveConsumption(d) /\ f.value = c.value /\ f.at = c.at
  BY DEF EventOf, runValidation
<1>3. d.prior = IF priors = {} THEN Null ELSE CHOOSE v \in priors : TRUE
  BY DEF derive
<1>4. d.wrap = IF d.prior # Null /\ in.value < d.prior THEN Wrap(d.prior, in.value) ELSE Null
  BY DEF derive
<1>5. /\ d.prior \in Int \cup {Null} /\ d.delta \in Int \cup {Null}
      /\ d.prior = Null <=> d.delta = Null
      /\ d.delta # Null => d.delta = in.value - d.prior
  BY <1>1, DerivedTypes
<1> HIDE DEF d
<1>6. d.delta # Null /\ d.prior \in Int
  BY <1>2, <1>5 DEF effectiveConsumption
<1>7. PICK h \in Latest(1, withinWindow(in)) : d.prior = h.value
  <2>1. priors # {}
    BY <1>3, <1>6, ReadValidationAssumption DEF ReadValidationAssumption
  <2>2. d.prior \in priors
    BY <1>3, <2>1
  <2> QED
    BY <2>2
<1>8. h \in stored /\ h.at < c.at
  <2>1. h \in loadHistory(c)
    BY <1>1 DEF Latest, withinWindow
  <2> QED
    BY <2>1 DEF loadHistory
<1>9. f.consumption \in {f.value - h.value, f.value - h.value + registerMax + 1}
  <2>1. c.value \in Int /\ h.value \in Int /\ registerMax \in Int
    BY <1>8, TypedIn, RegisterIsInteger DEF Typed, TypeOK
  <2>2. CASE InBand(d)
    <3>1. f.consumption = d.wrap /\ d.delta < 0
      BY <1>2, <1>6, <2>2 DEF effectiveConsumption, InBand, IsDecrease
    <3>2. in.value < d.prior
      BY <1>1, <1>5, <1>6, <2>1, <3>1
    <3>3. f.consumption = registerMax + 1 - h.value + f.value
      BY <1>1, <1>2, <1>4, <1>6, <1>7, <3>1, <3>2, ReadValidationAssumption
      DEF Wrap, ReadValidationAssumption
    <3> QED
      BY <1>2, <2>1, <3>3
  <2>3. CASE ~InBand(d)
    BY <1>1, <1>2, <1>5, <1>6, <1>7, <2>3 DEF effectiveConsumption
  <2> QED
    BY <2>2, <2>3
<1> QED
  BY <1>2, <1>7, <1>8, <1>9 DEF Movement

\* No consumption is invented: what is stored with a read is the movement of the
\* register since an earlier read of the meter, one turn more when it wrapped
\* (baseline.ts:62, 103-112), if that is so of the imported reads.
THEOREM ConsumptionIsMovement ==
  ASSUME \A reads \in Histories : \A h \in reads :
           h.consumption # Null => \E g \in reads : Movement(g, h)
  PROVE  Spec => []EachMoves
<1> DEFINE Moving == \A r \in stored \cup flight :
                       r.consumption # Null => \E g \in stored : Movement(g, r)
           Inv == Typed /\ Moving
<1>1. Init => Inv
  <2> SUFFICES ASSUME Init PROVE Moving
    BY EarlierTyped
  <2>1. PICK reads \in Histories : stored = {Earlier(h) : h \in reads}
    BY DEF Init
  <2>2. \A h : /\ Earlier(h).consumption = h.consumption /\ Earlier(h).value = h.value
               /\ Earlier(h).at = h.at
    BY DEF Earlier
  <2> SUFFICES ASSUME NEW r \in stored, r.consumption # Null PROVE \E g \in stored : Movement(g, r)
    BY DEF Init
  <2>3. PICK h \in reads : r = Earlier(h)
    BY <2>1
  <2>4. PICK g \in reads : Movement(g, h)
    BY <2>2, <2>3
  <2>5. Movement(Earlier(g), r) /\ Earlier(g) \in stored
    BY <2>1, <2>2, <2>3, <2>4 DEF Movement
  <2> QED
    BY <2>5
<1>2. Inv /\ [Next]_vars => Inv'
  <2> SUFFICES ASSUME Typed, Moving, [Next]_vars, NEW r \in (stored \cup flight)',
                      r.consumption # Null
               PROVE  \E g \in stored' : Movement(g, r)
    BY TypedStep DEF Movement
  <2>1. stored \subseteq stored'
    BY EventMoves DEF Typed
  <2>2. CASE r \in stored \cup flight
    BY <2>1, <2>2
  <2>3. CASE \E c \in queue : EventOf(r, c)
    BY <2>1, <2>3, VerdictMoves
  <2> QED
    BY <2>2, <2>3, EventMoves DEF Typed
<1>3. Inv => EachMoves
  BY DEF EachMoves
<1> QED
  BY <1>1, <1>2, <1>3, PTL DEF Spec

-----------------------------------------------------------------------------
(* Sums over sets of reads, of any size.                                   *)

\* Of finite sets, some of any is least: induction over finite sets.
LEMMA SomeIsLeast ==
  ASSUME NEW S, IsFiniteSet(S), NEW T \in SUBSET SUBSET S, T # {}
  PROVE  \E t \in T : \A u \in T : u \subseteq t => u = t
<1>1. T \subseteq FiniteSubsetsOf(S)
  BY FS_FiniteSubsetsOfFinite
<1>2. IsWellFoundedOn(StrictSubsetOrdering(S), FiniteSubsetsOf(S))
  BY FS_StrictSubsetOrderingWellFounded
<1>3. PICK t \in T : \A u \in T : <<u, t>> \notin StrictSubsetOrdering(S)
  BY <1>1, <1>2, WFMin
<1> QED
  BY <1>3 DEF StrictSubsetOrdering

\* The element a sum over s adds last.
Last(s) == CHOOSE x \in s : TRUE

\* f gives the sums of F over the subsets of S.
Sums(f, F, S) ==
  f = [s \in SUBSET S |-> IF s = {} THEN 0 ELSE F[Last(s)] + f[s \ {Last(s)}]]

\* Sums are the same whatever they are part of.
LEMMA SumsAgree ==
  ASSUME NEW S, IsFiniteSet(S), NEW T, NEW F, NEW f, NEW g, Sums(f, F, S), Sums(g, F, T)
  PROVE  \A s \in SUBSET (S \cap T) : f[s] = g[s]
<1> DEFINE Bad == {s \in SUBSET (S \cap T) : f[s] # g[s]}
<1> SUFFICES ASSUME Bad # {} PROVE FALSE
  OBVIOUS
<1>1. PICK s \in Bad : \A u \in Bad : u \subseteq s => u = s
  <2>1. Bad \in SUBSET SUBSET S
    OBVIOUS
  <2> HIDE DEF Bad
  <2> QED
    BY <2>1, SomeIsLeast
<1>2. /\ f[s] = IF s = {} THEN 0 ELSE F[Last(s)] + f[s \ {Last(s)}]
      /\ g[s] = IF s = {} THEN 0 ELSE F[Last(s)] + g[s \ {Last(s)}]
  BY DEF Sums
<1>3. s # {} => Last(s) \in s
  BY DEF Last
<1>4. s # {} => f[s \ {Last(s)}] = g[s \ {Last(s)}]
  BY <1>1, <1>3
<1> QED
  BY <1>1, <1>2, <1>4

\* There are such sums.
LEMMA SumsExist ==
  ASSUME NEW S, IsFiniteSet(S), NEW F
  PROVE  \E f : Sums(f, F, S)
<1> DEFINE Bad == {s \in SUBSET S : ~\E f : Sums(f, F, s)}
<1> SUFFICES ASSUME Bad # {} PROVE FALSE
  OBVIOUS
<1>1. PICK t \in Bad : \A u \in Bad : u \subseteq t => u = t
  <2>1. Bad \in SUBSET SUBSET S
    OBVIOUS
  <2> HIDE DEF Bad
  <2> QED
    BY <2>1, SomeIsLeast
<1> DEFINE part(s) == CHOOSE f : Sums(f, F, s)
           f == [s \in SUBSET t |->
                   IF s = {} THEN 0 ELSE F[Last(s)] + part(s \ {Last(s)})[s \ {Last(s)}]]
<1>2. \A s \in SUBSET t : s # t => Sums(part(s), F, s) /\ IsFiniteSet(s)
  <2> SUFFICES ASSUME NEW s \in SUBSET t, s # t PROVE Sums(part(s), F, s) /\ IsFiniteSet(s)
    OBVIOUS
  <2>1. \E g : Sums(g, F, s)
    BY <1>1
  <2>2. IsFiniteSet(s)
    BY FS_Subset
  <2> QED
    BY <2>1, <2>2
<1>3. \A s \in SUBSET t : s # {} => Last(s) \in s
  BY DEF Last
<1> HIDE DEF part
<1>4. ASSUME NEW s \in SUBSET t, s # {}
      PROVE  f[s \ {Last(s)}] = part(s \ {Last(s)})[s \ {Last(s)}]
  <2> DEFINE v == s \ {Last(s)}
             w == v \ {Last(v)}
  <2>1. v \in SUBSET t /\ v # t /\ w \in SUBSET v
    BY <1>3, <1>4
  <2>2. f[v] = IF v = {} THEN 0 ELSE F[Last(v)] + part(w)[w]
    BY <2>1
  <2>3. part(v)[v] = IF v = {} THEN 0 ELSE F[Last(v)] + part(v)[w]
    <3>1. Sums(part(v), F, v)
      BY <1>2, <2>1
    <3> HIDE DEF v
    <3> QED
      BY <3>1 DEF Sums
  <2>4. v # {} => part(v)[w] = part(w)[w]
    <3> SUFFICES ASSUME v # {} PROVE part(v)[w] = part(w)[w]
      OBVIOUS
    <3>1. w \in SUBSET t /\ w # t
      BY <2>1
    <3>2. Sums(part(v), F, v) /\ IsFiniteSet(v) /\ Sums(part(w), F, w)
      BY <1>2, <2>1, <3>1
    <3> HIDE DEF v, w
    <3> QED
      BY <2>1, <3>2, SumsAgree
  <2> HIDE DEF f
  <2> QED
    BY <2>2, <2>3, <2>4
<1>5. Sums(f, F, t)
  <2>1. f = [s \in SUBSET t |-> IF s = {} THEN 0 ELSE F[Last(s)] + f[s \ {Last(s)}]]
    BY <1>4
  <2> HIDE DEF f
  <2> QED
    BY <2>1 DEF Sums
<1> QED
  BY <1>1, <1>5

\* The consumption of a set of reads is such a sum.
LEMMA ConsumedIsASum ==
  ASSUME NEW S, IsFiniteSet(S), NEW F, \A h \in S : F[h] = h.consumption
  PROVE  \E f : Sums(f, F, S) /\ Consumed(S) = f[S]
<1> DEFINE iter == CHOOSE f : f =
         [s \in SUBSET S |-> IF s = {} THEN 0
            ELSE (CHOOSE x \in s : TRUE).consumption + f[s \ {CHOOSE x \in s : TRUE}]]
<1>1. Consumed(S) = iter[S]
  BY DEF Consumed, MapThenSumSet, MapThenFoldSet
<1>2. PICK g : Sums(g, F, S)
  BY SumsExist
<1>3. \A f : Sums(f, F, S) <=> f =
         [s \in SUBSET S |-> IF s = {} THEN 0
            ELSE (CHOOSE x \in s : TRUE).consumption + f[s \ {CHOOSE x \in s : TRUE}]]
  <2>1. \A s \in SUBSET S : s # {} => F[Last(s)] = Last(s).consumption
    BY DEF Last
  <2>2. ASSUME NEW f PROVE
        [s \in SUBSET S |-> IF s = {} THEN 0 ELSE F[Last(s)] + f[s \ {Last(s)}]]
        = [s \in SUBSET S |-> IF s = {} THEN 0
            ELSE Last(s).consumption + f[s \ {Last(s)}]]
    BY <2>1
  <2> QED
    BY <2>2 DEF Sums, Last
<1>4. Sums(iter, F, S)
  BY <1>2, <1>3
<1> QED
  BY <1>1, <1>4

\* Sums of integers are integers.
LEMMA SumsType ==
  ASSUME NEW S, IsFiniteSet(S), NEW F, \A x \in S : F[x] \in Int, NEW f, Sums(f, F, S)
  PROVE  \A s \in SUBSET S : f[s] \in Int
<1> DEFINE Bad == {s \in SUBSET S : f[s] \notin Int}
<1> SUFFICES ASSUME Bad # {} PROVE FALSE
  OBVIOUS
<1>1. PICK s \in Bad : \A u \in Bad : u \subseteq s => u = s
  <2>1. Bad \in SUBSET SUBSET S
    OBVIOUS
  <2> HIDE DEF Bad
  <2> QED
    BY <2>1, SomeIsLeast
<1>2. f[s] = IF s = {} THEN 0 ELSE F[Last(s)] + f[s \ {Last(s)}]
  BY DEF Sums
<1>3. s # {} => Last(s) \in s
  BY DEF Last
<1>4. s # {} => F[Last(s)] \in Int /\ f[s \ {Last(s)}] \in Int
  BY <1>1, <1>3
<1> QED
  BY <1>1, <1>2, <1>4

\* What is added to a sum may be added last.
LEMMA SumsAdd ==
  ASSUME NEW S, IsFiniteSet(S), NEW F, \A x \in S : F[x] \in Int, NEW f, Sums(f, F, S),
         NEW s \in SUBSET S, NEW x \in s
  PROVE  f[s] = F[x] + f[s \ {x}]
<1> DEFINE Bad == {t \in SUBSET S : \E y \in t : f[t] # F[y] + f[t \ {y}]}
<1> SUFFICES ASSUME Bad # {} PROVE FALSE
  OBVIOUS
<1>1. PICK t \in Bad : \A u \in Bad : u \subseteq t => u = t
  <2>1. Bad \in SUBSET SUBSET S
    OBVIOUS
  <2> HIDE DEF Bad
  <2> QED
    BY <2>1, SomeIsLeast
<1>2. PICK y \in t : f[t] # F[y] + f[t \ {y}]
  BY <1>1
<1> DEFINE z == Last(t)
           both == t \ {y, z}
<1>3. z \in t /\ f[t] = F[z] + f[t \ {z}]
  BY <1>2 DEF Sums, Last
<1>4. y # z
  BY <1>2, <1>3
<1>5. \A u \in SUBSET t : \A v \in u : u # t => f[u] = F[v] + f[u \ {v}]
  BY <1>1
<1> HIDE DEF z, Bad
<1>6. f[t \ {z}] = F[y] + f[both]
  <2>1. (t \ {z}) \ {y} = both /\ y \in t \ {z}
    BY <1>2, <1>4
  <2> QED
    BY <1>3, <1>5, <2>1
<1>7. f[t \ {y}] = F[z] + f[both]
  <2>1. (t \ {y}) \ {z} = both /\ z \in t \ {y}
    BY <1>3, <1>4
  <2> QED
    BY <1>2, <1>5, <2>1
<1>8. F[y] \in Int /\ F[z] \in Int /\ f[both] \in Int
  <2>1. both \in SUBSET S
    BY <1>1 DEF Bad
  <2> QED
    BY <1>1, <1>2, <1>3, <2>1, SumsType DEF Bad
<1> QED
  BY <1>2, <1>3, <1>6, <1>7, <1>8

\* What is consumed in addition is added.
LEMMA ConsumedAdds ==
  ASSUME NEW S, IsFiniteSet(S), \A h \in S : h.consumption \in Int, NEW r \in S
  PROVE  Consumed(S) \in Int /\ Consumed(S) = Consumed(S \ {r}) + r.consumption
<1> DEFINE F == [h \in S |-> h.consumption]
           T == S \ {r}
<1>1. PICK f : Sums(f, F, S) /\ Consumed(S) = f[S]
  BY ConsumedIsASum
<1>2. PICK g : Sums(g, F, T) /\ Consumed(T) = g[T]
  <2>1. IsFiniteSet(T)
    BY FS_Subset
  <2> QED
    BY <2>1, ConsumedIsASum
<1>3. f[T] = g[T]
  BY <1>1, <1>2, SumsAgree
<1>4. \A h \in S : F[h] \in Int /\ F[h] = h.consumption
  OBVIOUS
<1> HIDE DEF F
<1>5. f[S] = F[r] + f[T] /\ f[S] \in Int /\ f[T] \in Int
  BY <1>1, <1>4, SumsAdd, SumsType
<1> QED
  BY <1>1, <1>2, <1>3, <1>4, <1>5

\* Nothing consumes nothing.
LEMMA ConsumedNothing == Consumed({}) = 0
<1>1. PICK f : Sums(f, [h \in {} |-> h.consumption], {}) /\ Consumed({}) = f[{}]
  BY ConsumedIsASum, FS_EmptySet
<1> QED
  BY <1>1 DEF Sums

-----------------------------------------------------------------------------
(* The reads of record add up.                                             *)

\* Of finitely many reads one is the latest.
LEMMA OneIsLatest ==
  ASSUME NEW S, IsFiniteSet(S), S # {}, \A x \in S : x.at \in Int
  PROVE  \E t \in S : \A x \in S : x.at <= t.at
<1> DEFINE After(t) == {x \in S : x.at > t.at}
           Afters == {After(t) : t \in S}
<1>1. PICK T \in Afters : \A u \in Afters : u \subseteq T => u = T
  <2>1. Afters \in SUBSET SUBSET S /\ Afters # {}
    OBVIOUS
  <2> HIDE DEF Afters
  <2> QED
    BY <2>1, SomeIsLeast
<1>2. PICK t \in S : T = After(t)
  BY <1>1
<1>3. ASSUME NEW x \in S, ~(x.at <= t.at) PROVE FALSE
  <2>1. After(x) \subseteq After(t) /\ x \in After(t) /\ x \notin After(x)
    BY <1>3
  <2>2. After(x) \in Afters
    OBVIOUS
  <2> HIDE DEF After, Afters
  <2> QED
    BY <1>1, <1>2, <2>1, <2>2
<1> QED
  BY <1>3

\* Reads that follow one another from the first on, each with the movement since the
\* one before it, add up to whole turns of the register and what it moved.
LEMMA ChainAddsUp ==
  ASSUME NEW S, IsFiniteSet(S), NEW first \in S, NEW last \in S,
         \A r \in S : r.at \in Int /\ r.value \in Int /\ r.at <= last.at,
         \A r, x \in S : r.at = x.at => r = x,
         \A r \in S \ {first} : /\ first.at < r.at /\ r.consumption # Null
                               /\ \E g \in S : /\ Movement(g, r)
                                              /\ ~\E x \in S : g.at < x.at /\ x.at < r.at
  PROVE  \E k \in Int :
           Consumed(S \ {first}) = last.value - first.value + k * (registerMax + 1)
<1> DEFINE turn == registerMax + 1
           Until(t) == {x \in S : x.at <= t.at}
           AddUp(T, t) == \E k \in Int : Consumed(T \ {first}) = t.value - first.value + k * turn
           Bad == {T \in SUBSET S : \E t \in S : T = Until(t) /\ ~AddUp(T, t)}
<1>0. turn \in Int
  BY RegisterIsInteger
<1>1. SUFFICES ASSUME Bad # {} PROVE FALSE
  <2>1. Until(last) = S
    OBVIOUS
  <2>2. Until(last) \notin Bad => AddUp(Until(last), last)
    OBVIOUS
  <2> HIDE DEF Bad, Until
  <2> QED
    BY <2>1, <2>2
<1>2. PICK T \in Bad : \A u \in Bad : u \subseteq T => u = T
  <2>1. Bad \in SUBSET SUBSET S
    OBVIOUS
  <2> HIDE DEF Bad
  <2> QED
    BY <1>1, <2>1, SomeIsLeast
<1>3. PICK t \in S : T = Until(t) /\ ~AddUp(T, t)
  BY <1>2
<1>4. t # first
  <2> SUFFICES ASSUME t = first PROVE FALSE
    OBVIOUS
  <2>1. T \ {first} = {}
    BY <1>3
  <2>2. first.value \in Int /\ 0 = first.value - first.value + 0 * turn
    BY <1>0
  <2>3. Consumed(T \ {first}) = t.value - first.value + 0 * turn
    BY <2>1, <2>2, ConsumedNothing
  <2> HIDE DEF turn
  <2>4. AddUp(T, t)
    BY <2>3
  <2> QED
    BY <1>3, <2>4
<1>5. PICK g \in S : Movement(g, t) /\ ~\E x \in S : g.at < x.at /\ x.at < t.at
  BY <1>4
<1>6. g.at < t.at
  BY <1>5 DEF Movement
<1>7. Until(g) = T \ {t} /\ t \in T
  BY <1>3, <1>5, <1>6
<1>8. AddUp(Until(g), g)
  <2>1. Until(g) \notin Bad
    BY <1>2, <1>7
  <2> HIDE DEF AddUp
  <2> QED
    BY <2>1
<1> HIDE DEF Until, Bad
<1>9. PICK k \in Int : Consumed((T \ {t}) \ {first}) = g.value - first.value + k * turn
  BY <1>7, <1>8
<1>10. t.consumption \in {t.value - g.value, t.value - g.value + turn}
  <2>1. t.value \in Int /\ g.value \in Int /\ registerMax \in Int
    BY RegisterIsInteger
  <2> QED
    BY <1>5, <2>1 DEF Movement
<1>11. Consumed(T \ {first}) = Consumed((T \ {t}) \ {first}) + t.consumption
  <2> DEFINE later == T \ {first}
  <2>1. T \subseteq S
    BY <1>3 DEF Until
  <2>2. IsFiniteSet(later)
    BY <2>1, FS_Subset
  <2>3. \A r \in later : r.consumption \in Int
    <3> SUFFICES ASSUME NEW r \in later PROVE r.consumption \in Int
      OBVIOUS
    <3>1. PICK q \in S : Movement(q, r)
      BY <2>1
    <3>2. r.value \in Int /\ q.value \in Int
      BY <2>1
    <3> HIDE DEF turn
    <3> QED
      BY <1>0, <3>1, <3>2, RegisterIsInteger DEF Movement
  <2>4. later \ {t} = (T \ {t}) \ {first} /\ t \in later
    BY <1>4, <1>7
  <2> HIDE DEF later
  <2>5. Consumed(later) = Consumed(later \ {t}) + t.consumption
    BY <2>2, <2>3, <2>4, ConsumedAdds
  <2> QED
    BY <2>4, <2>5 DEF later
<1>12. t.value \in Int /\ g.value \in Int /\ first.value \in Int
  OBVIOUS
<1> HIDE DEF turn
<1>13. \/ Consumed(T \ {first}) = t.value - first.value + k * turn
       \/ Consumed(T \ {first}) = t.value - first.value + (k + 1) * turn
  BY <1>0, <1>9, <1>10, <1>11, <1>12
<1> QED
  BY <1>3, <1>13

\* Captures, like stored reads, are in order of the stops: the stop of the open page
\* is none that was passed.
Everything == queue \cup flight \cup stored
Sequenced ==
  /\ IsFiniteSet(stored)
  /\ InOrder(Everything)
  /\ page # NoPage => \A r \in OnStops : r.stop <= page.stop

\* What was informed when it was judged is measured from the read it follows; what
\* is still to come is of its own visit or captured later.
Chained ==
  \A r \in stored \cup flight :
    r.informed /\ r.consumption # Null =>
      /\ \E g \in stored : Follows(r, g, stored) /\ Movement(g, r)
      /\ \A x \in (queue \cup flight) \ {r} : SameVisit(x, r) \/ x.at > r.at

\* Every step keeps the order.
LEMMA SequencedStep == Typed /\ Sequenced /\ [Next]_vars => Sequenced'
<1> SUFFICES ASSUME Typed, Sequenced, [Next]_vars PROVE Sequenced'
  OBVIOUS
<1> USE DEF Sequenced, Everything, InOrder
<1>1. ASSUME NEW s \in Stops, OpenStop(s) PROVE Sequenced'
  BY <1>1 DEF OpenStop, OnStops
<1>2. ASSUME NEW value \in Values, NEW gap \in Gaps, NEW located \in Fixes,
             Submit(value, gap, located)
      PROVE  Sequenced'
  <2>1. now \in Nat /\ gap \in Nat /\ now + gap > now
    BY MeterReadsAssumption DEF MeterReadsAssumption, Typed, TypeOK
  <2>2. PICK c : queue' = queue \cup {c} /\ c.stop = page.stop /\ c.at = now + gap
    BY <1>2, SubmitMoves
  <2>3. page # NoPage /\ page' = NoPage /\ UNCHANGED <<stored, flight>>
    BY <1>2 DEF Submit
  <2>4. c.stop \in Stops /\ c.stop # NoStop /\ c.stop \in Nat
    BY <2>2, <2>3, MeterReadsAssumption DEF MeterReadsAssumption, Typed, TypeOK
  <2>5. \A x \in Everything : x.at \in Int /\ x.at < c.at
    BY <2>1, <2>2 DEF Typed, Timed
  <2>6. \A x \in Everything : x.stop # NoStop => x.stop <= c.stop
    <3>1. \A x \in Everything : x.stop # NoStop => x \in OnStops
      BY DEF OnStops, Typed, TypeOK
    <3> QED
      BY <2>2, <2>3, <3>1
  <2>7. Everything' = Everything \cup {c}
    BY <2>2, <2>3
  <2>8. InOrder(Everything')
    <3> SUFFICES ASSUME NEW g \in Everything \cup {c}, NEW h \in Everything \cup {c},
                        g.at < h.at, g.stop # NoStop
                 PROVE  h.stop # NoStop /\ g.stop <= h.stop
      BY <2>7
    <3>1. CASE g \in Everything /\ h \in Everything
      BY <3>1
    <3>2. CASE h = c
      BY <2>4, <2>5, <2>6, <3>2
    <3>3. CASE g = c /\ h \in Everything
      BY <2>1, <2>2, <2>5, <3>3
    <3> QED
      BY <3>1, <3>2, <3>3
  <2> QED
    BY <2>3, <2>8
<1>3. ASSUME NEW c \in queue, Reject(c) PROVE Sequenced'
  BY <1>3 DEF Reject, OnStops
<1>4. ASSUME NEW c \in queue, Validate(c) PROVE Sequenced'
  <2>1. PICK f : EventOf(f, c) /\ flight' = flight \cup {f}
    BY <1>4, ValidateMoves DEF Typed
  <2>2. queue' = queue \ {c} /\ UNCHANGED <<stored, page, now>>
    BY <1>4, ValidateMoves DEF Typed
  <2>3. f.stop = c.stop /\ f.at = c.at
    BY <2>1 DEF EventOf
  <2>4. InOrder(Everything')
    BY <2>1, <2>2, <2>3
  <2>5. page # NoPage => \A r \in OnStops' : r.stop <= page.stop
    BY <2>1, <2>2, <2>3 DEF OnStops
  <2> QED
    BY <2>2, <2>4, <2>5
<1>5. ASSUME NEW c \in flight, Store(c) PROVE Sequenced'
  <2>1. stored' = stored \cup {c} /\ flight' = flight \ {c} /\ UNCHANGED <<page, queue, now>>
    BY <1>5 DEF Store
  <2>2. IsFiniteSet(stored')
    BY <2>1, FS_AddElement
  <2> QED
    BY <2>1, <2>2 DEF OnStops
<1>6. CASE UNCHANGED vars
  BY <1>6 DEF vars, OnStops
<1> QED
  BY <1>1, <1>2, <1>3, <1>4, <1>5, <1>6 DEF Next

\* Of finitely many reads the latest is later than the others.
LEMMA LatestIsLast ==
  ASSUME NEW S, IsFiniteSet(S), NEW h \in Latest(1, S), \A x \in S : x.at \in Int
  PROVE  h \in S /\ \A x \in S : x.at <= h.at
<1> DEFINE later == {g \in S : g.at > h.at}
<1>1. h \in S /\ Cardinality(later) < 1
  BY DEF Latest
<1>2. IsFiniteSet(later)
  BY FS_Subset
<1>3. later = {}
  <2> HIDE DEF later
  <2> QED
    BY <1>1, <1>2, FS_CardinalityType, FS_EmptySet
<1> QED
  BY <1>1, <1>3

\* What an event consumed is measured from the read it follows among those stored.
LEMMA VerdictFollows ==
  ASSUME Typed, Sequenced, NEW c \in queue, NEW f, EventOf(f, c), f.consumption # Null
  PROVE  \E g \in stored : Follows(f, g, stored) /\ Movement(g, f)
<1> DEFINE window == withinWindow(Inputs(c))
<1>1. PICK g \in stored : g \in Latest(1, window) /\ Movement(g, f)
  BY VerdictMoves
<1>2. window = {h \in stored : h.at >= c.at - BaselineMonths /\ h.at < c.at /\ h.stop # c.stop}
  BY DEF withinWindow, Inputs, loadHistory
<1>3. IsFiniteSet(window) /\ \A x \in window : x.at \in Int
  BY <1>2, FS_Subset DEF Sequenced, Typed, TypeOK
<1>4. g \in window /\ \A x \in window : x.at <= g.at
  BY <1>1, <1>3, LatestIsLast
<1>5. f.at = c.at /\ f.stop = c.stop /\ c.stop # NoStop /\ c.at \in Int
  BY TypedIn, MeterReadsAssumption DEF EventOf, Typed, Timed, MeterReadsAssumption
<1>6. BaselineMonths \in Int /\ \A x \in stored : x.at \in Int
  BY ReadValidationAssumption DEF ReadValidationAssumption, Typed, TypeOK
<1> QED
  BY <1>1, <1>2, <1>4, <1>5, <1>6 DEF Follows, SameVisit

\* Every step keeps what was measured.
LEMMA ChainedStep == Typed /\ Sequenced /\ Chained /\ [Next]_vars => Chained'
<1> SUFFICES ASSUME Typed, Sequenced, Chained, [Next]_vars PROVE Chained'
  OBVIOUS
<1>1. ASSUME UNCHANGED <<stored, flight>>,
             \A x \in queue' \ queue : \A r \in stored \cup flight : x.at > r.at
      PROVE  Chained'
  BY <1>1 DEF Chained
<1>2. ASSUME NEW s \in Stops, OpenStop(s) PROVE Chained'
  BY <1>1, <1>2 DEF OpenStop
<1>3. ASSUME NEW value \in Values, NEW gap \in Gaps, NEW located \in Fixes,
             Submit(value, gap, located)
      PROVE  Chained'
  <2>1. now \in Nat /\ gap \in Nat /\ now + gap > now
    BY MeterReadsAssumption DEF MeterReadsAssumption, Typed, TypeOK
  <2>2. PICK c : queue' = queue \cup {c} /\ c.at = now + gap
    BY <1>3, SubmitMoves
  <2>3. \A r \in stored \cup flight : c.at > r.at
    BY <2>1, <2>2 DEF Typed, Timed
  <2> QED
    BY <1>1, <1>3, <2>2, <2>3 DEF Submit
<1>4. ASSUME NEW c \in queue, Reject(c) PROVE Chained'
  BY <1>1, <1>4 DEF Reject
<1>5. ASSUME NEW c \in queue, Validate(c) PROVE Chained'
  <2>1. PICK f : EventOf(f, c) /\ flight' = flight \cup {f}
    BY <1>5, ValidateMoves DEF Typed
  <2>2. queue' = queue \ {c} /\ UNCHANGED <<stored, page, now>>
    BY <1>5, ValidateMoves DEF Typed
  <2>3. f.stop = c.stop /\ f.at = c.at /\ c.stop # NoStop
    BY <2>1, TypedIn, MeterReadsAssumption DEF EventOf, Typed, MeterReadsAssumption
  <2>4. ASSUME NEW r \in stored \cup flight, r.informed, r.consumption # Null
        PROVE  /\ \E g \in stored : Follows(r, g, stored) /\ Movement(g, r)
               /\ \A x \in (queue' \cup flight') \ {r} : SameVisit(x, r) \/ x.at > r.at
    <3>1. /\ \E g \in stored : Follows(r, g, stored) /\ Movement(g, r)
          /\ \A x \in (queue \cup flight) \ {r} : SameVisit(x, r) \/ x.at > r.at
      BY <2>4 DEF Chained
    <3>2. c # r
      BY DEF Typed, Apart
    <3>3. SameVisit(f, r) \/ f.at > r.at
      BY <2>3, <3>1, <3>2 DEF SameVisit
    <3> QED
      BY <2>1, <2>2, <3>1, <3>3
  <2>5. ASSUME f.informed, f.consumption # Null
        PROVE  /\ \E g \in stored : Follows(f, g, stored) /\ Movement(g, f)
               /\ \A x \in (queue' \cup flight') \ {f} : SameVisit(x, f) \/ x.at > f.at
    <3>1. \A x \in (queue \cup flight) \ {c} : x.stop = c.stop \/ x.at > c.at
      BY <2>1, <2>5 DEF EventOf
    <3>2. (queue' \cup flight') \ {f} \subseteq (queue \cup flight) \ {c}
      BY <2>1, <2>2 DEF Typed, Apart
    <3>3. \A x \in (queue' \cup flight') \ {f} : SameVisit(x, f) \/ x.at > f.at
      BY <2>3, <3>1, <3>2 DEF SameVisit
    <3> QED
      BY <2>1, <2>5, <3>3, VerdictFollows
  <2>6. \A r \in (stored \cup flight)' : r \in stored \cup flight \/ r = f
    BY <2>1, <2>2
  <2>7. stored' = stored
    BY <2>2
  <2> SUFFICES ASSUME NEW r \in (stored \cup flight)', r.informed, r.consumption # Null
               PROVE  /\ \E g \in stored : Follows(r, g, stored) /\ Movement(g, r)
                      /\ \A x \in (queue' \cup flight') \ {r} : SameVisit(x, r) \/ x.at > r.at
    BY <2>7 DEF Chained, Follows, SameVisit, Movement
  <2> QED
    BY <2>4, <2>5, <2>6
<1>6. ASSUME NEW c \in flight, Store(c) PROVE Chained'
  <2>1. stored' = stored \cup {c} /\ flight' = flight \ {c} /\ UNCHANGED <<page, queue, now>>
    BY <1>6 DEF Store
  <2> SUFFICES ASSUME NEW r \in stored \cup flight, r.informed, r.consumption # Null
               PROVE  /\ \E g \in stored' : Follows(r, g, stored') /\ Movement(g, r)
                      /\ \A x \in (queue' \cup flight') \ {r} : SameVisit(x, r) \/ x.at > r.at
    BY <2>1 DEF Chained, Follows, SameVisit, Movement
  <2>2. PICK g \in stored : Follows(r, g, stored) /\ Movement(g, r)
    BY DEF Chained
  <2>3. \A x \in (queue \cup flight) \ {r} : SameVisit(x, r) \/ x.at > r.at
    BY DEF Chained
  <2>4. c # r => SameVisit(c, r) \/ ~(c.at < r.at)
    BY <2>3 DEF Typed, Timed
  <2>5. c = r => ~(c.at < r.at)
    BY DEF Typed, Timed
  <2>6. Follows(r, g, stored')
    BY <2>1, <2>2, <2>4, <2>5 DEF Follows
  <2> QED
    BY <2>1, <2>2, <2>3, <2>6
<1>7. CASE UNCHANGED vars
  BY <1>1, <1>7 DEF vars
<1> QED
  BY <1>2, <1>3, <1>4, <1>5, <1>6, <1>7 DEF Next

\* At the start, if the imported reads add up.
LEMMA ChainedAtFirst ==
  ASSUME \A reads \in Histories : AddsUp(reads), Init
  PROVE  Sequenced /\ Chained
<1>1. PICK reads \in Histories : stored = {Earlier(h) : h \in reads}
  BY DEF Init
<1>2. /\ IsFiniteSet(reads) /\ InOrder(reads) /\ AddsUp(reads)
      /\ \A h \in reads : h.at \in Int
  BY MeterReadsAssumption DEF MeterReadsAssumption
<1>3. \A h : LET r == Earlier(h) IN
        /\ r.stop = h.stop /\ r.at = h.at /\ r.value = h.value /\ r.consumption = h.consumption
  BY DEF Earlier
<1>4. IsFiniteSet(stored)
  <2> DEFINE f == [h \in reads |-> Earlier(h)]
  <2>1. f \in Surjection(reads, stored)
    BY <1>1 DEF Surjection
  <2> QED
    BY <1>2, <2>1, FS_Surjection
<1>5. queue = {} /\ flight = {} /\ page = NoPage
  BY DEF Init
<1>6. InOrder(stored)
  BY <1>1, <1>2, <1>3 DEF InOrder
<1>7. Sequenced
  BY <1>4, <1>5, <1>6 DEF Sequenced, Everything, InOrder
<1>8. ASSUME NEW r \in stored, r.consumption # Null
      PROVE  \E g \in stored : Follows(r, g, stored) /\ Movement(g, r)
  <2>1. PICK h \in reads : r = Earlier(h)
    BY <1>1
  <2>2. PICK g \in reads : Follows(h, g, reads) /\ Movement(g, h)
    BY <1>2, <1>3, <1>8, <2>1 DEF AddsUp
  <2>3. Earlier(g) \in stored
    BY <1>1
  <2>4. Movement(Earlier(g), r)
    BY <1>3, <2>1, <2>2 DEF Movement
  <2>5. Follows(r, Earlier(g), stored)
    <3>1. Earlier(g).at < r.at /\ ~SameVisit(Earlier(g), r)
      BY <1>3, <2>1, <2>2 DEF Follows, SameVisit
    <3>2. ASSUME NEW x \in stored, Earlier(g).at < x.at, x.at < r.at PROVE SameVisit(x, r)
      <4>1. PICK y \in reads : x = Earlier(y)
        BY <1>1
      <4> QED
        BY <1>3, <2>1, <2>2, <3>2, <4>1 DEF Follows, SameVisit
    <3> QED
      BY <2>3, <3>1, <3>2 DEF Follows
  <2> QED
    BY <2>3, <2>4, <2>5
<1> QED
  BY <1>5, <1>7, <1>8 DEF Chained

\* Of the reads of record, each is measured from the one before it.
LEMMA RecordsFollow ==
  ASSUME Typed, Sequenced, NEW r \in OfRecord, NEW g \in stored, Follows(r, g, stored)
  PROVE  g \in OfRecord /\ ~\E x \in OfRecord : g.at < x.at /\ x.at < r.at
<1>1. /\ OfRecord \subseteq stored
      /\ \A x \in OfRecord : x.stop = NoStop \/ \A y \in stored : y.stop = x.stop => y.at <= x.at
  BY DEF OfRecord
<1>2. \A x \in stored : x.at \in Int /\ (x.stop # NoStop => x.stop \in Nat)
  BY MeterReadsAssumption DEF MeterReadsAssumption, Typed, TypeOK
<1>3. InOrder(stored)
  BY DEF Sequenced, Everything, InOrder
<1>4. /\ g.at < r.at /\ ~SameVisit(g, r)
      /\ \A x \in stored : g.at < x.at /\ x.at < r.at => SameVisit(x, r)
  BY DEF Follows
<1>5. ASSUME NEW x \in OfRecord, g.at < x.at, x.at < r.at PROVE FALSE
  <2>1. SameVisit(x, r) /\ x \in stored /\ r \in stored
    BY <1>1, <1>4, <1>5
  <2> QED
    BY <1>1, <1>2, <1>5, <2>1 DEF SameVisit
<1>6. ASSUME g.stop # NoStop, NEW x \in stored, x.stop = g.stop, ~(x.at <= g.at) PROVE FALSE
  <2>1. r \in stored /\ r.stop # NoStop /\ g.stop <= r.stop
    BY <1>1, <1>3, <1>4, <1>6 DEF InOrder
  <2>2. g.stop # r.stop
    BY <1>4, <1>6 DEF SameVisit
  <2>3. CASE x.at < r.at
    <3>1. SameVisit(x, r)
      BY <1>2, <1>4, <1>6, <2>3
    <3> QED
      BY <1>6, <2>2, <3>1 DEF SameVisit
  <2>4. CASE r.at < x.at
    <3>1. r.stop <= x.stop
      BY <1>3, <2>1, <2>4 DEF InOrder
    <3> QED
      BY <1>2, <1>6, <2>1, <2>2, <3>1
  <2>5. CASE r.at = x.at
    <3>1. r = x
      BY <2>1, <2>5 DEF Typed, TypeOK
    <3> QED
      BY <1>6, <2>2, <3>1
  <2> QED
    BY <1>2, <2>1, <2>3, <2>4, <2>5
<1>7. g \in OfRecord
  BY <1>6 DEF OfRecord
<1> QED
  BY <1>5, <1>7

\* Whole turns of a register leave no remainder.
LEMMA WholeTurns ==
  ASSUME NEW m \in Nat, m > 0, NEW k \in Int
  PROVE  (k * m) % m = 0
OBVIOUS

\* Consumption is neither lost nor invented: what is stored with the reads of record
\* adds up to the movement of the register, for any number of reads and cycles,
\* wraps, corrections and misreadings included, as long as reads arrive in the order
\* they are captured and the imported ones add up (baseline.ts:62, 77-83,
\* ingestion.service.ts:355-362).
THEOREM ConsumptionAddsUp ==
  ASSUME \A reads \in Histories : AddsUp(reads)
  PROVE  Spec => []Conserved
<1> DEFINE Inv == Typed /\ Sequenced /\ Chained
<1>1. Init => Inv
  BY EarlierTyped, ChainedAtFirst
<1>2. Inv /\ [Next]_vars => Inv'
  BY TypedStep, SequencedStep, ChainedStep
<1>3. Inv => Conserved
  <2> DEFINE later(first) == OfRecord \ {first}
             last == CHOOSE r \in OfRecord : \A x \in OfRecord : x.at <= r.at
  <2> SUFFICES ASSUME Inv, NEW first \in OfRecord, \A r \in stored : r.informed,
                      \A r \in later(first) : first.at < r.at /\ r.consumption # Null
               PROVE  (Consumed(later(first)) - (last.value - first.value)) % (registerMax + 1) = 0
    BY Zenon DEF Conserved
  <2>1. /\ IsFiniteSet(OfRecord) /\ OfRecord \subseteq stored
        /\ \A r \in OfRecord : r.at \in Int /\ r.value \in Int /\ r.value >= 0 /\ r.value <= registerMax
        /\ \A r, x \in OfRecord : r.at = x.at => r = x
    <3>1. OfRecord \subseteq stored /\ IsFiniteSet(stored)
      BY DEF OfRecord, Sequenced
    <3>2. IsFiniteSet(OfRecord)
      BY <3>1, FS_Subset
    <3> QED
      BY <3>1, <3>2, RegisterIsInteger DEF Typed, TypeOK
  <2>2. \A r \in later(first) : \E g \in OfRecord :
          /\ Movement(g, r) /\ ~\E x \in OfRecord : g.at < x.at /\ x.at < r.at
    <3> SUFFICES ASSUME NEW r \in later(first)
                 PROVE  \E g \in OfRecord :
                          /\ Movement(g, r) /\ ~\E x \in OfRecord : g.at < x.at /\ x.at < r.at
      OBVIOUS
    <3>1. PICK g \in stored : Follows(r, g, stored) /\ Movement(g, r)
      BY <2>1 DEF Chained
    <3> QED
      BY <3>1, RecordsFollow
  <2>3. PICK top \in OfRecord : \A x \in OfRecord : x.at <= top.at
    BY <2>1, OneIsLatest
  <2>4. last \in OfRecord /\ \A x \in OfRecord : x.at <= last.at
    BY <2>3
  <2> HIDE DEF last
  <2>5. PICK k \in Int : Consumed(later(first)) = last.value - first.value + k * (registerMax + 1)
    BY <2>1, <2>2, <2>4, ChainAddsUp
  <2> DEFINE turn == registerMax + 1
  <2>6. turn \in Nat /\ turn > 0
    BY <2>1, RegisterIsInteger
  <2>7. Consumed(later(first)) - (last.value - first.value) = k * turn
    <3>1. last.value \in Int /\ first.value \in Int /\ k * turn \in Int
      BY <2>1, <2>4, <2>6
    <3> HIDE DEF turn, later
    <3>2. Consumed(later(first)) = last.value - first.value + k * turn
      BY <2>5 DEF turn
    <3> QED
      BY <3>1, <3>2
  <2> HIDE DEF later, turn
  <2>8. (k * turn) % turn = 0
    BY <2>6, WholeTurns
  <2> QED
    BY <2>7, <2>8 DEF turn
<1> QED
  BY <1>1, <1>2, <1>3, PTL DEF Spec
=============================================================================

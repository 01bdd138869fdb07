------------------------- MODULE BillingExportProofs -------------------------
(***************************************************************************)
(* What holds of BillingExport for any stops, reads, findings and number   *)
(* of requests that overlap.                                               *)
(***************************************************************************)
EXTENDS BillingExport, FiniteSetTheorems, TLAPS

\* What may be billed in place of a read is a read.
LEMMA BillableAreReads ==
  ASSUME TypeOK, NEW e \in Reads
  PROVE  BillableReads(e) \subseteq Reads
<1>1. {certified[x] : x \in On(e)} \subseteq Reads \cup {NoRead}
  BY DEF On, TypeOK
<1> QED
  BY <1>1 DEF BillableReads

\* A classification is a body, and bills only reads of record that nothing blocks,
\* with a read that may be billed for them.
LEMMA ClassifiedBodies ==
  ASSUME TypeOK, NEW rec \in Records, NEW sk \in SUBSET Stops,
         NEW body \in Classified(rec, sk)
  PROVE  /\ body \in Bodies
         /\ \A l \in body.billable :
              /\ l.stop \in Stops /\ l.of = rec[l.stop] /\ l.of \in Reads /\ ~Blocked(l.of)
              /\ l.read \in BillableReads(l.of)
<1> DEFINE verdicts == [s \in Stops |-> Verdicts(s, rec[s], s \in sk)]
           billed == {s \in Stops : "billable" \in verdicts[s]}
           holds == UNION {{[stop |-> s, reason |-> v] : v \in verdicts[s] \ {"billable"}} :
                             s \in Stops}
           choices == {f \in [billed -> Reads \cup {NoRead}] :
                         \A s \in billed : f[s] \in BillableReads(rec[s])}
           Line(f, s) == [stop |-> s, of |-> rec[s], read |-> f[s], abnormal |-> On(rec[s]) # {}]
<1>1. PICK f \in choices :
        body = [billable |-> {Line(f, s) : s \in billed}, holds |-> holds]
  BY DEF Classified
<1>2. \A s \in Stops : verdicts[s] = Verdicts(s, rec[s], s \in sk)
  OBVIOUS
<1>3. \A s \in billed : s \in Stops /\ rec[s] \in Reads /\ ~Blocked(rec[s])
  <2> SUFFICES ASSUME NEW s \in billed PROVE rec[s] \in Reads /\ ~Blocked(rec[s])
    OBVIOUS
  <2>1. s \in Stops /\ "billable" \in Verdicts(s, rec[s], s \in sk)
    BY <1>2
  <2> QED
    BY <2>1 DEF Verdicts, Records
<1>4. \A s \in billed : f[s] \in Reads
  <2> SUFFICES ASSUME NEW s \in billed PROVE f[s] \in Reads
    OBVIOUS
  <2>1. f[s] \in BillableReads(rec[s])
    BY <1>1
  <2> QED
    BY <1>3, <2>1, BillableAreReads
<1>5. \A s \in Stops : verdicts[s] \subseteq {"billable", "not_read", "skipped", "blocking_exception"}
  BY DEF Verdicts
<1>6. holds \subseteq Holds
  BY <1>5 DEF Holds
<1>7. \A s \in billed : Line(f, s) \in Lines
  BY <1>3, <1>4 DEF Lines
<1> HIDE DEF billed, holds, choices, verdicts
<1>8. body.billable = {Line(f, s) : s \in billed} /\ body.holds = holds
  BY <1>1
<1>9. body \in Bodies
  BY <1>1, <1>6, <1>7 DEF Bodies
<1>10. \A s \in billed : f[s] \in BillableReads(rec[s])
  BY <1>1 DEF choices
<1> QED
  BY <1>3, <1>8, <1>9, <1>10

\* The initial state is well typed.
LEMMA InitTyped == Init => TypeOK
  BY DEF Init, TypeOK, Records, Progress, Idle, Absent

\* Every step keeps the types.
LEMMA TypeStep == TypeOK /\ [Next]_vars => TypeOK'
<1> SUFFICES ASSUME TypeOK, [Next]_vars PROVE TypeOK'
  OBVIOUS
<1> USE DEF cycle
<1>1. ASSUME NEW e \in Reads, LandRead(e) PROVE TypeOK'
  <2>1. e.stop \in Stops
    BY BillingExportAssumption DEF BillingExportAssumption
  <2>2. record' \in Records
    BY <1>1, <2>1 DEF LandRead, TypeOK, Records
  <2>3. skipped' \subseteq Stops /\ landed' \subseteq Reads
    BY <1>1 DEF LandRead, TypeOK
  <2>4. status' \in [Exceptions -> {"absent", "open", "cleared", "escalated"}]
    BY <1>1 DEF LandRead, TypeOK
  <2> QED
    BY <1>1, <2>2, <2>3, <2>4 DEF LandRead, TypeOK
<1>2. ASSUME NEW s \in Stops, SkipStop(s) PROVE TypeOK'
  BY <1>2 DEF SkipStop, TypeOK
<1>3. ASSUME NEW x \in Exceptions, Decide(x) PROVE TypeOK'
  BY <1>3 DEF Decide, TypeOK
<1>4. ASSUME NEW h \in Requests, ReadStops(h) PROVE TypeOK'
  <2>1. [at |-> "stops", record |-> record, skipped |-> skipped] \in Progress
    BY DEF TypeOK, Progress
  <2> QED
    BY <1>4, <2>1 DEF ReadStops, TypeOK
<1>5. ASSUME NEW h \in Requests, ReadExceptions(h) PROVE TypeOK'
  <2>1. req[h].record \in Records /\ req[h].skipped \in SUBSET Stops
    BY <1>5 DEF ReadExceptions, TypeOK, Progress, Idle
  <2>2. PICK body \in Classified(req[h].record, req[h].skipped) :
          req' = [req EXCEPT ![h] = [at |-> "classified", body |-> body]]
    BY <1>5 DEF ReadExceptions
  <2>3. body \in Bodies
    BY <2>1, <2>2, ClassifiedBodies
  <2>4. [at |-> "classified", body |-> body] \in Progress
    BY <2>3 DEF Progress
  <2> QED
    BY <1>5, <2>2, <2>4 DEF ReadExceptions, TypeOK
<1>6. ASSUME NEW h \in Requests, FindPrior(h) PROVE TypeOK'
  <2>1. req[h].body \in Bodies
    BY <1>6 DEF FindPrior, TypeOK, Progress, Idle
  <2>2. PICK prior \in IF Current = {} THEN {NoExport} ELSE Current :
          req' = [req EXCEPT ![h] = [at |-> "replacing", body |-> req[h].body, prior |-> prior]]
    BY <1>6 DEF FindPrior
  <2>3. prior \in Exports \cup {NoExport}
    BY <2>2 DEF Current
  <2>4. [at |-> "replacing", body |-> req[h].body, prior |-> prior] \in Progress
    BY <2>1, <2>3 DEF Progress
  <2> QED
    BY <1>6, <2>2, <2>4 DEF FindPrior, TypeOK
<1>7. ASSUME NEW h \in Requests, Replace(h) PROVE TypeOK'
  <2> DEFINE prior == req[h].prior
  <2>1. req[h].body \in Bodies
    <3>1. req[h].at = "replacing"
      BY <1>7 DEF Replace
    <3> QED
      BY <3>1 DEF TypeOK, Progress, Idle
  <2>2. req' = [req EXCEPT ![h] = Idle] /\ Idle \in Progress
    BY <1>7 DEF Replace, Progress
  <2>3. CASE IndexAdmits(prior)
    <3>1. PICK new \in {i \in Exports : export[i] = Absent} :
            export' = [i \in Exports |->
              IF i = new
              THEN [status |-> "current", by |-> NoExport, body |-> req[h].body]
              ELSE IF i \in Superseded(prior)
              THEN [export[i] EXCEPT !.status = "superseded", !.by = new]
              ELSE export[i]]
      BY <1>7, <2>3 DEF Replace
    <3>2. [status |-> "current", by |-> NoExport, body |-> req[h].body] \in Files
      BY <2>1 DEF Files
    <3>3. \A i \in Superseded(prior) :
            [export[i] EXCEPT !.status = "superseded", !.by = new] \in Files
      <4> SUFFICES ASSUME NEW i \in Superseded(prior)
                   PROVE  [export[i] EXCEPT !.status = "superseded", !.by = new] \in Files
        OBVIOUS
      <4>1. i \in Exports /\ export[i].status = "current"
        BY DEF Superseded, Current
      <4>2. export[i] \in Files
        BY <4>1 DEF TypeOK, Absent
      <4> QED
        BY <4>2 DEF Files
    <3>4. export' \in [Exports -> {Absent} \cup Files]
      BY <3>1, <3>2, <3>3 DEF TypeOK
    <3> QED
      BY <1>7, <2>2, <3>4 DEF Replace, TypeOK
  <2>4. CASE ~IndexAdmits(prior)
    BY <1>7, <2>2, <2>4 DEF Replace, TypeOK
  <2> QED
    BY <2>3, <2>4
<1>8. CASE UNCHANGED vars
  BY <1>8 DEF vars, TypeOK
<1> QED
  BY <1>1, <1>2, <1>3, <1>4, <1>5, <1>6, <1>7, <1>8 DEF Next

\* The types hold in every reachable state, whatever the constants are.
THEOREM TypeCorrect == Spec => []TypeOK
  BY InitTyped, TypeStep, PTL DEF Spec

-----------------------------------------------------------------------------
(* One current export.                                                     *)

\* OneCurrent without the cardinality.
Succession ==
  /\ \A i, j \in Current : i = j
  /\ Stored # {} => Current # {}
  /\ \A i \in Stored \ Current : export[i].by \in Stored \ {i}

\* What Succession says is what OneCurrent says.
LEMMA SuccessionIsOneCurrent == TypeOK /\ Succession => OneCurrent
<1> SUFFICES ASSUME TypeOK, Succession PROVE OneCurrent
  OBVIOUS
<1>1. Current \subseteq Stored
  BY DEF Current, Stored, Absent
<1>2. CASE Stored = {}
  <2>1. Current = {}
    BY <1>1, <1>2
  <2> QED
    BY <1>2, <2>1, FS_EmptySet DEF OneCurrent, Succession
<1>3. CASE Stored # {}
  <2>1. PICK i : i \in Current
    BY <1>3 DEF Succession
  <2>2. Current = {i}
    BY <2>1 DEF Succession
  <2>3. Cardinality(Current) = 1
    BY <2>2, FS_Singleton
  <2> QED
    BY <1>3, <2>3 DEF OneCurrent, Succession
<1> QED
  BY <1>2, <1>3

\* What the two statements of an export's transaction do to the export runs.
LEMMA Replaced ==
  ASSUME TypeOK, NEW h \in Requests, Replace(h)
  PROVE  \/ UNCHANGED export
         \/ \E new \in Exports :
              /\ export[new] = Absent
              /\ Current \subseteq {req[h].prior}
              /\ export'[new] = [status |-> "current", by |-> NoExport, body |-> req[h].body]
              /\ \A i \in Current :
                   export'[i] = [export[i] EXCEPT !.status = "superseded", !.by = new]
              /\ \A i \in Exports \ (Current \cup {new}) : export'[i] = export[i]
<1> DEFINE prior == req[h].prior
<1>1. CASE ~IndexAdmits(prior)
  BY <1>1 DEF Replace
<1>2. CASE IndexAdmits(prior)
  <2>1. Current \subseteq {prior} /\ Superseded(prior) = Current
    BY <1>2 DEF IndexAdmits, Superseded
  <2>2. PICK new \in {i \in Exports : export[i] = Absent} :
          export' = [i \in Exports |->
            IF i = new
            THEN [status |-> "current", by |-> NoExport, body |-> req[h].body]
            ELSE IF i \in Superseded(prior)
            THEN [export[i] EXCEPT !.status = "superseded", !.by = new]
            ELSE export[i]]
    BY <1>2 DEF Replace
  <2>3. new \notin Current /\ Current \subseteq Exports
    BY DEF Current, Absent
  <2>4. export[new] = Absent /\ new \in Exports
    BY <2>2
  <2>5. export'[new] = [status |-> "current", by |-> NoExport, body |-> req[h].body]
    BY <2>2
  <2>6. \A i \in Current :
          export'[i] = [export[i] EXCEPT !.status = "superseded", !.by = new]
    BY <2>1, <2>2, <2>3
  <2>7. \A i \in Exports \ (Current \cup {new}) : export'[i] = export[i]
    BY <2>1, <2>2
  <2> QED
    BY <2>1, <2>4, <2>5, <2>6, <2>7
<1> QED
  BY <1>1, <1>2

\* The steps that leave the export runs alone: all but Replace.
LEMMA ExportsStand ==
  ASSUME [Next]_vars, ~\E h \in Requests : Replace(h)
  PROVE  UNCHANGED export
BY DEF Next, vars, LandRead, SkipStop, Decide, ReadStops, ReadExceptions, FindPrior

\* A request changes in steps of its own only.
LEMMA RequestsApart ==
  ASSUME TypeOK, [Next]_vars, NEW h \in Requests
  PROVE  req'[h] = req[h] \/ ReadStops(h) \/ ReadExceptions(h) \/ FindPrior(h) \/ Replace(h)
<1>1. ASSUME NEW g \in Requests \ {h},
             ReadStops(g) \/ ReadExceptions(g) \/ FindPrior(g) \/ Replace(g)
      PROVE  req'[h] = req[h]
  <2>1. \E q : req' = [req EXCEPT ![g] = q]
    BY <1>1 DEF ReadStops, ReadExceptions, FindPrior, Replace
  <2> QED
    BY <2>1 DEF TypeOK
<1>2. \/ UNCHANGED req
      \/ \E g \in Requests : ReadStops(g) \/ ReadExceptions(g) \/ FindPrior(g) \/ Replace(g)
  BY DEF Next, vars, LandRead, SkipStop, Decide
<1> QED
  BY <1>1, <1>2

\* Every step keeps the succession.
LEMMA SuccessionStep == TypeOK /\ TypeOK' /\ Succession /\ [Next]_vars => Succession'
<1> SUFFICES ASSUME TypeOK, TypeOK', Succession, [Next]_vars PROVE Succession'
  OBVIOUS
<1>1. CASE UNCHANGED export
  BY <1>1 DEF Succession, Current, Stored
<1>2. ASSUME NEW h \in Requests, Replace(h), ~UNCHANGED export PROVE Succession'
  <2>1. PICK new \in Exports :
          /\ export[new] = Absent
          /\ Current \subseteq {req[h].prior}
          /\ export'[new] = [status |-> "current", by |-> NoExport, body |-> req[h].body]
          /\ \A i \in Current :
               export'[i] = [export[i] EXCEPT !.status = "superseded", !.by = new]
          /\ \A i \in Exports \ (Current \cup {new}) : export'[i] = export[i]
    BY <1>2, Replaced
  <2>2. \A i \in Current : export[i] \in Files /\ i \in Exports
    BY DEF Current, TypeOK, Absent
  <2>3. \A i \in Current : export'[i].status = "superseded" /\ export'[i].by = new
    BY <2>1, <2>2 DEF Files
  <2>4. \A i \in Exports \ (Current \cup {new}) : export'[i].status # "current"
    BY <2>1 DEF Current
  <2>5. export'[new].status = "current" /\ export'[new] # Absent
    <3>1. export'[new].status = "current"
      <4>1. export'[new] = [status |-> "current", by |-> NoExport, body |-> req[h].body]
        BY <2>1
      <4> QED
        BY <4>1
    <3>2. Absent.status # "current"
      BY DEF Absent
    <3> QED
      BY <3>1, <3>2
  <2>6. Current' = {new}
    BY <2>3, <2>4, <2>5 DEF Current
  <2>7. Stored' = Stored \cup {new}
    <3>1. \A i \in Current : export'[i] # Absent /\ export[i] # Absent
      BY <2>2, <2>3 DEF Absent, Files
    <3> QED
      BY <2>1, <2>2, <2>5, <3>1 DEF Stored
  <2>8. new \notin Stored
    BY <2>1 DEF Stored
  <2>9. ASSUME NEW i \in Stored' \ Current' PROVE export'[i].by \in Stored' \ {i}
    <3>1. i \in Stored /\ i # new
      BY <2>6, <2>7, <2>9
    <3>2. CASE i \in Current
      BY <2>3, <2>7, <3>1, <3>2
    <3>3. CASE i \notin Current
      BY <2>1, <2>7, <3>1, <3>3 DEF Succession, Stored
    <3> QED
      BY <3>2, <3>3
  <2> QED
    BY <2>6, <2>9 DEF Succession
<1> QED
  BY <1>1, <1>2, ExportsStand

\* However many requests overlap, one export is current once there is one.
THEOREM OneIsCurrent == Spec => []OneCurrent
<1>1. Init => Succession
  BY DEF Init, Succession, Current, Stored, Absent
<1>2. Spec => []Succession
  BY <1>1, TypeCorrect, SuccessionStep, PTL DEF Spec
<1> QED
  BY <1>2, TypeCorrect, SuccessionIsOneCurrent, PTL

\* An export is superseded once, by the export made in the same step, and what
\* was sent stays as it was.
THEOREM SnapshotsHold == Spec => SnapshotsStand
<1> DEFINE Stands(i) ==
      export'[i] # export[i] =>
        /\ i \in Current
        /\ export'[i].status = "superseded" /\ export'[i].body = export[i].body
        /\ export[export'[i].by] = Absent /\ export'[export'[i].by].status = "current"
<1>1. ASSUME TypeOK, [Next]_vars PROVE [\A i \in Stored : Stands(i)]_vars
  <2> SUFFICES ASSUME NEW i \in Stored, export'[i] # export[i] PROVE Stands(i)
    OBVIOUS
  <2>1. PICK h \in Requests : Replace(h)
    BY <1>1, ExportsStand
  <2>2. PICK new \in Exports :
          /\ export[new] = Absent
          /\ Current \subseteq {req[h].prior}
          /\ export'[new] = [status |-> "current", by |-> NoExport, body |-> req[h].body]
          /\ \A j \in Current :
               export'[j] = [export[j] EXCEPT !.status = "superseded", !.by = new]
          /\ \A j \in Exports \ (Current \cup {new}) : export'[j] = export[j]
    BY <1>1, <2>1, Replaced
  <2>3. i \in Current
    BY <2>2 DEF Stored
  <2>4. export[i] \in Files
    BY <1>1, <2>3 DEF Current, TypeOK, Absent
  <2>5. /\ export'[i].status = "superseded" /\ export'[i].body = export[i].body
        /\ export'[i].by = new
    BY <2>2, <2>3, <2>4 DEF Files
  <2>6. export'[new].status = "current"
    <3>1. export'[new] = [status |-> "current", by |-> NoExport, body |-> req[h].body]
      BY <2>2
    <3> QED
      BY <3>1
  <2> QED
    BY <2>2, <2>3, <2>5, <2>6
<1> QED
  BY <1>1, TypeCorrect, PTL DEF Spec, SnapshotsStand

-----------------------------------------------------------------------------
(* Nothing blocked is billed.                                              *)

\* The reads of record that were read have landed.
Known(rec, stored) == \A s \in Stops : rec[s] # NoRead => rec[s] \in stored

\* What a body bills has landed, and its blocking exceptions are cleared.
Clear(body, stored, found) ==
  \A l \in body.billable :
    /\ l.of \in stored
    /\ \A x \in Exceptions : x.read = l.of /\ x.kind \in Blocking => found[x] = "cleared"

\* The same of every body on its way to a file; a read lands with its exceptions.
Clearance ==
  /\ Known(record, landed)
  /\ \A x \in Exceptions : x.read \in landed => status[x] # "absent"
  /\ \A h \in Requests :
       /\ req[h].at = "stops" => Known(req[h].record, landed)
       /\ req[h].at \in {"classified", "replacing"} => Clear(req[h].body, landed, status)
  /\ \A i \in Stored : Clear(export[i].body, landed, status)

\* A body that is clear stays clear: its reads have landed and cleared exceptions
\* are not reopened.
LEMMA ClearStays ==
  ASSUME TypeOK, [Next]_vars, NEW body \in Bodies, Clear(body, landed, status)
  PROVE  Clear(body, landed', status')
<1> SUFFICES ASSUME NEW l \in body.billable
             PROVE  /\ l.of \in landed'
                    /\ \A x \in Exceptions :
                         x.read = l.of /\ x.kind \in Blocking => status'[x] = "cleared"
  BY DEF Clear
<1>1. /\ l.of \in landed
      /\ \A x \in Exceptions : x.read = l.of /\ x.kind \in Blocking => status[x] = "cleared"
  BY DEF Clear
<1>2. ASSUME NEW e \in Reads, LandRead(e)
      PROVE  l.of \in landed' /\ \A x \in Exceptions : x.read = l.of => status'[x] = status[x]
  BY <1>1, <1>2 DEF LandRead
<1>3. ASSUME NEW x \in Exceptions, Decide(x)
      PROVE  landed' = landed /\ \A y \in Exceptions : status[y] = "cleared" => status'[y] = "cleared"
  BY <1>3 DEF Decide, TypeOK
<1>4. CASE UNCHANGED <<landed, status>>
  BY <1>1, <1>4
<1>5. (\E e \in Reads : LandRead(e)) \/ (\E x \in Exceptions : Decide(x)) \/ UNCHANGED <<landed, status>>
  BY DEF Next, vars, cycle, SkipStop, ReadStops, ReadExceptions, FindPrior, Replace
<1> QED
  BY <1>1, <1>2, <1>3, <1>4, <1>5

\* Reads that have landed stay landed.
LEMMA KnownStays ==
  ASSUME [Next]_vars, NEW rec, Known(rec, landed)
  PROVE  Known(rec, landed')
<1>1. landed \subseteq landed'
  BY DEF Next, vars, cycle, LandRead, SkipStop, Decide, ReadStops, ReadExceptions, FindPrior, Replace
<1> QED
  BY <1>1 DEF Known

\* Every step keeps the clearance.
LEMMA ClearanceStep == TypeOK /\ TypeOK' /\ Clearance /\ [Next]_vars => Clearance'
<1> SUFFICES ASSUME TypeOK, TypeOK', Clearance, [Next]_vars PROVE Clearance'
  OBVIOUS
<1>1. Known(record', landed')
  <2>1. ASSUME NEW e \in Reads, LandRead(e) PROVE Known(record', landed')
    <3>1. \A s \in Stops : record'[s] \in {record[s], e}
      BY <2>1 DEF LandRead, TypeOK, Records
    <3>2. landed' = landed \cup {e}
      BY <2>1 DEF LandRead
    <3> QED
      BY <3>1, <3>2 DEF Clearance, Known
  <2>2. CASE UNCHANGED <<record, landed>>
    BY <2>2 DEF Clearance, Known
  <2>3. (\E e \in Reads : LandRead(e)) \/ UNCHANGED <<record, landed>>
    BY DEF Next, vars, cycle, SkipStop, Decide, ReadStops, ReadExceptions, FindPrior, Replace
  <2> QED
    BY <2>1, <2>2, <2>3
<1>2. \A x \in Exceptions : x.read \in landed' => status'[x] # "absent"
  <2>1. ASSUME NEW e \in Reads, LandRead(e)
        PROVE  \A x \in Exceptions : x.read \in landed' => status'[x] # "absent"
    BY <2>1 DEF LandRead, Clearance
  <2>2. ASSUME NEW y \in Exceptions, Decide(y)
        PROVE  \A x \in Exceptions : x.read \in landed' => status'[x] # "absent"
    BY <2>2 DEF Decide, Clearance, TypeOK
  <2>3. CASE UNCHANGED <<landed, status>>
    BY <2>3 DEF Clearance
  <2>4. (\E e \in Reads : LandRead(e)) \/ (\E x \in Exceptions : Decide(x)) \/ UNCHANGED <<landed, status>>
    BY DEF Next, vars, cycle, SkipStop, ReadStops, ReadExceptions, FindPrior, Replace
  <2> QED
    BY <2>1, <2>2, <2>3, <2>4
<1>3. ASSUME NEW h \in Requests
      PROVE  /\ req'[h].at = "stops" => Known(req'[h].record, landed')
             /\ req'[h].at \in {"classified", "replacing"} => Clear(req'[h].body, landed', status')
  <2>1. CASE req'[h] = req[h]
    <3>1. req[h].at \in {"classified", "replacing"} => req[h].body \in Bodies
      BY DEF TypeOK, Progress, Idle
    <3> QED
      BY <2>1, <3>1, ClearStays, KnownStays DEF Clearance
  <2>2. CASE ReadStops(h)
    <3>1. req'[h] = [at |-> "stops", record |-> record, skipped |-> skipped] /\ landed' = landed
      BY <2>2 DEF ReadStops, cycle, TypeOK
    <3> QED
      BY <3>1 DEF Clearance, Known
  <2>3. CASE ReadExceptions(h)
    <3>1. req[h].record \in Records /\ req[h].skipped \in SUBSET Stops /\ Known(req[h].record, landed)
      BY <2>3 DEF ReadExceptions, TypeOK, Progress, Idle, Clearance
    <3>2. PICK body \in Classified(req[h].record, req[h].skipped) :
            req'[h] = [at |-> "classified", body |-> body]
      BY <2>3 DEF ReadExceptions, TypeOK
    <3>3. /\ body \in Bodies
          /\ \A l \in body.billable :
               l.stop \in Stops /\ l.of = req[h].record[l.stop] /\ l.of \in Reads /\ ~Blocked(l.of)
      BY <3>1, <3>2, ClassifiedBodies
    <3>4. Clear(body, landed, status)
      <4> SUFFICES ASSUME NEW l \in body.billable
                   PROVE  /\ l.of \in landed
                          /\ \A x \in Exceptions :
                               x.read = l.of /\ x.kind \in Blocking => status[x] = "cleared"
        BY DEF Clear
      <4>1. l.of \in landed
        BY <3>1, <3>3, BillingExportAssumption DEF Known, BillingExportAssumption
      <4>2. \A x \in Exceptions : x.read = l.of => x \in On(l.of)
        BY <4>1 DEF Clearance, On
      <4> QED
        BY <3>3, <4>1, <4>2 DEF Blocked, CLEARED
    <3>5. Clear(body, landed', status')
      BY <3>3, <3>4, ClearStays
    <3> QED
      BY <3>2, <3>5
  <2>4. CASE FindPrior(h)
    <3>1. req[h].at = "classified" /\ req'[h].at = "replacing" /\ req'[h].body = req[h].body
      BY <2>4 DEF FindPrior, TypeOK
    <3>2. req[h].body \in Bodies /\ Clear(req[h].body, landed, status)
      BY <3>1 DEF Clearance, TypeOK, Progress, Idle
    <3> QED
      BY <3>1, <3>2, ClearStays
  <2>5. CASE Replace(h)
    <3>1. req'[h] = Idle
      BY <2>5 DEF Replace, TypeOK
    <3> QED
      BY <3>1 DEF Idle
  <2>6. req'[h] = req[h] \/ ReadStops(h) \/ ReadExceptions(h) \/ FindPrior(h) \/ Replace(h)
    BY RequestsApart
  <2> QED
    BY <2>1, <2>2, <2>3, <2>4, <2>5, <2>6
<1>4. ASSUME NEW i \in Stored' PROVE Clear(export'[i].body, landed', status')
  <2>1. CASE i \in Stored /\ export'[i].body = export[i].body
    <3>1. export[i].body \in Bodies
      BY <2>1 DEF Stored, TypeOK, Files
    <3> QED
      BY <2>1, <3>1, ClearStays DEF Clearance
  <2>2. ASSUME NEW h \in Requests, Replace(h), ~UNCHANGED export PROVE Clear(export'[i].body, landed', status')
    <3>1. PICK new \in Exports :
            /\ export[new] = Absent
            /\ Current \subseteq {req[h].prior}
            /\ export'[new] = [status |-> "current", by |-> NoExport, body |-> req[h].body]
            /\ \A j \in Current :
                 export'[j] = [export[j] EXCEPT !.status = "superseded", !.by = new]
            /\ \A j \in Exports \ (Current \cup {new}) : export'[j] = export[j]
      BY <2>2, Replaced
    <3>2. CASE i = new
      <4>1. export'[i].body = req[h].body
        <5>1. export'[i] = [status |-> "current", by |-> NoExport, body |-> req[h].body]
          BY <3>1, <3>2
        <5> QED
          BY <5>1
      <4>2. req[h].at = "replacing"
        BY <2>2 DEF Replace
      <4>3. req[h].body \in Bodies /\ Clear(req[h].body, landed, status)
        BY <4>2 DEF Clearance, TypeOK, Progress, Idle
      <4> QED
        BY <4>1, <4>3, ClearStays
    <3>3. CASE i \in Current
      <4>1. export[i] \in Files /\ i \in Stored
        BY <3>3 DEF Current, TypeOK, Absent, Stored
      <4>2. export'[i].body = export[i].body
        BY <3>1, <3>3, <4>1 DEF Files
      <4> QED
        BY <2>1, <4>1, <4>2
    <3>4. CASE i \in Exports \ (Current \cup {new})
      BY <2>1, <3>1, <3>4 DEF Stored
    <3> QED
      BY <3>2, <3>3, <3>4 DEF Stored
  <2>3. CASE UNCHANGED export
    BY <2>1, <2>3 DEF Stored
  <2> QED
    BY <2>2, <2>3, ExportsStand
<1> QED
  BY <1>1, <1>2, <1>3, <1>4 DEF Clearance, Known

\* No file bills a read of record with a blocking exception nobody has cleared.
THEOREM NothingBlockedIsBilled == Spec => []BlockedNeverBilled
<1>1. Init => Clearance
  BY DEF Init, Clearance, Known, Stored, Absent, Idle, Exceptions
<1>2. Spec => []Clearance
  BY <1>1, TypeCorrect, ClearanceStep, PTL DEF Spec
<1>3. Clearance => BlockedNeverBilled
  BY DEF Clearance, Clear, BlockedNeverBilled
<1> QED
  BY <1>2, <1>3, PTL
-----------------------------------------------------------------------------
(* A certified read bills while its stop has not been read again.          *)

\* A supervisor clears only exceptions of the read of record of their stop: no
\* other reading has replaced it since.
DecidedOnRecord ==
  \A x \in Exceptions :
    status[x] = "open" /\ status'[x] = "cleared" => record[x.read.stop] = x.read

\* An export made now bills for the stop of x what x was closed with.
Bills(x) ==
  \A body \in Classified(record, skipped) :
    \A l \in body.billable : l.stop = x.read.stop => l.read = certified[x]

\* It does if x is closed with a read and is the only exception on the read of
\* record of its stop.
LEMMA OnlyOneBills ==
  TypeOK => \A x \in Exceptions :
    /\ record[x.read.stop] = x.read
    /\ On(x.read) = {x} /\ certified[x] # NoRead
    => Bills(x)
<1> SUFFICES ASSUME TypeOK, NEW x \in Exceptions,
                    record[x.read.stop] = x.read, On(x.read) = {x}, certified[x] # NoRead,
                    NEW body \in Classified(record, skipped), NEW l \in body.billable,
                    l.stop = x.read.stop
             PROVE  l.read = certified[x]
  BY DEF Bills
<1>1. record \in Records /\ skipped \in SUBSET Stops
  BY DEF TypeOK
<1>2. l.of = x.read /\ l.read \in BillableReads(l.of)
  BY <1>1, ClassifiedBodies
<1>3. {certified[y] : y \in On(x.read)} = {certified[x]}
  OBVIOUS
<1>4. BillableReads(x.read) = {certified[x]}
  BY <1>3 DEF BillableReads
<1> QED
  BY <1>2, <1>4

\* What is written of a certified read (exceptions.service.ts:440-442) is so of
\* every decision on the read of record: only a stop that has been read again
\* before the decision bills something else.
THEOREM CertifiedReadBillsUnlessReadAgain ==
  Spec /\ [][DecidedOnRecord]_vars => CertifiedReadBills
<1> DEFINE Only(x) == \A y \in Exceptions : y.read.stop = x.read.stop /\ status[y] # "absent" => y = x
           Cleared(x) == status[x] = "open" /\ status'[x] = "cleared"
<1>1. TypeOK' => (\A x \in Exceptions :
                    /\ record[x.read.stop] = x.read
                    /\ On(x.read) = {x} /\ certified[x] # NoRead
                    => Bills(x))'
  BY OnlyOneBills, PTL
<1>2. ASSUME TypeOK, TypeOK', [Next]_vars, [DecidedOnRecord]_vars,
             NEW x \in Exceptions, Cleared(x), Only(x)
      PROVE  Bills(x)'
  <2>1. Decide(x)
    <3>1. status' # status
      BY <1>2
    <3>2. \A e \in Reads : LandRead(e) => status'[x] # "cleared"
      BY <1>2 DEF LandRead
    <3>3. \A y \in Exceptions : Decide(y) => y = x
      BY <1>2 DEF Decide, TypeOK
    <3> QED
      BY <1>2, <3>1, <3>2, <3>3
         DEF Next, vars, cycle, SkipStop, ReadStops, ReadExceptions, FindPrior, Replace
  <2>2. record' = record /\ status' = [status EXCEPT ![x] = "cleared"]
    BY <1>2, <2>1 DEF Decide, TypeOK
  <2>3. PICK c \in landed : certified' = [certified EXCEPT ![x] = c]
    BY <1>2, <2>1 DEF Decide, TypeOK
  <2>4. certified'[x] # NoRead
    BY <1>2, <2>3, BillingExportAssumption DEF TypeOK, BillingExportAssumption
  <2>5. record'[x.read.stop] = x.read
    BY <1>2, <2>2 DEF DecidedOnRecord, vars
  <2>6. On(x.read)' = {x}
    BY <1>2, <2>2 DEF On, TypeOK
  <2> QED
    BY <1>1, <1>2, <2>4, <2>5, <2>6
<1>3. TypeOK /\ TypeOK' /\ [Next]_vars /\ [DecidedOnRecord]_vars
      => [\A x \in Exceptions : Cleared(x) /\ Only(x) => Bills(x)']_vars
  BY <1>2
<1>4. (\A x \in Exceptions : Cleared(x) /\ Only(x) => Bills(x)')
      <=> \A x \in Exceptions :
            /\ status[x] = "open" /\ status'[x] = "cleared"
            /\ \A y \in Exceptions : y.read.stop = x.read.stop /\ status[y] # "absent" => y = x
            => (\A body \in Classified(record, skipped) :
                  \A l \in body.billable : l.stop = x.read.stop => l.read = certified[x])'
  BY DEF Bills
<1> QED
  BY <1>3, <1>4, TypeCorrect, PTL DEF Spec, CertifiedReadBills
-----------------------------------------------------------------------------
(* Every stop is in a file once.                                           *)

\* A body bills or holds each stop of the cycle, and does so once.
Once(body) ==
  \A s \in Stops :
    Cardinality({l \in body.billable : l.stop = s})
      + Cardinality({d \in body.holds : d.stop = s}) = 1

\* A classification does: it gives each stop one verdict.
LEMMA ClassifiedOnce ==
  ASSUME TypeOK, NEW rec \in Records, NEW sk \in SUBSET Stops,
         NEW body \in Classified(rec, sk)
  PROVE  Once(body)
<1> DEFINE verdicts == [s \in Stops |-> Verdicts(s, rec[s], s \in sk)]
           billed == {s \in Stops : "billable" \in verdicts[s]}
           holds == UNION {{[stop |-> s, reason |-> v] : v \in verdicts[s] \ {"billable"}} :
                             s \in Stops}
           choices == {f \in [billed -> Reads \cup {NoRead}] :
                         \A s \in billed : f[s] \in BillableReads(rec[s])}
           Line(f, s) == [stop |-> s, of |-> rec[s], read |-> f[s], abnormal |-> On(rec[s]) # {}]
<1>1. PICK f \in choices :
        body = [billable |-> {Line(f, s) : s \in billed}, holds |-> holds]
  BY DEF Classified
<1>2. SUFFICES ASSUME NEW s \in Stops
               PROVE  Cardinality({l \in body.billable : l.stop = s})
                        + Cardinality({d \in body.holds : d.stop = s}) = 1
  BY DEF Once
<1>3. PICK v : verdicts[s] = {v}
  BY DEF Verdicts
<1>4. \A t \in billed : Line(f, t).stop = t
  OBVIOUS
<1>5. \A d \in holds : \E t \in Stops : \E w \in verdicts[t] \ {"billable"} :
        d = [stop |-> t, reason |-> w]
  OBVIOUS
<1>6. \A w \in verdicts[s] \ {"billable"} : [stop |-> s, reason |-> w] \in holds
  OBVIOUS
<1>7. s \in billed <=> v = "billable"
  BY <1>3
<1>8. body.billable = {Line(f, t) : t \in billed} /\ body.holds = holds
  BY <1>1
<1> HIDE DEF verdicts, billed, holds, choices, Line
<1>9. CASE v = "billable"
  <2>1. {l \in body.billable : l.stop = s} = {Line(f, s)}
    BY <1>4, <1>7, <1>8, <1>9
  <2>2. {d \in body.holds : d.stop = s} = {}
    BY <1>3, <1>5, <1>8, <1>9
  <2>3. Cardinality({l \in body.billable : l.stop = s}) = 1
    BY <2>1, FS_Singleton
  <2>4. Cardinality({d \in body.holds : d.stop = s}) = 0
    BY <2>2, FS_EmptySet
  <2> QED
    BY <2>3, <2>4
<1>10. CASE v # "billable"
  <2>1. {l \in body.billable : l.stop = s} = {}
    BY <1>4, <1>7, <1>8, <1>10
  <2>2. {d \in body.holds : d.stop = s} = {[stop |-> s, reason |-> v]}
    <3>1. [stop |-> s, reason |-> v] \in holds
      BY <1>3, <1>6, <1>10
    <3>2. \A d \in holds : d.stop = s => d = [stop |-> s, reason |-> v]
      BY <1>3, <1>5
    <3> QED
      BY <1>8, <3>1, <3>2
  <2>3. Cardinality({l \in body.billable : l.stop = s}) = 0
    BY <2>1, FS_EmptySet
  <2>4. Cardinality({d \in body.holds : d.stop = s}) = 1
    BY <2>2, FS_Singleton
  <2> QED
    BY <2>3, <2>4
<1> QED
  BY <1>9, <1>10

\* So does every body on its way to a file, and every file.
AllOnce ==
  /\ \A h \in Requests : req[h].at \in {"classified", "replacing"} => Once(req[h].body)
  /\ \A i \in Stored : Once(export[i].body)

\* Every step keeps it so.
LEMMA AllOnceStep == TypeOK /\ AllOnce /\ [Next]_vars => AllOnce'
<1> SUFFICES ASSUME TypeOK, AllOnce, [Next]_vars
             PROVE  /\ \A h \in Requests :
                         req'[h].at \in {"classified", "replacing"} => Once(req'[h].body)
                    /\ \A i \in Stored' : Once(export'[i].body)
  BY DEF AllOnce, Once
<1>1. ASSUME NEW h \in Requests, req'[h].at \in {"classified", "replacing"}
      PROVE  Once(req'[h].body)
  <2>1. CASE req'[h] = req[h]
    BY <1>1, <2>1 DEF AllOnce
  <2>2. CASE ReadStops(h) \/ Replace(h)
    <3>1. ReadStops(h) => req'[h].at = "stops"
      BY DEF ReadStops, TypeOK
    <3>2. Replace(h) => req'[h] = Idle
      BY DEF Replace, TypeOK
    <3> QED
      BY <1>1, <2>2, <3>1, <3>2 DEF Idle
  <2>3. CASE ReadExceptions(h)
    <3>1. req[h].record \in Records /\ req[h].skipped \in SUBSET Stops
      BY <2>3 DEF ReadExceptions, TypeOK, Progress, Idle
    <3>2. PICK body \in Classified(req[h].record, req[h].skipped) :
            req'[h] = [at |-> "classified", body |-> body]
      BY <2>3 DEF ReadExceptions, TypeOK
    <3> QED
      BY <3>1, <3>2, ClassifiedOnce
  <2>4. CASE FindPrior(h)
    <3>1. req[h].at = "classified" /\ req'[h].body = req[h].body
      BY <2>4 DEF FindPrior, TypeOK
    <3> QED
      BY <3>1 DEF AllOnce
  <2>5. req'[h] = req[h] \/ ReadStops(h) \/ ReadExceptions(h) \/ FindPrior(h) \/ Replace(h)
    BY RequestsApart
  <2> QED
    BY <2>1, <2>2, <2>3, <2>4, <2>5
<1>2. ASSUME NEW i \in Stored' PROVE Once(export'[i].body)
  <2>1. CASE UNCHANGED export
    BY <1>2, <2>1 DEF AllOnce, Stored
  <2>2. ASSUME NEW h \in Requests, Replace(h), ~UNCHANGED export PROVE Once(export'[i].body)
    <3>1. PICK new \in Exports :
            /\ export[new] = Absent
            /\ Current \subseteq {req[h].prior}
            /\ export'[new] = [status |-> "current", by |-> NoExport, body |-> req[h].body]
            /\ \A j \in Current :
                 export'[j] = [export[j] EXCEPT !.status = "superseded", !.by = new]
            /\ \A j \in Exports \ (Current \cup {new}) : export'[j] = export[j]
      BY <2>2, Replaced
    <3>2. CASE i = new
      <4>1. req[h].at = "replacing"
        BY <2>2 DEF Replace
      <4>2. export'[i] = [status |-> "current", by |-> NoExport, body |-> req[h].body]
        BY <3>1, <3>2
      <4> QED
        BY <4>1, <4>2 DEF AllOnce
    <3>3. CASE i \in Current
      <4>1. export[i] \in Files /\ i \in Stored
        BY <3>3 DEF Current, TypeOK, Absent, Stored
      <4>2. export'[i].body = export[i].body
        BY <3>1, <3>3, <4>1 DEF Files
      <4> QED
        BY <4>1, <4>2 DEF AllOnce
    <3>4. CASE i \in Exports \ (Current \cup {new})
      BY <1>2, <3>1, <3>4 DEF Stored, AllOnce
    <3> QED
      BY <1>2, <3>2, <3>3, <3>4 DEF Stored
  <2> QED
    BY <2>1, <2>2, ExportsStand
<1> QED
  BY <1>1, <1>2

\* Each stop of the cycle is in a file exactly once, however many exceptions its
\* read has (exports.service.ts:181-188) and whatever changed while it was made.
THEOREM EachStopInFileOnce == Spec => []EachStopOnce
<1>1. Init => AllOnce
  BY DEF Init, AllOnce, Stored, Absent, Idle
<1>2. Spec => []AllOnce
  BY <1>1, TypeCorrect, AllOnceStep, PTL DEF Spec
<1>3. AllOnce => EachStopOnce
  BY DEF AllOnce, Once, EachStopOnce
<1> QED
  BY <1>2, <1>3, PTL
=============================================================================

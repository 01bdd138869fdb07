--------------------------- MODULE RunStopsProofs ---------------------------
(***************************************************************************)
(* What holds of RunStops for any stops, runs, readers and readings and    *)
(* any number of requests served at once, dying or not.                    *)
(***************************************************************************)
EXTENDS RunStops, TLAPS

Reading == {"checked", "written", "counted"}

\* What a request is at each of its steps.
LEMMA RequestStates ==
  ASSUME TypeOK, NEW h \in Requests
  PROVE  /\ req[h].at \in Reading => req[h] \in ReadRequests
         /\ req[h].at \in {"skipping", "flagging", "closing"} => req[h] \in SkipRequests
         /\ req[h].at = "reassigning" => req[h] \in ReassignRequests
         /\ req[h].at = "splitting" => req[h] \in SplitRequests
BY DEF TypeOK, Idle, Reading, ReadRequests, SkipRequests, AssignRequests, ReassignRequests,
       SplitRequests

\* The steps of request h.
Own(h) ==
  \/ \E e \in Reads : CheckRead(h, e)
  \/ WriteRead(h) \/ CloseRun(h) \/ CommitRead(h)
  \/ \E r \in Runs, s \in Stops : CheckSkip(h, r, s)
  \/ SkipStop(h) \/ RaiseSkipException(h) \/ CloseIfComplete(h)
  \/ \E to \in Readers : AssignRun(h, to)
  \/ PlaceStops(h)
  \/ \E r \in Runs, to \in Owners : StartReassign(h, r, to)
  \/ Reassign(h)
  \/ \E r, new \in Runs, S \in SUBSET Stops, to \in Readers : CheckSplit(h, r, S, to, new)
  \/ Split(h) \/ Fail(h)

\* A request changes in its own steps only.
LEMMA OthersStand ==
  ASSUME TypeOK, [Next]_vars, NEW h \in Requests
  PROVE  req'[h] = req[h] \/ Own(h)
<1>1. ASSUME NEW g \in Requests, Own(g), g # h PROVE req'[h] = req[h]
  <2>1. \E q : req' = [req EXCEPT ![g] = q]
    BY <1>1 DEF Own, CheckRead, WriteRead, CloseRun, CommitRead, CheckSkip, SkipStop,
                RaiseSkipException, CloseIfComplete, AssignRun, PlaceStops, StartReassign,
                Reassign, CheckSplit, Split, Fail, Finish, Become
  <2> QED
    BY <1>1, <2>1 DEF TypeOK
<1>2. ASSUME NEW s \in Stops, AnswerSkip(s) PROVE req'[h] = req[h]
  BY <1>2 DEF AnswerSkip
<1>3. CASE UNCHANGED vars
  BY <1>3 DEF vars
<1> QED
  BY <1>1, <1>2, <1>3 DEF Next, Own

\* The steps that change runs, stops or what is stored.
LEMMA Effects ==
  ASSUME [Next]_vars
  PROVE  \/ UNCHANGED <<run, stop, stored>>
         \/ \E h \in Requests :
              \/ CommitRead(h) \/ SkipStop(h) \/ CloseIfComplete(h)
              \/ \E to \in Readers : AssignRun(h, to)
              \/ PlaceStops(h) \/ Reassign(h) \/ Split(h)
<1>1. ASSUME NEW h \in Requests,
             \/ \E e \in Reads : CheckRead(h, e)
             \/ WriteRead(h) \/ CloseRun(h) \/ RaiseSkipException(h) \/ Fail(h)
             \/ \E r \in Runs, s \in Stops : CheckSkip(h, r, s)
             \/ \E r \in Runs, to \in Owners : StartReassign(h, r, to)
             \/ \E r, new \in Runs, S \in SUBSET Stops, to \in Readers : CheckSplit(h, r, S, to, new)
      PROVE  UNCHANGED <<run, stop, stored>>
  BY <1>1 DEF CheckRead, WriteRead, CloseRun, RaiseSkipException, Fail, CheckSkip,
              StartReassign, CheckSplit
<1>2. ASSUME NEW s \in Stops, AnswerSkip(s) PROVE UNCHANGED <<run, stop, stored>>
  BY <1>2 DEF AnswerSkip
<1>3. CASE UNCHANGED vars
  BY <1>3 DEF vars
<1> QED
  BY <1>1, <1>2, <1>3 DEF Next

\* A split that finds all it was asked to move.
Moves(h) ==
  /\ Split(h)
  /\ req[h].moving \subseteq Pending(req[h].run)
  /\ stop' = [s \in Stops |->
                IF s \in req[h].moving THEN [stop[s] EXCEPT !.run = req[h].new] ELSE stop[s]]
  /\ run' = [run EXCEPT ![req[h].new] = Carved(req[h].new, req[h].to)]

\* A split moves everything or nothing.
LEMMA SplitMoves ==
  ASSUME NEW h \in Requests, Split(h)
  PROVE  UNCHANGED <<run, stop, stored>> \/ (Moves(h) /\ UNCHANGED stored)
<1>1. CASE Movable(req[h].run, req[h].moving) = req[h].moving
  BY <1>1 DEF Split, Moves, Movable
<1>2. CASE Movable(req[h].run, req[h].moving) # req[h].moving
  BY <1>2 DEF Split
<1> QED
  BY <1>1, <1>2

\* How a stop may change: it is read for good, never pending again, moves only
\* when it is placed or split off, and gets a record only when a read commits.
LEMMA StopsAfter ==
  ASSUME TypeOK, [Next]_vars, NEW s \in Stops
  PROVE  /\ stop[s].status = "read" => stop'[s].status = "read"
         /\ stop'[s].status = "pending" => stop[s].status = "pending"
         /\ \/ stop'[s].run = stop[s].run
            \/ stop'[s].run = AssignedRun /\ \E h \in Requests : PlaceStops(h)
            \/ \E h \in Requests : Moves(h) /\ s \in req[h].moving /\ stop'[s].run = req[h].new
         /\ \/ stop'[s].record = stop[s].record
            \/ \E h \in Requests : CommitRead(h) /\ req[h].won /\ req[h].ev.stop = s /\ stop'[s].record = req[h].ev
<1> DEFINE Goal ==
      /\ stop[s].status = "read" => stop'[s].status = "read"
      /\ stop'[s].status = "pending" => stop[s].status = "pending"
      /\ \/ stop'[s].run = stop[s].run
         \/ stop'[s].run = AssignedRun /\ \E h \in Requests : PlaceStops(h)
         \/ \E h \in Requests : Moves(h) /\ s \in req[h].moving /\ stop'[s].run = req[h].new
      /\ \/ stop'[s].record = stop[s].record
         \/ \E h \in Requests : CommitRead(h) /\ req[h].won /\ req[h].ev.stop = s /\ stop'[s].record = req[h].ev
<1>1. CASE stop' = stop
  BY <1>1
<1>2. ASSUME NEW h \in Requests, CommitRead(h) PROVE Goal
  <2>1. CASE req[h].won /\ req[h].ev.stop = s
    <3>1. stop'[s] = [stop[s] EXCEPT !.status = "read", !.record = req[h].ev]
      BY <1>2, <2>1 DEF CommitRead, TypeOK
    <3>2. /\ stop'[s].status = "read" /\ stop'[s].run = stop[s].run
          /\ stop'[s].record = req[h].ev
      BY <3>1 DEF TypeOK
    <3> QED
      BY <1>2, <2>1, <3>2
  <2>2. CASE ~(req[h].won /\ req[h].ev.stop = s)
    <3>1. stop'[s] = stop[s]
      BY <1>2, <2>2 DEF CommitRead, TypeOK
    <3> QED
      BY <3>1
  <2> QED
    BY <2>1, <2>2
<1>3. ASSUME NEW h \in Requests, SkipStop(h) PROVE Goal
  <2>1. CASE stop[s].status = "pending" /\ stop' = [stop EXCEPT ![s].status = "skipped"]
    <3>1. stop'[s].status = "skipped" /\ stop'[s].run = stop[s].run /\ stop'[s].record = stop[s].record
      BY <2>1 DEF TypeOK
    <3> QED
      BY <2>1, <3>1
  <2>2. CASE stop'[s] = stop[s]
    BY <2>2
  <2>3. \/ stop' = stop
        \/ stop[req[h].stop].status = "pending" /\ stop' = [stop EXCEPT ![req[h].stop].status = "skipped"]
    BY <1>3 DEF SkipStop
  <2> QED
    BY <2>1, <2>2, <2>3 DEF TypeOK
<1>4. ASSUME NEW h \in Requests, PlaceStops(h) PROVE Goal
  <2>1. stop'[s] = [stop[s] EXCEPT !.run = AssignedRun]
    BY <1>4 DEF PlaceStops
  <2>2. /\ stop'[s].run = AssignedRun /\ stop'[s].status = stop[s].status
        /\ stop'[s].record = stop[s].record
    BY <2>1 DEF TypeOK
  <2> QED
    BY <1>4, <2>2
<1>5. ASSUME NEW h \in Requests, Moves(h) PROVE Goal
  <2>1. CASE s \in req[h].moving
    <3>1. stop'[s] = [stop[s] EXCEPT !.run = req[h].new]
      BY <1>5, <2>1 DEF Moves
    <3>2. /\ stop'[s].run = req[h].new /\ stop'[s].status = stop[s].status
          /\ stop'[s].record = stop[s].record
      BY <3>1 DEF TypeOK
    <3> QED
      BY <1>5, <2>1, <3>2
  <2>2. CASE s \notin req[h].moving
    <3>1. stop'[s] = stop[s]
      BY <1>5, <2>2 DEF Moves
    <3> QED
      BY <3>1
  <2> QED
    BY <2>1, <2>2
<1>6. ASSUME NEW h \in Requests,
             CloseIfComplete(h) \/ Reassign(h) \/ \E to \in Readers : AssignRun(h, to)
      PROVE  stop' = stop
  BY <1>6 DEF CloseIfComplete, Reassign, AssignRun
<1> QED
  BY <1>1, <1>2, <1>3, <1>4, <1>5, <1>6, Effects, SplitMoves

\* How a run may change: it is assigned or carved out, then open until it is closed
\* by the commit of a read or after a skip.
LEMMA RunsAfter ==
  ASSUME TypeOK, [Next]_vars, NEW r \in Runs
  PROVE  \/ run'[r].status = run[r].status
         \/ /\ r = AssignedRun /\ run[r].status = "absent" /\ run'[r].status = "open"
            /\ \E h \in Requests : \E to \in Readers : AssignRun(h, to)
         \/ \E h \in Requests : Moves(h) /\ r = req[h].new /\ run'[r].status = "open"
         \/ /\ run'[r].status = "closed"
            /\ \E h \in Requests :
                 \/ CommitRead(h) /\ req[h].closes = r
                 \/ /\ CloseIfComplete(h) /\ req[h].run = r
                    /\ run[r].status = "open" /\ Pending(r) = {}
<1>1. CASE run' = run
  BY <1>1
<1>2. ASSUME NEW h \in Requests, CommitRead(h)
      PROVE  run'[r].status = run[r].status \/ (req[h].closes = r /\ run'[r].status = "closed")
  <2>1. run'[r] = IF r = req[h].closes THEN [run[r] EXCEPT !.status = "closed"] ELSE run[r]
    BY <1>2 DEF CommitRead
  <2> QED
    BY <2>1 DEF TypeOK
<1>3. ASSUME NEW h \in Requests, CloseIfComplete(h)
      PROVE  \/ run'[r].status = run[r].status
             \/ /\ req[h].run = r /\ run[r].status = "open" /\ Pending(r) = {}
                /\ run'[r].status = "closed"
  <2>1. \/ run' = run
        \/ /\ run[req[h].run].status = "open" /\ LeftOver(req[h].run, {}) = {}
           /\ run' = [run EXCEPT ![req[h].run].status = "closed"]
    BY <1>3 DEF CloseIfComplete
  <2>2. LeftOver(req[h].run, {}) = Pending(req[h].run)
    BY DEF LeftOver
  <2> QED
    BY <2>1, <2>2 DEF TypeOK
<1>4. ASSUME NEW h \in Requests, NEW to \in Readers, AssignRun(h, to)
      PROVE  \/ run'[r].status = run[r].status
             \/ r = AssignedRun /\ run[r].status = "absent" /\ run'[r].status = "open"
  <2>1. run' = [run EXCEPT ![AssignedRun] = [status |-> "open", reader |-> to]]
        /\ run[AssignedRun].status = "absent"
    BY <1>4 DEF AssignRun
  <2>2. CASE r = AssignedRun
    <3>1. run'[r] = [status |-> "open", reader |-> to]
      BY <2>1, <2>2 DEF TypeOK
    <3>2. run'[r].status = "open"
      BY <3>1
    <3> QED
      BY <2>1, <2>2, <3>2
  <2>3. CASE r # AssignedRun
    BY <2>1, <2>3 DEF TypeOK
  <2> QED
    BY <2>2, <2>3
<1>5. ASSUME NEW h \in Requests, Reassign(h) PROVE run'[r].status = run[r].status
  BY <1>5 DEF Reassign, TypeOK
<1>6. ASSUME NEW h \in Requests, Moves(h)
      PROVE  run'[r].status = run[r].status \/ (r = req[h].new /\ run'[r].status = "open")
  <2>1. run' = [run EXCEPT ![req[h].new] = [status |-> "open", reader |-> req[h].to]]
    BY <1>6 DEF Moves, Carved
  <2>2. CASE r = req[h].new
    <3>1. run'[r] = [status |-> "open", reader |-> req[h].to]
      BY <2>1, <2>2 DEF TypeOK
    <3>2. run'[r].status = "open"
      BY <3>1
    <3> QED
      BY <2>2, <3>2
  <2>3. CASE r # req[h].new
    BY <2>1, <2>3 DEF TypeOK
  <2> QED
    BY <2>2, <2>3
<1>7. ASSUME NEW h \in Requests, SkipStop(h) \/ PlaceStops(h) PROVE run' = run
  BY <1>7 DEF SkipStop, PlaceStops
<1> QED
  BY <1>1, <1>2, <1>3, <1>4, <1>5, <1>6, <1>7, Effects, SplitMoves

-----------------------------------------------------------------------------
(* Placing and carving.                                                    *)

\* Before the stops of the assigned run are placed no stop has a run, and nothing
\* goes on that needs one; the run is placed by the request that assigned it.
Placed ==
  /\ run[AssignedRun].status = "absent" => \A s \in Stops : stop[s].run = NoRun
  /\ \A h \in Requests : req[h].at = "placing" =>
       run[AssignedRun].status = "open" /\ \A s \in Stops : stop[s].run = NoRun
  /\ \A g, h \in Requests : req[g].at = "placing" /\ req[h].at = "placing" => g = h
  /\ \A h \in Requests : req[h].at \in Reading => stop[req[h].ev.stop].run # NoRun
  /\ \A h \in Requests : req[h].at \in {"flagging", "closing"} => \E s \in Stops : stop[s].run # NoRun

\* The run a split is about to make does not exist and is its own.
Carving ==
  \A h \in Requests : req[h].at = "splitting" =>
    /\ run[req[h].new].status = "absent" /\ req[h].new # AssignedRun /\ req[h].moving # {}
    /\ \A g \in Requests : req[g].at = "splitting" /\ req[g].new = req[h].new => g = h

\* The run a read is about to close exists, and nothing of it is left pending but
\* the stop that the read itself settles.
Closing ==
  \A h \in Requests : req[h].at = "counted" /\ req[h].closes # NoRun =>
    /\ run[req[h].closes].status # "absent"
    /\ \A s \in Stops : stop[s].run = req[h].closes /\ stop[s].status = "pending" =>
         req[h].won /\ s = req[h].ev.stop

\* A request goes on with what it was about.
LEMMA RequestsTyped ==
  ASSUME TypeOK, [Next]_vars
  PROVE  req' \in [Requests -> {Idle} \cup ReadRequests \cup SkipRequests \cup AssignRequests
                               \cup ReassignRequests \cup SplitRequests]
<1> DEFINE States == {Idle} \cup ReadRequests \cup SkipRequests \cup AssignRequests
                       \cup ReassignRequests \cup SplitRequests
<1>1. ASSUME NEW h \in Requests, NEW q, Become(h, q) PROVE req'[h] = q
  BY <1>1 DEF Become, TypeOK
<1>2. ASSUME NEW h \in Requests, Own(h) PROVE req'[h] \in States
  <2>1. ASSUME NEW e \in Reads, CheckRead(h, e) PROVE req'[h] \in States
    <3>1. stop[e.stop].record \in Reads \cup {NoRead}
      BY RunStopsAssumption DEF TypeOK, RunStopsAssumption
    <3>2. [at |-> "checked", ev |-> e, incumbent |-> stop[e.stop].record,
           won |-> FALSE, answers |-> FALSE, closes |-> NoRun] \in ReadRequests
      BY <3>1 DEF ReadRequests
    <3> QED
      BY <1>1, <2>1, <3>2 DEF CheckRead
  <2>2. CASE WriteRead(h)
    <3> DEFINE e == req[h].ev
               supersedes == Supersedes(e, req[h].incumbent)
               wins == supersedes /\ Unsuperseded(e.stop, req[h].incumbent)
               answers == supersedes /\ flag[e.stop] = "open"
    <3>1. req[h] \in ReadRequests
      BY <2>2, RequestStates DEF WriteRead, Reading
    <3>2. wins \in BOOLEAN /\ answers \in BOOLEAN
      BY DEF Supersedes
    <3> HIDE DEF wins, answers
    <3>3. [req[h] EXCEPT !.at = "written", !.won = wins, !.answers = answers] \in ReadRequests
      BY <3>1, <3>2 DEF ReadRequests
    <3>4. \/ Finish(h)
          \/ Become(h, [req[h] EXCEPT !.at = "written", !.won = wins, !.answers = answers])
      BY <2>2 DEF WriteRead, wins, answers
    <3> QED
      BY <1>1, <3>3, <3>4 DEF Finish
  <2>3. CASE CloseRun(h)
    <3>1. req[h] \in ReadRequests
      BY <2>3, RequestStates DEF CloseRun, Reading
    <3>2. stop[req[h].ev.stop].run \in Runs \cup {NoRun}
      BY <3>1, RunStopsAssumption DEF TypeOK, ReadRequests, RunStopsAssumption
    <3>3. PICK c \in Runs \cup {NoRun} :
            Become(h, [req[h] EXCEPT !.at = "counted", !.closes = c])
      BY <2>3, <3>2 DEF CloseRun
    <3>4. [req[h] EXCEPT !.at = "counted", !.closes = c] \in ReadRequests
      BY <3>1, <3>3 DEF ReadRequests
    <3> QED
      BY <1>1, <3>3, <3>4
  <2>4. ASSUME NEW r \in Runs, NEW s \in Stops, CheckSkip(h, r, s) PROVE req'[h] \in States
    <3>1. [at |-> "skipping", run |-> r, stop |-> s] \in SkipRequests
      BY DEF SkipRequests
    <3> QED
      BY <1>1, <2>4, <3>1 DEF CheckSkip
  <2>5. CASE SkipStop(h)
    <3>1. req[h] \in SkipRequests
      BY <2>5, RequestStates DEF SkipStop
    <3>2. [req[h] EXCEPT !.at = "flagging"] \in SkipRequests
      BY <3>1 DEF SkipRequests
    <3> QED
      BY <1>1, <2>5, <3>2 DEF SkipStop, Finish
  <2>6. CASE RaiseSkipException(h)
    <3>1. req[h] \in SkipRequests
      BY <2>6, RequestStates DEF RaiseSkipException
    <3>2. [req[h] EXCEPT !.at = "closing"] \in SkipRequests
      BY <3>1 DEF SkipRequests
    <3> QED
      BY <1>1, <2>6, <3>2 DEF RaiseSkipException
  <2>7. ASSUME NEW to \in Readers, AssignRun(h, to) PROVE req'[h] \in States
    BY <1>1, <2>7 DEF AssignRun, AssignRequests
  <2>8. ASSUME NEW r \in Runs, NEW to \in Owners, StartReassign(h, r, to)
        PROVE  req'[h] \in States
    <3> DEFINE free == \A s \in StopsOf(r) : stop[s].status = "pending"
    <3>1. [at |-> "reassigning", run |-> r, to |-> to, free |-> free] \in ReassignRequests
      BY DEF ReassignRequests
    <3> QED
      BY <1>1, <2>8, <3>1 DEF StartReassign
  <2>9. ASSUME NEW r \in Runs, NEW new \in Runs, NEW S \in SUBSET Stops, NEW to \in Readers,
               CheckSplit(h, r, S, to, new)
        PROVE  req'[h] \in States
    <3>1. [at |-> "splitting", run |-> r, new |-> new, moving |-> S, to |-> to] \in SplitRequests
      BY DEF SplitRequests
    <3> QED
      BY <1>1, <2>9, <3>1 DEF CheckSplit
  <2>10. CASE CommitRead(h) \/ CloseIfComplete(h) \/ PlaceStops(h) \/ Reassign(h) \/ Split(h) \/ Fail(h)
    BY <1>1, <2>10 DEF CommitRead, CloseIfComplete, PlaceStops, Reassign, Split, Fail, Finish
  <2> QED
    BY <1>2, <2>1, <2>2, <2>3, <2>4, <2>5, <2>6, <2>7, <2>8, <2>9, <2>10 DEF Own
<1>3. \A h \in Requests : req'[h] \in States
  BY <1>2, OthersStand DEF TypeOK
<1>4. req' = [h \in Requests |-> req'[h]]
  <2>1. ASSUME NEW h \in Requests, Own(h) PROVE \E q : req' = [req EXCEPT ![h] = q]
    BY <2>1 DEF Own, CheckRead, WriteRead, CloseRun, CommitRead, CheckSkip, SkipStop,
                RaiseSkipException, CloseIfComplete, AssignRun, PlaceStops, StartReassign,
                Reassign, CheckSplit, Split, Fail, Finish, Become
  <2>2. UNCHANGED req \/ \E h \in Requests : Own(h)
    BY DEF Next, vars, Own, AnswerSkip
  <2> QED
    BY <2>1, <2>2 DEF TypeOK
<1> QED
  BY <1>3, <1>4

\* Runs stay runs and stops stay stops.
LEMMA RowsTyped ==
  ASSUME TypeOK, [Next]_vars
  PROVE  /\ run' \in [Runs -> [status : {"absent", "open", "closed"}, reader : Owners]]
         /\ stop' \in [Stops -> [run : Runs \cup {NoRun}, status : {"pending", "read", "skipped"},
                                 record : Reads \cup {NoRead}]]
<1> DEFINE RunRow == [status : {"absent", "open", "closed"}, reader : Owners]
           StopRow == [run : Runs \cup {NoRun}, status : {"pending", "read", "skipped"},
                       record : Reads \cup {NoRead}]
<1>1. ASSUME NEW h \in Requests, CommitRead(h)
      PROVE  run' \in [Runs -> RunRow] /\ stop' \in [Stops -> StopRow]
  <2>1. \A r \in Runs : [run[r] EXCEPT !.status = "closed"] \in RunRow
    BY DEF TypeOK
  <2>2. run' \in [Runs -> RunRow]
    BY <1>1, <2>1 DEF CommitRead, TypeOK
  <2>3. req[h].ev \in Reads /\ req[h].ev.stop \in Stops
    BY <1>1, RequestStates, RunStopsAssumption
       DEF CommitRead, Reading, ReadRequests, RunStopsAssumption
  <2>4. \A row \in StopRow : \A e \in Reads : [row EXCEPT !.status = "read", !.record = e] \in StopRow
    OBVIOUS
  <2>5. PICK e \in Reads :
          e.stop \in Stops /\ (stop' = stop \/ stop' = [stop EXCEPT ![e.stop] =
                                 [stop[e.stop] EXCEPT !.status = "read", !.record = e]])
    BY <1>1, <2>3 DEF CommitRead, TypeOK
  <2>6. [stop[e.stop] EXCEPT !.status = "read", !.record = e] \in StopRow
    BY <2>4, <2>5 DEF TypeOK
  <2>7. stop' \in [Stops -> StopRow]
    BY <2>5, <2>6 DEF TypeOK
  <2> QED
    BY <2>2, <2>7
<1>2. ASSUME NEW h \in Requests, SkipStop(h)
      PROVE  run' = run /\ stop' \in [Stops -> StopRow]
  <2>1. \A s \in Stops : [stop[s] EXCEPT !.status = "skipped"] \in StopRow
    BY DEF TypeOK
  <2>2. stop' = stop \/ stop' = [stop EXCEPT ![req[h].stop].status = "skipped"]
    BY <1>2 DEF SkipStop
  <2> QED
    BY <1>2, <2>1, <2>2 DEF SkipStop, TypeOK
<1>3. ASSUME NEW h \in Requests, CloseIfComplete(h)
      PROVE  run' \in [Runs -> RunRow] /\ stop' = stop
  <2>1. \A r \in Runs : [run[r] EXCEPT !.status = "closed"] \in RunRow
    BY DEF TypeOK
  <2>2. run' = run \/ run' = [run EXCEPT ![req[h].run].status = "closed"]
    BY <1>3 DEF CloseIfComplete
  <2> QED
    BY <1>3, <2>1, <2>2 DEF CloseIfComplete, TypeOK
<1>4. ASSUME NEW h \in Requests, NEW to \in Readers, AssignRun(h, to)
      PROVE  run' \in [Runs -> RunRow] /\ stop' = stop
  <2>1. [status |-> "open", reader |-> to] \in RunRow
    BY DEF Owners
  <2> QED
    BY <1>4, <2>1 DEF AssignRun, TypeOK
<1>5. ASSUME NEW h \in Requests, PlaceStops(h)
      PROVE  run' = run /\ stop' \in [Stops -> StopRow]
  <2>1. \A s \in Stops : [stop[s] EXCEPT !.run = AssignedRun] \in StopRow
    BY RunStopsAssumption DEF TypeOK, RunStopsAssumption
  <2> QED
    BY <1>5, <2>1 DEF PlaceStops
<1>6. ASSUME NEW h \in Requests, Reassign(h)
      PROVE  run' \in [Runs -> RunRow] /\ stop' = stop
  <2>1. req[h].to \in Owners
    BY <1>6, RequestStates DEF Reassign, ReassignRequests
  <2>2. \A r \in Runs : [run[r] EXCEPT !.reader = req[h].to] \in RunRow
    BY <2>1 DEF TypeOK
  <2>3. run' = run \/ run' = [run EXCEPT ![req[h].run].reader = req[h].to]
    BY <1>6 DEF Reassign
  <2> QED
    BY <1>6, <2>2, <2>3 DEF Reassign, TypeOK
<1>7. ASSUME NEW h \in Requests, Moves(h)
      PROVE  run' \in [Runs -> RunRow] /\ stop' \in [Stops -> StopRow]
  <2>1. req[h].new \in Runs /\ req[h].to \in Owners
    BY <1>7, RequestStates DEF Moves, Split, SplitRequests, Owners
  <2>2. Carved(req[h].new, req[h].to) \in RunRow
    BY <2>1 DEF Carved
  <2>3. \A s \in Stops : [stop[s] EXCEPT !.run = req[h].new] \in StopRow
    BY <2>1 DEF TypeOK
  <2> QED
    BY <1>7, <2>1, <2>2, <2>3 DEF Moves, TypeOK
<1> QED
  BY <1>1, <1>2, <1>3, <1>4, <1>5, <1>6, <1>7, Effects, SplitMoves DEF TypeOK

\* Every step keeps the types.
LEMMA TypeStep == TypeOK /\ Placed /\ [Next]_vars => TypeOK'
<1> SUFFICES ASSUME TypeOK, Placed, [Next]_vars PROVE TypeOK'
  OBVIOUS
<1>1. ASSUME NEW s \in Stops, stop'[s].run # NoRun
      PROVE  run'[stop'[s].run].status # "absent"
  <2>1. \A r \in Runs : run[r].status # "absent" => run'[r].status # "absent"
    BY RunsAfter
  <2>2. CASE stop'[s].run = stop[s].run
    BY <1>1, <2>1, <2>2 DEF TypeOK
  <2>3. CASE stop'[s].run = AssignedRun /\ \E h \in Requests : PlaceStops(h)
    <3>1. run[AssignedRun].status = "open"
      BY <2>3 DEF PlaceStops, Placed
    <3> QED
      BY <2>1, <2>3, <3>1, RunStopsAssumption DEF RunStopsAssumption
  <2>4. ASSUME NEW h \in Requests, Moves(h), stop'[s].run = req[h].new
        PROVE  run'[stop'[s].run].status # "absent"
    <3>1. req[h].new \in Runs
      BY <2>4, RequestStates DEF Moves, Split, SplitRequests
    <3>2. run'[req[h].new] = [status |-> "open", reader |-> req[h].to]
      BY <2>4, <3>1 DEF Moves, Carved, TypeOK
    <3>3. run'[req[h].new].status = "open"
      BY <3>2
    <3> QED
      BY <2>4, <3>3
  <2> QED
    BY <2>2, <2>3, <2>4, StopsAfter
<1>2. stored' \subseteq Reads
  <2>1. ASSUME NEW h \in Requests, CommitRead(h) PROVE stored' \subseteq Reads
    <3>1. req[h].ev \in Reads
      BY <2>1, RequestStates DEF CommitRead, Reading, ReadRequests
    <3> QED
      BY <2>1, <3>1 DEF CommitRead, TypeOK
  <2>2. stored' = stored \/ \E h \in Requests : CommitRead(h)
    BY Effects DEF SkipStop, CloseIfComplete, AssignRun, PlaceStops, Reassign, Split
  <2> QED
    BY <2>1, <2>2 DEF TypeOK
<1>3. flag' \in [Stops -> {"none", "open", "closed"}]
  <2>1. ASSUME NEW h \in Requests, CommitRead(h) PROVE flag' \in [Stops -> {"none", "open", "closed"}]
    BY <2>1 DEF CommitRead, TypeOK
  <2>2. ASSUME NEW h \in Requests, RaiseSkipException(h)
        PROVE  flag' \in [Stops -> {"none", "open", "closed"}]
    <3>1. req[h].stop \in Stops
      BY <2>2, RequestStates DEF RaiseSkipException, SkipRequests
    <3> QED
      BY <2>2, <3>1 DEF RaiseSkipException, Raised, TypeOK
  <2>3. ASSUME NEW s \in Stops, AnswerSkip(s) PROVE flag' \in [Stops -> {"none", "open", "closed"}]
    BY <2>3 DEF AnswerSkip, TypeOK
  <2>4. \/ flag' = flag
        \/ \E h \in Requests : CommitRead(h) \/ RaiseSkipException(h)
        \/ \E s \in Stops : AnswerSkip(s)
    BY DEF Next, vars, CheckRead, WriteRead, CloseRun, CheckSkip, SkipStop, CloseIfComplete,
           AssignRun, PlaceStops, StartReassign, Reassign, CheckSplit, Split, Fail
  <2> QED
    BY <2>1, <2>2, <2>3, <2>4 DEF TypeOK
<1>4. failures' \in 0..MaxFailures
  <2>1. ASSUME NEW h \in Requests, Fail(h) PROVE failures' \in 0..MaxFailures
    BY <2>1, RunStopsAssumption DEF Fail, TypeOK, RunStopsAssumption
  <2>2. failures' = failures \/ \E h \in Requests : Fail(h)
    BY DEF Next, vars, CheckRead, WriteRead, CloseRun, CommitRead, CheckSkip, SkipStop,
           RaiseSkipException, CloseIfComplete, AssignRun, PlaceStops, StartReassign, Reassign,
           CheckSplit, Split, AnswerSkip
  <2> QED
    BY <2>1, <2>2 DEF TypeOK
<1> QED
  BY <1>1, <1>2, <1>3, <1>4, RowsTyped, RequestsTyped DEF TypeOK

\* What the steps of request h make of it, where it goes on.
Checked(h) ==
  \E e \in Reads :
    /\ CheckRead(h, e)
    /\ req'[h].at = "checked" /\ req'[h].ev = e
    /\ req'[h].incumbent = stop[e.stop].record
Written(h) ==
  /\ WriteRead(h)
  /\ req'[h].at = "written" /\ req'[h].ev = req[h].ev
  /\ req'[h].incumbent = req[h].incumbent
  /\ req'[h].won =
       (/\ Supersedes(req[h].ev, req[h].incumbent)
        /\ Unsuperseded(req[h].ev.stop, req[h].incumbent))
Counted(h) ==
  /\ CloseRun(h)
  /\ req'[h].at = "counted" /\ req'[h].ev = req[h].ev
  /\ req'[h].incumbent = req[h].incumbent /\ req'[h].won = req[h].won
  /\ \/ req'[h].closes = NoRun
     \/ /\ req'[h].closes = stop[req[h].ev.stop].run
        /\ Pending(req'[h].closes) \subseteq IF req[h].won THEN {req[h].ev.stop} ELSE {}
Skipped(h) ==
  /\ SkipStop(h) /\ req'[h].at = "flagging"
  /\ req[h].stop \in Stops /\ stop[req[h].stop].run \in Runs
Assigned(h) == (\E to \in Readers : AssignRun(h, to)) /\ req'[h].at = "placing"
Selected(h) ==
  \E r, new \in Runs, S \in SUBSET Stops, to \in Readers :
    /\ CheckSplit(h, r, S, to, new)
    /\ req'[h] = [at |-> "splitting", run |-> r, new |-> new, moving |-> S, to |-> to]

\* What its own step makes of a request.
LEMMA OwnSteps ==
  ASSUME TypeOK, NEW h \in Requests, Own(h)
  PROVE  \/ req'[h] = Idle \/ req'[h].at \in {"skipping", "reassigning"}
         \/ Checked(h) \/ Written(h) \/ Counted(h) \/ Skipped(h)
         \/ RaiseSkipException(h) /\ req'[h].at = "closing"
         \/ Assigned(h) \/ Selected(h)
<1>1. ASSUME NEW q, Become(h, q) PROVE req'[h] = q
  BY <1>1 DEF Become, TypeOK
<1>2. ASSUME NEW e \in Reads, CheckRead(h, e) PROVE Checked(h)
  <2>1. req'[h] = [at |-> "checked", ev |-> e, incumbent |-> stop[e.stop].record,
                   won |-> FALSE, answers |-> FALSE, closes |-> NoRun]
    BY <1>1, <1>2 DEF CheckRead
  <2>2. /\ req'[h].at = "checked" /\ req'[h].ev = e
        /\ req'[h].incumbent = stop[e.stop].record
    BY <2>1
  <2> QED
    BY <1>2, <2>2 DEF Checked
<1>3. ASSUME WriteRead(h) PROVE req'[h] = Idle \/ Written(h)
  <2> DEFINE supersedes == Supersedes(req[h].ev, req[h].incumbent)
             wins == supersedes /\ Unsuperseded(req[h].ev.stop, req[h].incumbent)
             answers == supersedes /\ flag[req[h].ev.stop] = "open"
  <2>1. req[h] \in ReadRequests
    BY <1>3, RequestStates DEF WriteRead, Reading
  <2> HIDE DEF wins, answers
  <2>2. \/ Finish(h)
        \/ Become(h, [req[h] EXCEPT !.at = "written", !.won = wins, !.answers = answers])
    BY <1>3 DEF WriteRead, wins, answers
  <2>3. \/ req'[h] = Idle
        \/ req'[h].at = "written" /\ req'[h].ev = req[h].ev
             /\ req'[h].incumbent = req[h].incumbent /\ req'[h].won = wins
    BY <1>1, <2>1, <2>2 DEF Finish, ReadRequests
  <2> QED
    BY <1>3, <2>3 DEF wins, Written
<1>4. ASSUME CloseRun(h) PROVE Counted(h)
  <2> DEFINE r == stop[req[h].ev.stop].run
  <2>1. req[h] \in ReadRequests
    BY <1>4, RequestStates DEF CloseRun, Reading
  <2>2. PICK c :
          /\ req'[h] = [req[h] EXCEPT !.at = "counted", !.closes = c]
          /\ c = NoRun \/ (c = r /\ LeftOver(r, IF req[h].won THEN {req[h].ev.stop} ELSE {}) = {})
    BY <1>1, <1>4 DEF CloseRun
  <2>3. /\ req'[h].at = "counted" /\ req'[h].ev = req[h].ev /\ req'[h].closes = c
        /\ req'[h].incumbent = req[h].incumbent /\ req'[h].won = req[h].won
    BY <2>1, <2>2 DEF ReadRequests
  <2> QED
    BY <1>4, <2>2, <2>3 DEF LeftOver, Counted
<1>5. ASSUME SkipStop(h) PROVE req'[h] = Idle \/ Skipped(h)
  <2>1. req[h] \in SkipRequests
    BY <1>5, RequestStates DEF SkipStop
  <2> QED
    BY <1>1, <1>5, <2>1 DEF SkipStop, Finish, SkipRequests, Skipped
<1>6. ASSUME RaiseSkipException(h) PROVE req'[h].at = "closing"
  <2>1. req[h] \in SkipRequests
    BY <1>6, RequestStates DEF RaiseSkipException
  <2> QED
    BY <1>1, <1>6, <2>1 DEF RaiseSkipException, SkipRequests
<1>7. ASSUME NEW to \in Readers, AssignRun(h, to) PROVE Assigned(h)
  <2>1. req'[h].at = "placing"
    BY <1>1, <1>7 DEF AssignRun
  <2> QED
    BY <1>7, <2>1 DEF Assigned
<1>8. ASSUME NEW r \in Runs, NEW s \in Stops, CheckSkip(h, r, s) PROVE req'[h].at = "skipping"
  BY <1>1, <1>8 DEF CheckSkip
<1>9. ASSUME NEW r \in Runs, NEW to \in Owners, StartReassign(h, r, to)
      PROVE  req'[h].at = "reassigning"
  BY <1>1, <1>9 DEF StartReassign
<1>10. ASSUME NEW r \in Runs, NEW new \in Runs, NEW S \in SUBSET Stops, NEW to \in Readers,
              CheckSplit(h, r, S, to, new)
       PROVE  Selected(h)
  <2>1. req'[h] = [at |-> "splitting", run |-> r, new |-> new, moving |-> S, to |-> to]
    BY <1>1, <1>10 DEF CheckSplit
  <2> QED
    BY <1>10, <2>1 DEF Selected
<1>11. ASSUME CommitRead(h) \/ CloseIfComplete(h) \/ PlaceStops(h) \/ Reassign(h) \/ Split(h) \/ Fail(h)
       PROVE  req'[h] = Idle
  BY <1>1, <1>11 DEF CommitRead, CloseIfComplete, PlaceStops, Reassign, Split, Fail, Finish
<1> QED
  BY <1>2, <1>3, <1>4, <1>5, <1>6, <1>7, <1>8, <1>9, <1>10, <1>11 DEF Own

\* The initial state is well typed, and nothing is placed or carved in it.
LEMMA InitHolds == Init => TypeOK /\ Placed /\ Carving /\ Closing /\ ClosedRunIsDone
  BY RunStopsAssumption DEF Init, TypeOK, Placed, Carving, Closing, ClosedRunIsDone, Idle, Reading, Owners, RunStopsAssumption

\* A request at a given step was there before or has just come there.
LEMMA Arrivals ==
  ASSUME TypeOK, [Next]_vars, NEW h \in Requests
  PROVE  /\ req'[h].at = "placing" => req'[h] = req[h] \/ Assigned(h)
         /\ req'[h].at \in Reading =>
              \/ Checked(h)
              \/ /\ req[h].at \in Reading /\ req'[h].ev = req[h].ev
                 /\ req'[h].incumbent = req[h].incumbent
         /\ req'[h].at \in {"flagging", "closing"} =>
              req[h].at \in {"flagging", "closing"} \/ Skipped(h)
         /\ req'[h].at = "splitting" => req'[h] = req[h] \/ Selected(h)
         /\ req'[h].at = "counted" => req'[h] = req[h] \/ Counted(h)
         /\ req'[h].at \in {"written", "counted"} =>
              \/ Written(h)
              \/ /\ req[h].at \in {"written", "counted"} /\ req'[h].ev = req[h].ev
                 /\ req'[h].incumbent = req[h].incumbent /\ req'[h].won = req[h].won
<1>1. CASE req'[h] = req[h]
  BY <1>1
<1>2. CASE req'[h] = Idle \/ req'[h].at \in {"skipping", "reassigning"}
  BY <1>2 DEF Idle, Reading
<1>3. CASE Checked(h)
  BY <1>3 DEF Checked, Reading
<1>4. CASE Written(h)
  BY <1>4 DEF Written, WriteRead, Reading
<1>5. CASE Counted(h)
  BY <1>5 DEF Counted, CloseRun, Reading
<1>6. CASE Skipped(h)
  BY <1>6 DEF Skipped, Reading
<1>7. CASE RaiseSkipException(h) /\ req'[h].at = "closing"
  BY <1>7 DEF RaiseSkipException, Reading
<1>8. CASE Assigned(h)
  BY <1>8 DEF Assigned, Reading
<1>9. CASE Selected(h)
  <2>1. req'[h].at = "splitting"
    BY <1>9 DEF Selected
  <2> QED
    BY <1>9, <2>1 DEF Reading
<1> QED
  BY <1>1, <1>2, <1>3, <1>4, <1>5, <1>6, <1>7, <1>8, <1>9, OthersStand, OwnSteps

\* A stop that has a run keeps having one.
LEMMA RunsKept ==
  ASSUME TypeOK, [Next]_vars, NEW s \in Stops, stop[s].run # NoRun
  PROVE  stop'[s].run # NoRun
<1>1. AssignedRun # NoRun
  BY RunStopsAssumption DEF RunStopsAssumption
<1>2. \A h \in Requests : Moves(h) => req[h].new # NoRun
  BY RequestStates, RunStopsAssumption DEF Moves, Split, SplitRequests, RunStopsAssumption
<1> QED
  BY <1>1, <1>2, StopsAfter

\* Every step keeps Placed.
LEMMA PlacedStep == TypeOK /\ Placed /\ Carving /\ [Next]_vars => Placed'
<1> SUFFICES ASSUME TypeOK, Placed, Carving, [Next]_vars PROVE Placed'
  OBVIOUS
<1>1. ASSUME run'[AssignedRun].status = "absent", NEW s \in Stops PROVE stop'[s].run = NoRun
  <2>1. run[AssignedRun].status = "absent"
    BY <1>1, RunsAfter, RunStopsAssumption DEF RunStopsAssumption
  <2>2. \A t \in Stops : stop[t].run = NoRun
    BY <2>1 DEF Placed
  <2>3. \A h \in Requests : ~PlaceStops(h)
    BY <2>1 DEF PlaceStops, Placed
  <2>4. \A h \in Requests : ~Moves(h)
    <3> SUFFICES ASSUME NEW h \in Requests, Moves(h) PROVE FALSE
      OBVIOUS
    <3>1. req[h].moving # {} /\ req[h].run \in Runs
      BY RequestStates DEF Moves, Split, Carving, SplitRequests
    <3> QED
      BY <2>2, <3>1, RunStopsAssumption DEF Moves, Pending, StopsOf, RunStopsAssumption
  <2> QED
    BY <2>2, <2>3, <2>4, StopsAfter
<1>2. ASSUME NEW h \in Requests, req'[h].at = "placing"
      PROVE  run'[AssignedRun].status = "open" /\ \A s \in Stops : stop'[s].run = NoRun
  <2>1. CASE Assigned(h)
    <3>1. PICK to \in Readers : AssignRun(h, to)
      BY <2>1 DEF Assigned
    <3>2. run'[AssignedRun] = [status |-> "open", reader |-> to]
      BY <3>1, RunStopsAssumption DEF AssignRun, TypeOK, RunStopsAssumption
    <3>3. run'[AssignedRun].status = "open"
      BY <3>2
    <3>4. \A s \in Stops : stop'[s].run = NoRun
      BY <3>1 DEF AssignRun, Placed
    <3> QED
      BY <3>3, <3>4
  <2>2. CASE req'[h] = req[h]
    <3>1. run[AssignedRun].status = "open" /\ \A s \in Stops : stop[s].run = NoRun
      BY <1>2, <2>2 DEF Placed
    <3>2. \A g \in Requests : ~PlaceStops(g)
      <4> SUFFICES ASSUME NEW g \in Requests, PlaceStops(g) PROVE FALSE
        OBVIOUS
      <4>1. g = h
        BY <1>2, <2>2 DEF PlaceStops, Placed
      <4>2. req'[g] = Idle
        BY DEF PlaceStops, Finish, Become, TypeOK
      <4> QED
        BY <1>2, <4>1, <4>2 DEF Idle
    <3>3. \A g \in Requests : ~Moves(g)
      <4> SUFFICES ASSUME NEW g \in Requests, Moves(g) PROVE FALSE
        OBVIOUS
      <4>1. req[g].moving # {} /\ req[g].run \in Runs
        BY RequestStates DEF Moves, Split, Carving, SplitRequests
      <4> QED
        BY <3>1, <4>1, RunStopsAssumption DEF Moves, Pending, StopsOf, RunStopsAssumption
    <3>4. \A g \in Requests : ~CommitRead(g)
      <4> SUFFICES ASSUME NEW g \in Requests, CommitRead(g) PROVE FALSE
        OBVIOUS
      <4>1. req[g].at \in Reading /\ req[g].ev \in Reads
        BY RequestStates DEF CommitRead, Reading, ReadRequests
      <4> QED
        BY <3>1, <4>1, RunStopsAssumption DEF Placed, RunStopsAssumption
    <3>5. \A g \in Requests : ~CloseIfComplete(g)
      BY <3>1 DEF CloseIfComplete, Placed
    <3>6. run'[AssignedRun].status = "open"
      BY <3>1, <3>3, <3>4, <3>5, RunsAfter, RunStopsAssumption DEF RunStopsAssumption
    <3>7. \A s \in Stops : stop'[s].run = NoRun
      BY <3>1, <3>2, <3>3, StopsAfter
    <3> QED
      BY <3>6, <3>7
  <2> QED
    BY <1>2, <2>1, <2>2, Arrivals
<1>3. ASSUME NEW g \in Requests, NEW h \in Requests,
             req'[g].at = "placing", req'[h].at = "placing"
      PROVE  g = h
  <2>1. ASSUME NEW x \in Requests, NEW y \in Requests, Assigned(x), req'[y].at = "placing"
        PROVE  x = y
    <3>1. run[AssignedRun].status = "absent" /\ \A z \in Requests \ {x} : req'[z] = req[z]
      BY <2>1 DEF Assigned, AssignRun, Become, TypeOK
    <3>2. \A z \in Requests : req[z].at # "placing"
      BY <3>1 DEF Placed
    <3> QED
      BY <2>1, <3>1, <3>2
  <2>2. CASE req'[g] = req[g] /\ req'[h] = req[h]
    BY <1>3, <2>2 DEF Placed
  <2> QED
    BY <1>3, <2>1, <2>2, Arrivals
<1>4. ASSUME NEW h \in Requests, req'[h].at \in Reading PROVE stop'[req'[h].ev.stop].run # NoRun
  <2>1. CASE Checked(h)
    <3>1. PICK e \in Reads : CheckRead(h, e) /\ req'[h].ev = e
      BY <2>1 DEF Checked
    <3>2. e.stop \in Stops /\ stop[e.stop].run # NoRun
      BY <3>1, RunStopsAssumption DEF CheckRead, RunStopsAssumption
    <3> QED
      BY <3>1, <3>2, RunsKept
  <2>2. CASE req[h].at \in Reading /\ req'[h].ev = req[h].ev
    <3>1. req[h].ev.stop \in Stops
      BY <2>2, RequestStates, RunStopsAssumption DEF ReadRequests, RunStopsAssumption
    <3>2. stop[req[h].ev.stop].run # NoRun
      BY <2>2 DEF Placed
    <3> QED
      BY <2>2, <3>1, <3>2, RunsKept
  <2> QED
    BY <1>4, <2>1, <2>2, Arrivals
<1>5. ASSUME NEW h \in Requests, req'[h].at \in {"flagging", "closing"}
      PROVE  \E s \in Stops : stop'[s].run # NoRun
  <2>1. \E s \in Stops : stop[s].run # NoRun
    BY <1>5, Arrivals, RunStopsAssumption DEF Placed, Skipped, RunStopsAssumption
  <2> QED
    BY <2>1, RunsKept
<1> QED
  BY <1>1, <1>2, <1>3, <1>4, <1>5 DEF Placed

\* Every step keeps Carving.
LEMMA CarvingStep == TypeOK /\ Carving /\ Closing /\ [Next]_vars => Carving'
<1> SUFFICES ASSUME TypeOK, Carving, Closing, [Next]_vars, NEW h \in Requests, req'[h].at = "splitting"
             PROVE  /\ run'[req'[h].new].status = "absent"
                    /\ req'[h].new # AssignedRun /\ req'[h].moving # {}
                    /\ \A g \in Requests :
                         req'[g].at = "splitting" /\ req'[g].new = req'[h].new => g = h
  BY DEF Carving
<1>1. ASSUME NEW x \in Requests, NEW y \in Requests, Selected(x), req'[y].at = "splitting",
             req'[x].new = req'[y].new
      PROVE  x = y
  <2>1. PICK r \in Runs, new \in Runs, S \in SUBSET Stops, to \in Readers :
          /\ CheckSplit(x, r, S, to, new)
          /\ req'[x] = [at |-> "splitting", run |-> r, new |-> new, moving |-> S, to |-> to]
    BY <1>1 DEF Selected
  <2>2. req'[x].new = new
    BY <2>1
  <2>3. /\ \A z \in Requests : req[z].at = "splitting" => req[z].new # new
        /\ \A z \in Requests \ {x} : req'[z] = req[z]
    BY <2>1 DEF CheckSplit, Become, TypeOK
  <2> QED
    BY <1>1, <2>2, <2>3
<1>2. \A g \in Requests : req'[g].at = "splitting" /\ req'[g].new = req'[h].new => g = h
  BY <1>1, Arrivals DEF Carving
<1>3. CASE Selected(h)
  <2>1. PICK r \in Runs, new \in Runs, S \in SUBSET Stops, to \in Readers :
          /\ CheckSplit(h, r, S, to, new)
          /\ req'[h] = [at |-> "splitting", run |-> r, new |-> new, moving |-> S, to |-> to]
    BY <1>3 DEF Selected
  <2>2. req'[h].new = new /\ req'[h].moving = S
    BY <2>1
  <2>3. run'[new].status = "absent" /\ new # AssignedRun /\ S # {}
    BY <2>1 DEF CheckSplit, ValidSplit
  <2> QED
    BY <1>2, <2>2, <2>3
<1>4. CASE req'[h] = req[h]
  <2> DEFINE new == req[h].new
  <2>1. new \in Runs /\ run[new].status = "absent" /\ new # AssignedRun /\ req[h].moving # {}
    BY <1>4, RequestStates DEF SplitRequests, Carving
  <2>2. ASSUME NEW g \in Requests, Moves(g) PROVE req[g].new # new
    <3>1. req'[g] = Idle /\ req[g].at = "splitting"
      BY <2>2 DEF Moves, Split, Finish, Become, TypeOK
    <3>2. g # h
      BY <3>1 DEF Idle
    <3> QED
      BY <1>4, <3>1, <3>2 DEF Carving
  <2>3. ASSUME NEW g \in Requests, CommitRead(g) PROVE req[g].closes # new
    BY <2>1, <2>3, RunStopsAssumption DEF CommitRead, Closing, RunStopsAssumption
  <2>4. run'[new].status = "absent"
    BY <2>1, <2>2, <2>3, RunsAfter
  <2> QED
    BY <1>2, <1>4, <2>1, <2>4
<1> QED
  BY <1>3, <1>4, Arrivals

-----------------------------------------------------------------------------
(* Closing.                                                                *)

\* A run that is there only loses pending stops, but for the assigned one while
\* its stops are placed.
LEMMA PendingShrinks ==
  ASSUME TypeOK, Carving, [Next]_vars, NEW r \in Runs, run[r].status # "absent",
         r # AssignedRun \/ \A h \in Requests : ~PlaceStops(h),
         NEW s \in Stops, stop'[s].run = r, stop'[s].status = "pending"
  PROVE  stop[s].run = r /\ stop[s].status = "pending"
<1>1. ASSUME NEW h \in Requests, Moves(h) PROVE req[h].new # r
  BY <1>1 DEF Moves, Split, Carving
<1> QED
  BY <1>1, StopsAfter

\* No stops are placed while a read is on its way.
LEMMA NoPlacing ==
  ASSUME TypeOK, Placed, NEW g \in Requests, req[g].at \in Reading
  PROVE  \A h \in Requests : ~PlaceStops(h)
<1>1. req[g].ev.stop \in Stops
  BY RequestStates, RunStopsAssumption DEF ReadRequests, RunStopsAssumption
<1> QED
  BY <1>1 DEF Placed, PlaceStops

\* Every step keeps Closing.
LEMMA ClosingStep == TypeOK /\ Placed /\ Carving /\ Closing /\ [Next]_vars => Closing'
<1> SUFFICES ASSUME TypeOK, Placed, Carving, Closing, [Next]_vars, NEW h \in Requests,
                    req'[h].at = "counted", req'[h].closes # NoRun
             PROVE  /\ run'[req'[h].closes].status # "absent"
                    /\ \A s \in Stops :
                         stop'[s].run = req'[h].closes /\ stop'[s].status = "pending" =>
                           req'[h].won /\ s = req'[h].ev.stop
  BY DEF Closing
<1>1. CASE Counted(h)
  <2>1. run' = run /\ stop' = stop /\ req[h].ev.stop \in Stops
    BY <1>1, RequestStates, RunStopsAssumption
    DEF Counted, CloseRun, Reading, ReadRequests, RunStopsAssumption
  <2>2. /\ req'[h].closes = stop[req[h].ev.stop].run
        /\ Pending(req'[h].closes) \subseteq IF req[h].won THEN {req[h].ev.stop} ELSE {}
        /\ req'[h].won = req[h].won /\ req'[h].ev = req[h].ev
    BY <1>1 DEF Counted
  <2>3. run[req'[h].closes].status # "absent"
    BY <2>1, <2>2 DEF TypeOK
  <2> QED
    BY <2>1, <2>2, <2>3 DEF Pending, StopsOf
<1>2. CASE req'[h] = req[h]
  <2> DEFINE r == req[h].closes
  <2>1. req[h].at = "counted" /\ r \in Runs
    BY <1>2, RequestStates DEF Reading, ReadRequests
  <2>2. run[r].status # "absent"
    BY <1>2, <2>1 DEF Closing
  <2>3. run'[r].status # "absent"
    BY <2>1, <2>2, RunsAfter
  <2>4. \A g \in Requests : ~PlaceStops(g)
    BY <2>1, NoPlacing DEF Reading
  <2> QED
    BY <1>2, <2>1, <2>2, <2>3, <2>4, PendingShrinks DEF Closing
<1> QED
  BY <1>1, <1>2, Arrivals

\* Every step keeps what a closed run promises.
LEMMA DoneStep ==
  TypeOK /\ Placed /\ Carving /\ Closing /\ ClosedRunIsDone /\ [Next]_vars => ClosedRunIsDone'
<1> SUFFICES ASSUME TypeOK, Placed, Carving, Closing, ClosedRunIsDone, [Next]_vars,
                    NEW r \in Runs, run'[r].status = "closed",
                    NEW s \in Stops, stop'[s].run = r, stop'[s].status = "pending"
             PROVE  FALSE
  BY DEF ClosedRunIsDone, Pending, StopsOf
<1>1. CASE run[r].status = "closed"
  <2>1. r # AssignedRun \/ \A h \in Requests : ~PlaceStops(h)
    BY <1>1 DEF Placed, PlaceStops
  <2>2. stop[s].run = r /\ stop[s].status = "pending"
    BY <1>1, <2>1, PendingShrinks
  <2> QED
    BY <1>1, <2>2 DEF ClosedRunIsDone, Pending, StopsOf
<1>2. ASSUME NEW h \in Requests, CommitRead(h), req[h].closes = r PROVE FALSE
  <2>1. req[h].at = "counted" /\ r # NoRun
    BY <1>2, RunStopsAssumption DEF CommitRead, RunStopsAssumption
  <2>2. run[r].status # "absent"
    BY <1>2, <2>1 DEF Closing
  <2>3. \A g \in Requests : ~PlaceStops(g)
    BY <2>1, NoPlacing DEF Reading
  <2>4. stop[s].run = r /\ stop[s].status = "pending"
    BY <2>2, <2>3, PendingShrinks
  <2>5. req[h].won /\ s = req[h].ev.stop
    BY <1>2, <2>1, <2>4 DEF Closing
  <2>6. stop'[s] = [stop[s] EXCEPT !.status = "read", !.record = req[h].ev]
    BY <1>2, <2>5 DEF CommitRead, TypeOK
  <2>7. stop'[s].status = "read"
    BY <2>6 DEF TypeOK
  <2> QED
    BY <2>7
<1>3. ASSUME NEW h \in Requests, CloseIfComplete(h), Pending(r) = {} PROVE FALSE
  BY <1>3 DEF CloseIfComplete, Pending, StopsOf
<1> QED
  BY <1>1, <1>2, <1>3, RunsAfter

\* Every run, stop and request has the values the source gives it, and a stop
\* belongs to a run that is there (schema.ts run, stop).
THEOREM TypeCorrect == Spec => []TypeOK
<1> DEFINE IInv == TypeOK /\ Placed /\ Carving /\ Closing
<1>1. Init => IInv
  BY InitHolds
<1>2. IInv /\ [Next]_vars => IInv'
  BY TypeStep, PlacedStep, CarvingStep, ClosingStep
<1> QED
  BY <1>1, <1>2, PTL DEF Spec

\* A closed run has no stop left to walk: whatever commits between the count
\* and the commit of the request that closes it, requests that die included
\* (ingestion.service.ts:248-257, runs.service.ts:415-419).
THEOREM ClosedRunsAreDone == Spec => []ClosedRunIsDone
<1> DEFINE IInv == TypeOK /\ Placed /\ Carving /\ Closing /\ ClosedRunIsDone
<1>1. Init => IInv
  BY InitHolds
<1>2. IInv /\ [Next]_vars => IInv'
  BY TypeStep, PlacedStep, CarvingStep, ClosingStep, DoneStep
<1>3. IInv => ClosedRunIsDone
  OBVIOUS
<1> QED
  BY <1>1, <1>2, <1>3, PTL DEF Spec

-----------------------------------------------------------------------------
(* Reads of record.                                                        *)

\* A stop is read when one of its reads is stored, and its read of record is one.
Answered ==
  /\ \A e \in stored : stop[e.stop].status = "read"
  /\ \A s \in Stops :
       /\ stop[s].status = "read" => stop[s].record \in stored /\ stop[s].record.stop = s
       /\ stop[s].status # "read" => stop[s].record = NoRead

\* A read that is not to become the read of record is taken at a stop that has
\* been read.
Grounded ==
  \A h \in Requests :
    /\ req[h].at \in Reading /\ req[h].incumbent # NoRead =>
         stop[req[h].ev.stop].status = "read"
    /\ req[h].at \in {"written", "counted"} /\ ~req[h].won =>
         stop[req[h].ev.stop].status = "read"

\* A read that is to become the read of record still replaces the one it was
\* compared with, and no other read is to become that of its stop.
Winning ==
  /\ \A h \in InTransaction : req[h].won =>
       /\ stop[req[h].ev.stop].record = req[h].incumbent
       /\ Supersedes(req[h].ev, req[h].incumbent)
  /\ \A g, h \in InTransaction :
       req[g].won /\ req[h].won /\ req[g].ev.stop = req[h].ev.stop => g = h

\* Only the commit of a read stores one.
LEMMA StoredAfter ==
  ASSUME [Next]_vars
  PROVE  \/ stored' = stored
         \/ \E h \in Requests : CommitRead(h) /\ stored' = stored \cup {req[h].ev}
BY DEF Next, vars, CheckRead, WriteRead, CloseRun, CommitRead, CheckSkip, SkipStop,
       RaiseSkipException, CloseIfComplete, AssignRun, PlaceStops, StartReassign, Reassign,
       CheckSplit, Split, Fail, AnswerSkip

\* What a commit leaves at the stop of its read.
LEMMA Committed ==
  ASSUME TypeOK, NEW h \in Requests, CommitRead(h)
  PROVE  /\ req[h] \in ReadRequests /\ req[h].ev \in Reads /\ req[h].ev.stop \in Stops
         /\ stored' = stored \cup {req[h].ev}
         /\ req[h].won => /\ stop'[req[h].ev.stop].status = "read"
                          /\ stop'[req[h].ev.stop].record = req[h].ev
                          /\ \A s \in Stops \ {req[h].ev.stop} : stop'[s] = stop[s]
         /\ ~req[h].won => stop' = stop
<1> DEFINE e == req[h].ev
<1>1. req[h] \in ReadRequests /\ e \in Reads /\ e.stop \in Stops
  BY RequestStates, RunStopsAssumption DEF CommitRead, Reading, ReadRequests, RunStopsAssumption
<1>2. ASSUME req[h].won PROVE stop'[e.stop].status = "read" /\ stop'[e.stop].record = e
  <2>1. stop'[e.stop] = [stop[e.stop] EXCEPT !.status = "read", !.record = e]
    BY <1>1, <1>2 DEF CommitRead, TypeOK
  <2> QED
    BY <1>1, <2>1 DEF TypeOK
<1>3. ASSUME req[h].won, NEW s \in Stops \ {e.stop} PROVE stop'[s] = stop[s]
  BY <1>1, <1>3 DEF CommitRead, TypeOK
<1> QED
  BY <1>1, <1>2, <1>3 DEF CommitRead

\* Only the commit of a read makes a stop read, and only a skip makes it skipped.
LEMMA StatusAfter ==
  ASSUME TypeOK, [Next]_vars, NEW s \in Stops
  PROVE  \/ stop'[s].status = stop[s].status
         \/ /\ stop'[s].status = "read"
            /\ \E h \in Requests : CommitRead(h) /\ req[h].won /\ req[h].ev.stop = s
         \/ /\ stop'[s].status = "skipped"
            /\ stop[s].run # NoRun
            /\ \E h \in Requests :
                 req'[h].at = "flagging" /\ req'[h].stop = s /\ req'[h].run = stop[s].run
<1>1. ASSUME NEW h \in Requests, CommitRead(h)
      PROVE  \/ stop'[s].status = stop[s].status
             \/ stop'[s].status = "read" /\ req[h].won /\ req[h].ev.stop = s
  BY <1>1, Committed
<1>2. ASSUME NEW h \in Requests, SkipStop(h)
      PROVE  \/ stop'[s].status = stop[s].status
             \/ /\ stop'[s].status = "skipped" /\ stop[s].run # NoRun
                /\ req'[h].at = "flagging" /\ req'[h].stop = s
                /\ req'[h].run = stop[s].run
  <2>1. req[h] \in SkipRequests
    BY <1>2, RequestStates DEF SkipStop
  <2>2. \/ stop' = stop
        \/ /\ stop' = [stop EXCEPT ![req[h].stop].status = "skipped"]
           /\ stop[req[h].stop].run = req[h].run
           /\ req' = [req EXCEPT ![h] = [req[h] EXCEPT !.at = "flagging"]]
    BY <1>2 DEF SkipStop, Become
  <2>3. CASE stop' = stop
    BY <2>3
  <2>4. CASE /\ stop' = [stop EXCEPT ![req[h].stop].status = "skipped"]
             /\ stop[req[h].stop].run = req[h].run
             /\ req' = [req EXCEPT ![h] = [req[h] EXCEPT !.at = "flagging"]]
    <3>1. req'[h] = [req[h] EXCEPT !.at = "flagging"]
      BY <2>4 DEF TypeOK
    <3>2. req'[h].at = "flagging" /\ req'[h].stop = req[h].stop /\ req'[h].run = req[h].run
      BY <2>1, <3>1 DEF SkipRequests
    <3>3. stop'[s] = IF s = req[h].stop THEN [stop[s] EXCEPT !.status = "skipped"] ELSE stop[s]
      BY <2>1, <2>4 DEF TypeOK, SkipRequests
    <3>4. req[h].run # NoRun
      BY <2>1, RunStopsAssumption DEF SkipRequests, RunStopsAssumption
    <3> QED
      BY <2>4, <3>2, <3>3, <3>4 DEF TypeOK
  <2> QED
    BY <2>2, <2>3, <2>4
<1>3. ASSUME NEW h \in Requests, PlaceStops(h) \/ Moves(h)
      PROVE  stop'[s].status = stop[s].status
  BY <1>3 DEF PlaceStops, Moves, TypeOK
<1>4. ASSUME NEW h \in Requests,
             CloseIfComplete(h) \/ Reassign(h) \/ \E to \in Readers : AssignRun(h, to)
      PROVE  stop' = stop
  BY <1>4 DEF CloseIfComplete, Reassign, AssignRun
<1> QED
  BY <1>1, <1>2, <1>3, <1>4, Effects, SplitMoves

\* Every step keeps Grounded.
LEMMA GroundedStep == TypeOK /\ Answered /\ Grounded /\ [Next]_vars => Grounded'
<1> SUFFICES ASSUME TypeOK, Answered, Grounded, [Next]_vars, NEW h \in Requests
             PROVE  /\ req'[h].at \in Reading /\ req'[h].incumbent # NoRead =>
                         stop'[req'[h].ev.stop].status = "read"
                    /\ req'[h].at \in {"written", "counted"} /\ ~req'[h].won =>
                         stop'[req'[h].ev.stop].status = "read"
  BY DEF Grounded
<1>1. ASSUME req'[h].at \in Reading, req'[h].incumbent # NoRead
      PROVE  stop'[req'[h].ev.stop].status = "read"
  <2>1. CASE Checked(h)
    <3>1. PICK e \in Reads :
            CheckRead(h, e) /\ req'[h].ev = e /\ req'[h].incumbent = stop[e.stop].record
      BY <2>1 DEF Checked
    <3>2. e.stop \in Stops
      BY RunStopsAssumption DEF RunStopsAssumption
    <3>3. stop[e.stop].status = "read"
      BY <1>1, <3>1, <3>2 DEF Answered
    <3> QED
      BY <3>1, <3>2, <3>3, StopsAfter
  <2>2. CASE req[h].at \in Reading /\ req'[h].ev = req[h].ev
               /\ req'[h].incumbent = req[h].incumbent
    <3>1. req[h].ev.stop \in Stops
      BY <2>2, RequestStates, RunStopsAssumption DEF ReadRequests, RunStopsAssumption
    <3>2. stop[req[h].ev.stop].status = "read"
      BY <1>1, <2>2 DEF Grounded
    <3> QED
      BY <2>2, <3>1, <3>2, StopsAfter
  <2> QED
    BY <1>1, <2>1, <2>2, Arrivals
<1>2. ASSUME req'[h].at \in {"written", "counted"}, ~req'[h].won
      PROVE  stop'[req'[h].ev.stop].status = "read"
  <2>1. req[h].at \in Reading /\ req'[h].ev = req[h].ev
    BY <1>2, Arrivals DEF Written, WriteRead, Reading
  <2>2. req[h].ev.stop \in Stops
    BY <2>1, RequestStates, RunStopsAssumption DEF ReadRequests, RunStopsAssumption
  <2>3. stop[req[h].ev.stop].status = "read"
    <3>1. CASE Written(h)
      <4>1. \/ ~Supersedes(req[h].ev, req[h].incumbent)
            \/ ~Unsuperseded(req[h].ev.stop, req[h].incumbent)
        BY <1>2, <3>1 DEF Written
      <4>2. req[h].incumbent # NoRead \/ stop[req[h].ev.stop].record # NoRead
        BY <4>1 DEF Supersedes, Unsuperseded
      <4> QED
        BY <2>1, <2>2, <4>2 DEF Grounded, Answered
    <3>2. CASE req[h].at \in {"written", "counted"} /\ req'[h].won = req[h].won
      BY <1>2, <3>2 DEF Grounded
    <3> QED
      BY <1>2, <3>1, <3>2, Arrivals
  <2> QED
    BY <2>1, <2>2, <2>3, StopsAfter
<1> QED
  BY <1>1, <1>2

\* A stop that is not read by the step, and was not, is without a record still.
LEMMA AnsweredStep == TypeOK /\ Answered /\ Grounded /\ [Next]_vars => Answered'
<1> SUFFICES ASSUME TypeOK, Answered, Grounded, [Next]_vars
             PROVE  /\ \A e \in stored' : stop'[e.stop].status = "read"
                    /\ \A s \in Stops :
                         /\ stop'[s].status = "read" =>
                              stop'[s].record \in stored' /\ stop'[s].record.stop = s
                         /\ stop'[s].status # "read" => stop'[s].record = NoRead
  BY DEF Answered
<1>1. ASSUME NEW e \in stored' PROVE stop'[e.stop].status = "read"
  <2>1. CASE e \in stored
    <3>1. e.stop \in Stops
      BY <2>1, RunStopsAssumption DEF TypeOK, RunStopsAssumption
    <3> QED
      BY <2>1, <3>1, StopsAfter DEF Answered
  <2>2. CASE e \notin stored
    <3>1. PICK h \in Requests : CommitRead(h) /\ e = req[h].ev
      BY <2>2, StoredAfter
    <3>2. CASE req[h].won
      BY <3>1, <3>2, Committed
    <3>3. CASE ~req[h].won
      <4>1. stop[e.stop].status = "read"
        BY <3>1, <3>3 DEF CommitRead, Grounded
      <4> QED
        BY <3>1, <3>3, <4>1, Committed
    <3> QED
      BY <3>2, <3>3
  <2> QED
    BY <2>1, <2>2
<1>2. ASSUME NEW s \in Stops
      PROVE  /\ stop'[s].status = "read" =>
                  stop'[s].record \in stored' /\ stop'[s].record.stop = s
             /\ stop'[s].status # "read" => stop'[s].record = NoRead
  <2>1. CASE \E h \in Requests : CommitRead(h) /\ req[h].won /\ req[h].ev.stop = s
    BY <2>1, Committed
  <2>2. CASE stop'[s].record = stop[s].record
    <3>1. stored \subseteq stored'
      BY StoredAfter
    <3>2. CASE stop'[s].status = "read" => stop[s].status = "read"
      BY <2>2, <3>1, <3>2, StopsAfter DEF Answered
    <3>3. CASE ~(stop'[s].status = "read" => stop[s].status = "read")
      BY <2>1, <3>3, StatusAfter
    <3> QED
      BY <3>2, <3>3
  <2> QED
    BY <2>1, <2>2, StopsAfter
<1> QED
  BY <1>1, <1>2

\* Every step keeps Winning.
LEMMA WinningStep == TypeOK /\ Winning /\ [Next]_vars => Winning'
<1> SUFFICES ASSUME TypeOK, Winning, [Next]_vars PROVE Winning'
  OBVIOUS
<1> DEFINE Won(h) == req[h].at \in {"written", "counted"} /\ req[h].won
           WonNext(h) == req'[h].at \in {"written", "counted"} /\ req'[h].won
           Same(h) == /\ Won(h) /\ req'[h].ev = req[h].ev
                      /\ req'[h].incumbent = req[h].incumbent
           New(h) == /\ WriteRead(h) /\ req'[h].ev = req[h].ev
                     /\ req'[h].incumbent = req[h].incumbent
                     /\ Supersedes(req[h].ev, req[h].incumbent)
                     /\ stop[req[h].ev.stop].record = req[h].incumbent
                     /\ req[h].ev.stop \notin HeldForUpdate
                     /\ \A g \in Requests \ {h} : req'[g] = req[g]
<1>1. ASSUME NEW h \in Requests, WonNext(h) PROVE Same(h) \/ New(h)
  <2>1. CASE Written(h)
    <3>1. /\ Supersedes(req[h].ev, req[h].incumbent)
          /\ Unsuperseded(req[h].ev.stop, req[h].incumbent)
      BY <1>1, <2>1 DEF Written
    <3>2. req[h].ev.stop \notin HeldForUpdate
      <4>1. req'[h] # Idle
        BY <1>1 DEF Idle
      <4>2. req'[h] = Idle \/ req[h].ev.stop \notin HeldForUpdate
        BY <2>1, <3>1 DEF Written, WriteRead, Finish, Become, TypeOK
      <4> QED
        BY <4>1, <4>2
    <3>3. \A g \in Requests \ {h} : req'[g] = req[g]
      BY <2>1 DEF Written, WriteRead, Finish, Become, TypeOK
    <3> QED
      BY <2>1, <3>1, <3>2, <3>3 DEF Written, Unsuperseded
  <2>2. CASE /\ req[h].at \in {"written", "counted"} /\ req'[h].ev = req[h].ev
             /\ req'[h].incumbent = req[h].incumbent /\ req'[h].won = req[h].won
    BY <1>1, <2>2
  <2> QED
    BY <1>1, <2>1, <2>2, Arrivals
<1>2. ASSUME NEW h \in Requests, WonNext(h)
      PROVE  /\ stop'[req'[h].ev.stop].record = req'[h].incumbent
             /\ Supersedes(req[h].ev, req[h].incumbent)
  <2>1. CASE New(h)
    BY <2>1 DEF WriteRead
  <2>2. CASE Same(h)
    <3> DEFINE s == req[h].ev.stop
    <3>1. s \in Stops
      BY <2>2, RequestStates, RunStopsAssumption
      DEF Reading, ReadRequests, RunStopsAssumption
    <3>2. stop[s].record = req[h].incumbent /\ Supersedes(req[h].ev, req[h].incumbent)
      BY <2>2 DEF Winning, InTransaction
    <3>3. ASSUME NEW g \in Requests, CommitRead(g), req[g].won, req[g].ev.stop = s
          PROVE  FALSE
      <4>1. g = h
        BY <2>2, <3>3 DEF CommitRead, Winning, InTransaction
      <4>2. req'[g] = Idle
        BY <3>3 DEF CommitRead, Finish, Become, TypeOK
      <4> QED
        BY <1>2, <4>1, <4>2 DEF Idle
    <3>4. stop'[s].record = stop[s].record
      BY <3>1, <3>3, StopsAfter
    <3> QED
      BY <2>2, <3>2, <3>4
  <2> QED
    BY <1>1, <1>2, <2>1, <2>2
<1>3. ASSUME NEW g \in Requests, NEW h \in Requests, WonNext(g), WonNext(h),
             req'[g].ev.stop = req'[h].ev.stop
      PROVE  g = h
  <2>1. ASSUME NEW x \in Requests, NEW y \in Requests, New(x), WonNext(y),
               req'[x].ev.stop = req'[y].ev.stop
        PROVE  x = y
    <3> SUFFICES ASSUME x # y PROVE FALSE
      OBVIOUS
    <3>1. req'[y] = req[y]
      BY <2>1
    <3>2. y \in InTransaction /\ req[y].won
      BY <2>1, <3>1 DEF InTransaction
    <3>3. req[y].ev.stop \in HeldForUpdate
      BY <3>2 DEF HeldForUpdate
    <3> QED
      BY <2>1, <3>1, <3>3
  <2>2. CASE Same(g) /\ Same(h)
    BY <1>3, <2>2 DEF Winning, InTransaction
  <2> QED
    BY <1>1, <1>3, <2>1, <2>2
<1>4. \A h \in Requests : WonNext(h) =>
        /\ stop'[req'[h].ev.stop].record = req'[h].incumbent
        /\ Supersedes(req'[h].ev, req'[h].incumbent)
  BY <1>1, <1>2
<1>5. \A h \in Requests : h \in InTransaction' <=> req'[h].at \in {"written", "counted"}
  BY DEF InTransaction
<1> QED
  BY <1>3, <1>4, <1>5 DEF Winning, InTransaction, Supersedes

\* A commit never sets the read of record back.
LEMMA NeverOlder ==
  ASSUME TypeOK, Winning, [Next]_vars, NEW s \in Stops, stop[s].record # NoRead
  PROVE  /\ stop'[s].record # NoRead
         /\ stop'[s].record.capturedAt >= stop[s].record.capturedAt
<1>1. CASE stop'[s].record = stop[s].record
  <2>1. stop[s].record.capturedAt \in Nat
    BY RunStopsAssumption DEF TypeOK, RunStopsAssumption
  <2> QED
    BY <1>1, <2>1
<1>2. ASSUME NEW h \in Requests, CommitRead(h), req[h].won, req[h].ev.stop = s,
             stop'[s].record = req[h].ev
      PROVE  req[h].ev # NoRead /\ req[h].ev.capturedAt >= stop[s].record.capturedAt
  <2>1. req[h].ev \in Reads
    BY <1>2, Committed
  <2>2. stop[s].record = req[h].incumbent /\ Supersedes(req[h].ev, req[h].incumbent)
    BY <1>2 DEF CommitRead, Winning, InTransaction
  <2> QED
    BY <2>1, <2>2, RunStopsAssumption DEF Supersedes, RunStopsAssumption
<1> QED
  BY <1>1, <1>2, StopsAfter

\* A read that landed counts: a stop is read exactly when one of its reads is
\* stored, its read of record is one of them, and that stays so whatever was
\* skipped, retried, corrected or cut off before
\* (ingestion.service.ts:187-203).
THEOREM LandedReadsCount == Spec => []ReadsCount
<1> DEFINE IInv == TypeOK /\ Placed /\ Carving /\ Closing /\ Answered /\ Grounded
<1>1. Init => IInv
  <2>1. Init => Answered /\ Grounded
    BY DEF Init, Answered, Grounded, Idle, Reading
  <2> QED
    BY <2>1, InitHolds
<1>2. IInv /\ [Next]_vars => IInv'
  BY TypeStep, PlacedStep, CarvingStep, ClosingStep, AnsweredStep, GroundedStep
<1>3. IInv => ReadsCount
  BY RunStopsAssumption DEF Answered, ReadsCount, TypeOK, RunStopsAssumption
<1> QED
  BY <1>1, <1>2, <1>3, PTL DEF Spec

\* A replay out of order never sets the read of record back in capture time:
\* between the comparison and the commit the row is compared again and held
\* (ingestion.service.ts:199-219).
THEOREM RecordsNeverOlder == Spec => RecordNeverOlder
<1> DEFINE IInv == TypeOK /\ Placed /\ Carving /\ Closing /\ Winning
<1>1. Init => IInv
  <2>1. Init => Winning
    BY DEF Init, Winning, InTransaction, Idle
  <2> QED
    BY <2>1, InitHolds
<1>2. IInv /\ [Next]_vars => IInv'
  BY TypeStep, PlacedStep, CarvingStep, ClosingStep, WinningStep
<1>3. IInv /\ [Next]_vars =>
        [\A s \in Stops : stop[s].record # NoRead =>
           /\ stop'[s].record # NoRead
           /\ stop'[s].record.capturedAt >= stop[s].record.capturedAt]_vars
  BY NeverOlder
<1> QED
  BY <1>1, <1>2, <1>3, PTL DEF Spec, RecordNeverOlder

-----------------------------------------------------------------------------
(* Moving and skipping.                                                    *)

\* A stop that is on no run is pending.
Unplaced == \A s \in Stops : stop[s].run = NoRun => stop[s].status = "pending"

\* Every step keeps Unplaced.
LEMMA UnplacedStep == TypeOK /\ Placed /\ Unplaced /\ [Next]_vars => Unplaced'
<1> SUFFICES ASSUME TypeOK, Placed, Unplaced, [Next]_vars, NEW s \in Stops, stop'[s].run = NoRun
             PROVE  stop'[s].status = "pending"
  BY DEF Unplaced
<1>1. stop[s].run = NoRun /\ stop[s].status = "pending"
  BY RunsKept DEF Unplaced
<1>2. \A h \in Requests : CommitRead(h) => req[h].ev.stop # s
  BY <1>1 DEF CommitRead, Placed, Reading
<1> QED
  BY <1>1, <1>2, StatusAfter

\* A stop that changes hands is pending and stays so.
LEMMA PendingMoves ==
  ASSUME TypeOK, Placed, Unplaced, [Next]_vars, NEW s \in Stops, stop'[s].run # stop[s].run
  PROVE  stop[s].status = "pending" /\ stop'[s].status = "pending"
<1>1. ASSUME NEW h \in Requests, PlaceStops(h)
      PROVE  stop[s].status = "pending" /\ stop'[s].status = stop[s].status
  BY <1>1 DEF PlaceStops, Placed, Unplaced, TypeOK
<1>2. ASSUME NEW h \in Requests, Moves(h), s \in req[h].moving
      PROVE  stop[s].status = "pending" /\ stop'[s].status = stop[s].status
  <2>1. stop[s].status = "pending"
    BY <1>2 DEF Moves, Pending
  <2>2. stop'[s].status = stop[s].status
    BY <1>2 DEF Moves, TypeOK
  <2> QED
    BY <2>1, <2>2
<1> QED
  BY <1>1, <1>2, StopsAfter

\* An exception that was raised stays on record.
LEMMA FlagsStay ==
  ASSUME TypeOK, [Next]_vars, NEW s \in Stops, flag[s] # "none"
  PROVE  flag'[s] # "none"
<1>1. ASSUME NEW h \in Requests, CommitRead(h) \/ RaiseSkipException(h) PROVE flag'[s] # "none"
  BY <1>1 DEF CommitRead, RaiseSkipException, Raised, TypeOK
<1>2. ASSUME NEW t \in Stops, AnswerSkip(t) PROVE flag'[s] # "none"
  BY <1>2 DEF AnswerSkip, TypeOK
<1>3. \/ flag' = flag
      \/ \E h \in Requests : CommitRead(h) \/ RaiseSkipException(h)
      \/ \E t \in Stops : AnswerSkip(t)
  BY DEF Next, vars, CheckRead, WriteRead, CloseRun, CheckSkip, SkipStop, CloseIfComplete,
         AssignRun, PlaceStops, StartReassign, Reassign, CheckSplit, Split, Fail
<1> QED
  BY <1>1, <1>2, <1>3

\* A request that is to raise the exception of a skip goes on to it, unless it dies.
LEMMA FlaggingEnds ==
  ASSUME TypeOK, [Next]_vars, NEW h \in Requests, req[h].at = "flagging"
  PROVE  \/ req'[h] = req[h]
         \/ flag'[req[h].stop] # "none"
         \/ failures' # 0
<1>1. ASSUME Own(h) PROVE RaiseSkipException(h) \/ Fail(h)
  <2>1. req[h] # Idle
    BY DEF Idle
  <2>2. /\ \A e \in Reads : ~CheckRead(h, e)
        /\ \A r \in Runs, s \in Stops : ~CheckSkip(h, r, s)
        /\ \A to \in Readers : ~AssignRun(h, to)
    BY <2>1 DEF CheckRead, CheckSkip, AssignRun
  <2>3. /\ \A r \in Runs, to \in Owners : ~StartReassign(h, r, to)
        /\ \A r, new \in Runs, S \in SUBSET Stops, to \in Readers : ~CheckSplit(h, r, S, to, new)
    BY <2>1 DEF StartReassign, CheckSplit
  <2>4. ~WriteRead(h) /\ ~CloseRun(h) /\ ~CommitRead(h)
    BY DEF WriteRead, CloseRun, CommitRead
  <2>5. ~SkipStop(h) /\ ~CloseIfComplete(h) /\ ~PlaceStops(h) /\ ~Reassign(h) /\ ~Split(h)
    BY DEF SkipStop, CloseIfComplete, PlaceStops, Reassign, Split
  <2> QED
    BY <1>1, <2>2, <2>3, <2>4, <2>5 DEF Own
<1>2. ASSUME RaiseSkipException(h) PROVE flag'[req[h].stop] # "none"
  <2>1. req[h].stop \in Stops
    BY RequestStates DEF SkipRequests
  <2> QED
    BY <1>2, <2>1 DEF RaiseSkipException, Raised, TypeOK
<1>3. ASSUME Fail(h) PROVE failures' # 0
  BY <1>3, RunStopsAssumption DEF Fail, TypeOK, RunStopsAssumption
<1> QED
  BY <1>1, <1>2, <1>3, OthersStand

\* Every step keeps what a skip promises.
LEMMA RaisedStep == TypeOK /\ SkipIsRaised /\ [Next]_vars => SkipIsRaised'
<1> SUFFICES ASSUME TypeOK, SkipIsRaised, [Next]_vars, failures' = 0,
                    NEW s \in Stops, stop'[s].status = "skipped"
             PROVE  \/ flag'[s] # "none"
                    \/ \E h \in Requests : req'[h].at = "flagging" /\ req'[h].stop = s
  BY DEF SkipIsRaised
<1>1. failures = 0
  <2>1. failures' = failures \/ failures' = failures + 1
    BY DEF Next, vars, CheckRead, WriteRead, CloseRun, CommitRead, CheckSkip, SkipStop,
           RaiseSkipException, CloseIfComplete, AssignRun, PlaceStops, StartReassign, Reassign,
           CheckSplit, Split, Fail, AnswerSkip
  <2> QED
    BY <2>1, RunStopsAssumption DEF TypeOK, RunStopsAssumption
<1>2. CASE stop[s].status = "skipped"
  BY <1>1, <1>2, FlagsStay, FlaggingEnds DEF SkipIsRaised
<1>3. CASE stop[s].status # "skipped"
  BY <1>3, StatusAfter
<1> QED
  BY <1>2, <1>3

\* A stop changes hands only while it is pending, whatever lands while a split
\* is under way (ADR-005, runs.service.ts:292-319).
THEOREM PendingOnlyMoves == Spec => OnlyPendingMoves
<1> DEFINE IInv == TypeOK /\ Placed /\ Carving /\ Closing /\ Unplaced
<1>1. Init => IInv
  <2>1. Init => Unplaced
    BY DEF Init, Unplaced
  <2> QED
    BY <2>1, InitHolds
<1>2. IInv /\ [Next]_vars => IInv'
  BY TypeStep, PlacedStep, CarvingStep, ClosingStep, UnplacedStep
<1>3. IInv /\ [Next]_vars =>
        [\A s \in Stops : stop'[s].run # stop[s].run =>
           stop[s].status = "pending" /\ stop'[s].status = "pending"]_vars
  BY PendingMoves
<1> QED
  BY <1>1, <1>2, <1>3, PTL DEF Spec, OnlyPendingMoves

\* A skipped stop has an exception once its request is over, if no request died
\* (runs.service.ts:375-377).
THEOREM SkipsAreRaised == Spec => []SkipIsRaised
<1> DEFINE IInv == TypeOK /\ Placed /\ Carving /\ Closing /\ SkipIsRaised
<1>1. Init => IInv
  <2>1. Init => SkipIsRaised
    BY DEF Init, SkipIsRaised
  <2> QED
    BY <2>1, InitHolds
<1>2. IInv /\ [Next]_vars => IInv'
  BY TypeStep, PlacedStep, CarvingStep, ClosingStep, RaisedStep
<1>3. IInv => SkipIsRaised
  OBVIOUS
<1> QED
  BY <1>1, <1>2, <1>3, PTL DEF Spec
-----------------------------------------------------------------------------
(* What holds when requests do not overlap.  RecordIsLatest and ReadIsOwners *)
(* do not hold of Spec; here is what breaks them, and that nothing else does. *)

\* Two different readings of one stop are not ingested at once; one reading
\* sent twice may be.
ReadingsApart ==
  \A g, h \in Requests :
    req[g].at \in Reading /\ req[h].at \in Reading /\ req[g].ev.stop = req[h].ev.stop
    => req[g].ev = req[h].ev

\* The stops a request is about to give to another reader.
Transferring(h) ==
  IF req[h].at = "reassigning" THEN StopsOf(req[h].run)
  ELSE IF req[h].at = "splitting" THEN req[h].moving ELSE {}

\* No stop changes hands while a read of it is ingested.
TransfersApart ==
  \A g, h \in Requests : req[g].at \in Reading => req[g].ev.stop \notin Transferring(h)

\* A read is compared with what is the read of record until it commits, unless it
\* is on record itself; whether it becomes the read of record is up to the times
\* alone, and one request at most writes it.
Compared ==
  /\ \A h \in Requests : req[h].at \in Reading =>
       req[h].incumbent = stop[req[h].ev.stop].record \/ req[h].ev \in stored
  /\ \A h \in InTransaction :
       /\ req[h].incumbent = stop[req[h].ev.stop].record
       /\ req[h].won <=> Supersedes(req[h].ev, req[h].incumbent)
  /\ \A g, h \in InTransaction : req[g].ev = req[h].ev => g = h

\* No read on record is later than the read of record of its stop.
Latest == \A e \in stored : stop[e.stop].record.capturedAt >= e.capturedAt

\* Stored reads stay.
LEMMA StoredGrows == ASSUME [Next]_vars PROVE stored \subseteq stored'
BY StoredAfter

\* While readings are apart every step keeps Compared.
LEMMA ComparedStep ==
  TypeOK /\ Compared /\ ReadingsApart /\ [Next]_vars => Compared'
<1> SUFFICES ASSUME TypeOK, Compared, ReadingsApart, [Next]_vars PROVE Compared'
  OBVIOUS
<1> DEFINE InNext(h) == req'[h].at \in {"written", "counted"}
           Same(h) == /\ req[h].at \in {"written", "counted"} /\ req'[h].ev = req[h].ev
                      /\ req'[h].incumbent = req[h].incumbent /\ req'[h].won = req[h].won
<1>1. \A h \in Requests : h \in InTransaction' <=> InNext(h)
  BY DEF InTransaction
<1>2. \A h \in Requests : h \in InTransaction <=> req[h].at \in {"written", "counted"}
  BY DEF InTransaction
<1>3. ASSUME NEW h \in Requests, req[h].at \in Reading
      PROVE  req[h].ev.stop \in Stops
  BY <1>3, RequestStates, RunStopsAssumption DEF ReadRequests, RunStopsAssumption
<1>4. ASSUME NEW h \in Requests, req[h].at \in Reading
      PROVE  \/ stop'[req[h].ev.stop].record = stop[req[h].ev.stop].record
             \/ \E g \in Requests : CommitRead(g) /\ req[g].ev = req[h].ev
  <2>1. ASSUME NEW g \in Requests, CommitRead(g), req[g].ev.stop = req[h].ev.stop
        PROVE  req[g].ev = req[h].ev
    BY <1>4, <2>1 DEF CommitRead, ReadingsApart, Reading
  <2> QED
    BY <1>3, <1>4, <2>1, StopsAfter
<1>5. ASSUME NEW h \in Requests, req'[h].at \in Reading
      PROVE  req'[h].incumbent = stop'[req'[h].ev.stop].record \/ req'[h].ev \in stored'
  <2>1. CASE Checked(h)
    BY <2>1 DEF Checked, CheckRead
  <2>2. CASE /\ req[h].at \in Reading /\ req'[h].ev = req[h].ev
             /\ req'[h].incumbent = req[h].incumbent
    <3>1. req[h].incumbent = stop[req[h].ev.stop].record \/ req[h].ev \in stored
      BY <2>2 DEF Compared
    <3>2. ASSUME NEW g \in Requests, CommitRead(g), req[g].ev = req[h].ev
          PROVE  req[h].ev \in stored'
      BY <3>2 DEF CommitRead
    <3> QED
      BY <1>4, <2>2, <3>1, <3>2, StoredGrows
  <2> QED
    BY <1>5, <2>1, <2>2, Arrivals
<1>6. ASSUME NEW h \in Requests, Written(h)
      PROVE  /\ stop' = stop /\ req[h].at = "checked" /\ req[h].ev \notin stored
             /\ \A g \in InTransaction : req[g].ev # req[h].ev
             /\ \A g \in Requests \ {h} : req'[g] = req[g]
  <2>1. req'[h] # Idle
    BY <1>6 DEF Written, Idle
  <2>2. req[h].ev \notin stored
    <3>1. req[h].ev \in stored => Finish(h)
      BY <1>6 DEF Written, WriteRead
    <3>2. Finish(h) => req'[h] = Idle
      BY DEF Finish, Become, TypeOK
    <3> QED
      BY <2>1, <3>1, <3>2
  <2>3. \A g \in Requests \ {h} : req'[g] = req[g]
    BY <1>6 DEF Written, WriteRead, Finish, Become, TypeOK
  <2> QED
    BY <1>6, <2>2, <2>3 DEF Written, WriteRead
<1>7. ASSUME NEW h \in Requests, InNext(h)
      PROVE  /\ req'[h].incumbent = stop'[req'[h].ev.stop].record
             /\ req'[h].won <=> Supersedes(req'[h].ev, req'[h].incumbent)
  <2>1. CASE Written(h)
    <3>1. req[h].incumbent = stop[req[h].ev.stop].record
      BY <1>6, <2>1 DEF Compared, Reading
    <3>2. Unsuperseded(req[h].ev.stop, req[h].incumbent)
      BY <3>1 DEF Unsuperseded
    <3>3. req'[h].ev = req[h].ev /\ req'[h].incumbent = req[h].incumbent
      BY <2>1 DEF Written
    <3>4. req'[h].won <=> Supersedes(req[h].ev, req[h].incumbent)
      BY <2>1, <3>2 DEF Written
    <3> QED
      BY <1>6, <2>1, <3>1, <3>3, <3>4
  <2>2. CASE Same(h)
    <3>1. /\ req[h].incumbent = stop[req[h].ev.stop].record
          /\ req[h].won <=> Supersedes(req[h].ev, req[h].incumbent)
      BY <1>2, <2>2 DEF Compared
    <3>2. ASSUME NEW g \in Requests, CommitRead(g), req[g].ev = req[h].ev PROVE FALSE
      <4>1. g = h
        BY <1>2, <2>2, <3>2 DEF CommitRead, Compared
      <4>2. req'[h] = Idle
        BY <3>2, <4>1 DEF CommitRead, Finish, Become, TypeOK
      <4> QED
        BY <1>7, <4>2 DEF Idle
    <3>3. stop'[req[h].ev.stop].record = stop[req[h].ev.stop].record
      BY <1>4, <2>2, <3>2 DEF Reading
    <3> QED
      BY <2>2, <3>1, <3>3
  <2> QED
    BY <1>7, <2>1, <2>2, Arrivals
<1>8. ASSUME NEW g \in Requests, NEW h \in Requests, InNext(g), InNext(h),
             req'[g].ev = req'[h].ev
      PROVE  g = h
  <2>1. ASSUME NEW x \in Requests, NEW y \in Requests, Written(x), InNext(y),
               req'[x].ev = req'[y].ev
        PROVE  x = y
    <3> SUFFICES ASSUME x # y PROVE FALSE
      OBVIOUS
    <3>1. req'[y] = req[y]
      BY <1>6, <2>1
    <3>2. y \in InTransaction
      BY <1>2, <2>1, <3>1
    <3>3. req'[x].ev = req[x].ev
      BY <2>1 DEF Written
    <3> QED
      BY <1>6, <2>1, <3>1, <3>2, <3>3
  <2>2. CASE Same(g) /\ Same(h)
    BY <1>2, <1>8, <2>2 DEF Compared
  <2> QED
    BY <1>8, <2>1, <2>2, Arrivals
<1>9. \A h \in InTransaction' :
        /\ req'[h].incumbent = stop'[req'[h].ev.stop].record
        /\ req'[h].won <=> Supersedes(req'[h].ev, req'[h].incumbent)
  BY <1>1, <1>7 DEF InTransaction
<1>10. \A g, h \in InTransaction' : req'[g].ev = req'[h].ev => g = h
  BY <1>1, <1>8 DEF InTransaction
<1> QED
  BY <1>5, <1>9, <1>10 DEF Compared, Supersedes

\* While readings are apart every step keeps Latest.
LEMMA LatestStep ==
  TypeOK /\ Answered /\ Compared /\ Latest /\ [Next]_vars => Latest'
<1> SUFFICES ASSUME TypeOK, Answered, Compared, Latest, [Next]_vars, NEW f \in stored'
             PROVE  stop'[f.stop].record.capturedAt >= f.capturedAt
  BY DEF Latest
<1>1. ASSUME NEW h \in Requests, CommitRead(h)
      PROVE  stop'[f.stop].record.capturedAt >= f.capturedAt
  <2> DEFINE e == req[h].ev
             record == stop[e.stop].record
  <2>1. e \in Reads /\ e.stop \in Stops /\ e.capturedAt \in Nat /\ stored \subseteq Reads
    BY <1>1, Committed, RunStopsAssumption DEF TypeOK, RunStopsAssumption
  <2>2. /\ req[h].incumbent = record
        /\ req[h].won <=> Supersedes(e, record)
    BY <1>1 DEF CommitRead, Compared, InTransaction
  <2>3. f \in stored \/ f = e
    BY <1>1 DEF CommitRead
  <2>4. f \in Reads /\ f.stop \in Stops /\ f.capturedAt \in Nat
    BY <2>1, <2>3, RunStopsAssumption DEF RunStopsAssumption
  <2>5. CASE f.stop # e.stop
    <3>1. stop'[f.stop] = stop[f.stop]
      BY <1>1, <2>4, <2>5, Committed
    <3> QED
      BY <2>3, <2>5, <3>1 DEF Latest
  <2>6. CASE f.stop = e.stop /\ req[h].won
    <3>1. stop'[f.stop].record = e
      BY <1>1, <2>6, Committed
    <3>2. f \in stored => record \in stored /\ record # NoRead /\ record.capturedAt >= f.capturedAt
      <4> SUFFICES ASSUME f \in stored
                   PROVE  record \in stored /\ record # NoRead /\ record.capturedAt >= f.capturedAt
        OBVIOUS
      <4>1. record \in stored
        BY <2>1, <2>6 DEF Answered
      <4> QED
        BY <2>1, <2>6, <4>1, RunStopsAssumption DEF Latest, RunStopsAssumption
    <3>3. f \in stored => e.capturedAt >= record.capturedAt /\ record.capturedAt \in Nat
      BY <2>1, <2>2, <2>6, <3>2, RunStopsAssumption DEF Supersedes, RunStopsAssumption
    <3> QED
      BY <2>1, <2>3, <2>4, <3>1, <3>2, <3>3
  <2>7. CASE f.stop = e.stop /\ ~req[h].won
    <3>1. stop' = stop
      BY <1>1, <2>7, Committed
    <3>2. record # NoRead /\ ~(e.capturedAt >= record.capturedAt)
      BY <2>2, <2>7 DEF Supersedes
    <3>3. record \in Reads /\ record.capturedAt \in Nat
      BY <2>1, <3>2, RunStopsAssumption DEF TypeOK, RunStopsAssumption
    <3>4. record.capturedAt >= e.capturedAt
      BY <2>1, <3>2, <3>3
    <3> QED
      BY <2>3, <2>7, <3>1, <3>4 DEF Latest
  <2> QED
    BY <2>5, <2>6, <2>7
<1>2. CASE stored' = stored /\ \A h \in Requests : ~CommitRead(h)
  <2>1. f \in stored /\ f.stop \in Stops
    BY <1>2, RunStopsAssumption DEF TypeOK, RunStopsAssumption
  <2>2. stop'[f.stop].record = stop[f.stop].record
    BY <1>2, <2>1, StopsAfter
  <2> QED
    BY <2>1, <2>2 DEF Latest
<1> QED
  BY <1>1, <1>2, StoredAfter

\* Unless different readings of a stop are ingested at once the read of record is
\* the latest reading taken at the stop, in whatever order they arrive, however
\* often each is sent and whatever dies, is skipped, split or reassigned meanwhile
\* (ingestion.service.ts:187-188, 219).
THEOREM RecordIsLatestUnlessReadingsMeet == Spec /\ []ReadingsApart => []RecordIsLatest
<1> DEFINE IInv == /\ TypeOK /\ Placed /\ Carving /\ Closing /\ Answered /\ Grounded
                   /\ Compared /\ Latest
<1>1. Init => IInv
  <2>1. Init => Answered /\ Grounded /\ Compared /\ Latest
    BY DEF Init, Answered, Grounded, Compared, Latest, InTransaction, Idle, Reading
  <2> QED
    BY <2>1, InitHolds
<1>2. IInv /\ ReadingsApart /\ [Next]_vars => IInv'
  BY TypeStep, PlacedStep, CarvingStep, ClosingStep, AnsweredStep, GroundedStep,
     ComparedStep, LatestStep
<1>3. IInv => RecordIsLatest
  BY DEF Latest, RecordIsLatest
<1> QED
  BY <1>1, <1>2, <1>3, PTL DEF Spec

\* What a reader has read, or is reading, is on a run of theirs, and a run that is
\* to change hands has no read on it.
Owned ==
  /\ ReadIsOwners
  /\ \A h \in Requests : req[h].at \in Reading /\ req[h].ev.by \in Readers =>
       run[stop[req[h].ev.stop].run].reader = req[h].ev.by
  /\ \A h \in Requests : req[h].at = "reassigning" =>
       /\ run[req[h].run].status # "absent"
       /\ req[h].free => \A s \in Stops : stop[s].run = req[h].run => stop[s].record = NoRead

\* Who a run belongs to changes when it is assigned, reassigned or carved out.
LEMMA ReaderAfter ==
  ASSUME TypeOK, [Next]_vars, NEW r \in Runs
  PROVE  \/ run'[r].reader = run[r].reader
         \/ r = AssignedRun /\ run[r].status = "absent"
         \/ \E h \in Requests : Reassign(h) /\ req[h].free /\ req[h].run = r
         \/ \E h \in Requests : Moves(h) /\ req[h].new = r
<1>1. CASE run' = run
  BY <1>1
<1>2. ASSUME NEW h \in Requests, CommitRead(h) PROVE run'[r].reader = run[r].reader
  <2>1. run'[r] = IF r = req[h].closes THEN [run[r] EXCEPT !.status = "closed"] ELSE run[r]
    BY <1>2 DEF CommitRead
  <2> QED
    BY <2>1 DEF TypeOK
<1>3. ASSUME NEW h \in Requests, CloseIfComplete(h) PROVE run'[r].reader = run[r].reader
  BY <1>3 DEF CloseIfComplete, TypeOK
<1>4. ASSUME NEW h \in Requests, NEW to \in Readers, AssignRun(h, to)
      PROVE  run'[r] = run[r] \/ (r = AssignedRun /\ run[r].status = "absent")
  BY <1>4 DEF AssignRun, TypeOK
<1>5. ASSUME NEW h \in Requests, Reassign(h)
      PROVE  run'[r] = run[r] \/ (req[h].free /\ req[h].run = r)
  BY <1>5 DEF Reassign, TypeOK
<1>6. ASSUME NEW h \in Requests, Moves(h) PROVE run'[r] = run[r] \/ req[h].new = r
  BY <1>6 DEF Moves, TypeOK
<1>7. ASSUME NEW h \in Requests, SkipStop(h) \/ PlaceStops(h) PROVE run' = run
  BY <1>7 DEF SkipStop, PlaceStops
<1> QED
  BY <1>1, <1>2, <1>3, <1>4, <1>5, <1>6, <1>7, Effects, SplitMoves

\* What its own step makes of a request to reassign.
LEMMA Reassigning ==
  ASSUME TypeOK, [Next]_vars, NEW h \in Requests, req'[h].at = "reassigning"
  PROVE  \/ req'[h] = req[h]
         \/ /\ UNCHANGED <<run, stop>>
            /\ run[req'[h].run].status # "absent"
            /\ req'[h].free => \A s \in StopsOf(req'[h].run) : stop[s].status = "pending"
<1>1. ASSUME NEW r \in Runs, NEW to \in Owners, StartReassign(h, r, to)
      PROVE  /\ UNCHANGED <<run, stop>>
             /\ run[req'[h].run].status # "absent"
             /\ req'[h].free => \A s \in StopsOf(req'[h].run) : stop[s].status = "pending"
  <2> DEFINE free == \A s \in StopsOf(r) : stop[s].status = "pending"
  <2>1. req'[h] = [at |-> "reassigning", run |-> r, to |-> to, free |-> free]
    BY <1>1 DEF StartReassign, Become, TypeOK
  <2>2. req'[h].run = r /\ req'[h].free = free
    BY <2>1
  <2> QED
    BY <1>1, <2>2 DEF StartReassign
<1>2. ASSUME Own(h) PROVE \E r \in Runs, to \in Owners : StartReassign(h, r, to)
  <2>1. ASSUME NEW q, Become(h, q) PROVE req'[h] = q
    BY <2>1 DEF Become, TypeOK
  <2>2. /\ \A e \in Reads : ~CheckRead(h, e)
        /\ \A r \in Runs, s \in Stops : ~CheckSkip(h, r, s)
        /\ \A to \in Readers : ~AssignRun(h, to)
        /\ \A r, new \in Runs, S \in SUBSET Stops, to \in Readers : ~CheckSplit(h, r, S, to, new)
    BY <2>1 DEF CheckRead, CheckSkip, AssignRun, CheckSplit
  <2>3. ~CommitRead(h) /\ ~CloseIfComplete(h) /\ ~PlaceStops(h) /\ ~Reassign(h) /\ ~Split(h) /\ ~Fail(h)
    BY <2>1 DEF CommitRead, CloseIfComplete, PlaceStops, Reassign, Split, Fail, Finish, Idle
  <2>4. ~WriteRead(h) /\ ~CloseRun(h)
    <3>1. ASSUME WriteRead(h) PROVE FALSE
      <4> DEFINE supersedes == Supersedes(req[h].ev, req[h].incumbent)
                 wins == supersedes /\ Unsuperseded(req[h].ev.stop, req[h].incumbent)
                 answers == supersedes /\ flag[req[h].ev.stop] = "open"
      <4> HIDE DEF wins, answers
      <4>1. req[h] \in ReadRequests
        BY <3>1, RequestStates DEF WriteRead, Reading
      <4>2. \/ Finish(h)
            \/ Become(h, [req[h] EXCEPT !.at = "written", !.won = wins, !.answers = answers])
        BY <3>1 DEF WriteRead, wins, answers
      <4>3. \/ req'[h] = Idle
            \/ req'[h] = [req[h] EXCEPT !.at = "written", !.won = wins, !.answers = answers]
        BY <2>1, <4>2 DEF Finish
      <4>4. [req[h] EXCEPT !.at = "written", !.won = wins, !.answers = answers].at = "written"
        BY <4>1 DEF ReadRequests
      <4>5. req'[h] # Idle
        BY DEF Idle
      <4>6. req'[h].at = "written"
        BY <4>3, <4>4, <4>5, Zenon
      <4> QED
        BY <4>6
    <3>2. ASSUME CloseRun(h) PROVE FALSE
      <4>1. req[h] \in ReadRequests
        BY <3>2, RequestStates DEF CloseRun, Reading
      <4>2. PICK c : Become(h, [req[h] EXCEPT !.at = "counted", !.closes = c])
        BY <3>2 DEF CloseRun
      <4>3. req'[h] = [req[h] EXCEPT !.at = "counted", !.closes = c]
        BY <2>1, <4>2
      <4> QED
        BY <4>1, <4>3 DEF ReadRequests
    <3> QED
      BY <3>1, <3>2
  <2>5. ~SkipStop(h) /\ ~RaiseSkipException(h)
    <3>1. SkipStop(h) \/ RaiseSkipException(h) => req[h] \in SkipRequests
      BY RequestStates DEF SkipStop, RaiseSkipException
    <3>2. SkipStop(h) \/ RaiseSkipException(h) =>
            \/ req'[h] = Idle
            \/ req'[h] = [req[h] EXCEPT !.at = "flagging"]
            \/ req'[h] = [req[h] EXCEPT !.at = "closing"]
      BY <2>1 DEF SkipStop, RaiseSkipException, Finish
    <3> QED
      BY <3>1, <3>2 DEF SkipRequests, Idle
  <2> QED
    BY <1>2, <2>2, <2>3, <2>4, <2>5 DEF Own
<1> QED
  BY <1>1, <1>2, OthersStand

\* A stop is on the run it was on, or has no read of record: what is read never
\* moves.
LEMMA ReadsStay ==
  ASSUME TypeOK, Placed, Answered, Unplaced, [Next]_vars, NEW s \in Stops,
         \/ stop[s].record # NoRead
         \/ \A h \in Requests : ~PlaceStops(h) /\ ~(Moves(h) /\ s \in req[h].moving)
  PROVE  stop'[s].run = stop[s].run
<1>1. CASE stop[s].record # NoRead
  BY <1>1, PendingMoves DEF Answered
<1>2. CASE \A h \in Requests : ~PlaceStops(h) /\ ~(Moves(h) /\ s \in req[h].moving)
  BY <1>2, StopsAfter
<1> QED
  BY <1>1, <1>2

\* While transfers are apart from reads, every step keeps Owned.
LEMMA OwnedStep ==
  /\ TypeOK /\ Placed /\ Carving /\ Answered /\ Unplaced
  /\ Owned /\ TransfersApart /\ [Next]_vars
  => Owned'
<1> SUFFICES ASSUME TypeOK, Placed, Carving, Answered, Unplaced, Owned, TransfersApart,
                    [Next]_vars
             PROVE  Owned'
  OBVIOUS
<1> DEFINE Owner(s) == run[stop[s].run].reader
           OwnerNext(s) == run'[stop'[s].run].reader
\* The owner of a stop that is read stays.
<1>1. ASSUME NEW s \in Stops, stop[s].record # NoRead PROVE OwnerNext(s) = Owner(s)
  <2>1. stop'[s].run = stop[s].run
    BY <1>1, ReadsStay
  <2>2. stop[s].run # NoRun /\ stop[s].run \in Runs /\ run[stop[s].run].status # "absent"
    BY <1>1 DEF Unplaced, Answered, TypeOK
  <2>3. \A h \in Requests : ~(Reassign(h) /\ req[h].free /\ req[h].run = stop[s].run)
    BY <1>1 DEF Owned, Reassign
  <2>4. \A h \in Requests : ~(Moves(h) /\ req[h].new = stop[s].run)
    BY <2>2 DEF Moves, Split, Carving
  <2> QED
    BY <2>1, <2>2, <2>3, <2>4, ReaderAfter
\* ... and that of a stop whose read is ingested.
<1>2. ASSUME NEW h \in Requests, req[h].at \in Reading
      PROVE  req[h].ev.stop \in Stops /\ OwnerNext(req[h].ev.stop) = Owner(req[h].ev.stop)
  <2> DEFINE s == req[h].ev.stop
  <2>1. s \in Stops /\ stop[s].run # NoRun /\ stop[s].run \in Runs
          /\ run[stop[s].run].status # "absent"
    <3>1. s \in Stops
      BY <1>2, RequestStates, RunStopsAssumption DEF ReadRequests, RunStopsAssumption
    <3> QED
      BY <1>2, <3>1 DEF Placed, TypeOK
  <2>2. \A g \in Requests : ~PlaceStops(g)
    BY <1>2, NoPlacing
  <2>3. \A g \in Requests : s \notin Transferring(g)
    BY <1>2 DEF TransfersApart
  <2>4. \A g \in Requests : ~(Moves(g) /\ s \in req[g].moving)
    BY <2>3 DEF Transferring, Moves, Split
  <2>5. \A g \in Requests : ~(Reassign(g) /\ req[g].run = stop[s].run)
    BY <2>1, <2>3 DEF Transferring, Reassign, StopsOf
  <2>6. \A g \in Requests : ~(Moves(g) /\ req[g].new = stop[s].run)
    BY <2>1 DEF Moves, Split, Carving
  <2>7. stop'[s].run = stop[s].run
    BY <2>1, <2>2, <2>4, ReadsStay
  <2> QED
    BY <2>1, <2>5, <2>6, <2>7, ReaderAfter
<1>3. ASSUME NEW s \in Stops, stop'[s].record # NoRead, stop'[s].record.by \in Readers
      PROVE  OwnerNext(s) = stop'[s].record.by
  <2>1. CASE stop'[s].record = stop[s].record
    BY <1>1, <1>3, <2>1 DEF Owned, ReadIsOwners
  <2>2. ASSUME NEW h \in Requests, CommitRead(h), req[h].ev.stop = s, stop'[s].record = req[h].ev
        PROVE  OwnerNext(s) = stop'[s].record.by
    <3>1. req[h].at \in Reading
      BY <2>2 DEF CommitRead, Reading
    <3> QED
      BY <1>2, <1>3, <2>2, <3>1 DEF Owned
  <2> QED
    BY <2>1, <2>2, StopsAfter
<1>4. ASSUME NEW h \in Requests, req'[h].at \in Reading, req'[h].ev.by \in Readers
      PROVE  OwnerNext(req'[h].ev.stop) = req'[h].ev.by
  <2>1. CASE Checked(h)
    <3>1. PICK e \in Reads : CheckRead(h, e) /\ req'[h].ev = e
      BY <2>1 DEF Checked
    <3> QED
      BY <1>4, <3>1, RunStopsAssumption DEF CheckRead, MayPost, RunStopsAssumption
  <2>2. CASE req[h].at \in Reading /\ req'[h].ev = req[h].ev
    BY <1>2, <1>4, <2>2 DEF Owned
  <2> QED
    BY <1>4, <2>1, <2>2, Arrivals
<1>5. ASSUME NEW h \in Requests, req'[h].at = "reassigning"
      PROVE  /\ run'[req'[h].run].status # "absent"
             /\ req'[h].free =>
                  \A s \in Stops : stop'[s].run = req'[h].run => stop'[s].record = NoRead
  <2> DEFINE r == req'[h].run
  <2>1. CASE req'[h] = req[h]
    <3>1. r \in Runs
      BY <1>5, <2>1, RequestStates DEF ReassignRequests
    <3>2. run[r].status # "absent"
      BY <1>5, <2>1 DEF Owned
    <3>3. run'[r].status # "absent"
      BY <3>1, <3>2, RunsAfter
    <3>4. ASSUME NEW s \in Stops, req'[h].free, stop'[s].run = r, stop'[s].record # NoRead
          PROVE  FALSE
      <4>1. stop'[s].record = stop[s].record
        <5>1. ASSUME NEW g \in Requests, CommitRead(g), req[g].ev.stop = s PROVE FALSE
          <6>1. stop'[s].run = stop[s].run
            BY <5>1 DEF CommitRead, TypeOK
          <6>2. s \in Transferring(h)
            BY <1>5, <2>1, <3>4, <6>1 DEF Transferring, StopsOf
          <6>3. req[g].at \in Reading
            BY <5>1 DEF CommitRead, Reading
          <6> QED
            BY <5>1, <6>2, <6>3 DEF TransfersApart
        <5> QED
          BY <5>1, StopsAfter
      <4>2. stop[s].run = r
        BY <3>4, <4>1, ReadsStay
      <4> QED
        BY <1>5, <2>1, <3>4, <4>1, <4>2 DEF Owned
    <3> QED
      BY <3>3, <3>4
  <2>2. CASE /\ UNCHANGED <<run, stop>>
             /\ run[r].status # "absent"
             /\ req'[h].free => \A s \in StopsOf(r) : stop[s].status = "pending"
    BY <2>2 DEF StopsOf, Answered
  <2> QED
    BY <1>5, <2>1, <2>2, Reassigning
<1> QED
  BY <1>3, <1>4, <1>5 DEF Owned, ReadIsOwners

\* Unless a stop changes hands while a read of it is ingested, a read of record
\* that a reader posted is on a run of that reader: a reassignment or a split
\* precedes the read or is refused, whatever is skipped, sent again, or posted by
\* staff in between (runs.service.ts:227-238).
THEOREM ReadIsOwnersUnlessTransfersMeet == Spec /\ []TransfersApart => []ReadIsOwners
<1> DEFINE IInv == /\ TypeOK /\ Placed /\ Carving /\ Closing /\ Answered /\ Grounded
                   /\ Unplaced /\ Owned
<1>1. Init => IInv
  <2>1. Init => Answered /\ Grounded /\ Unplaced /\ Owned
    BY DEF Init, Answered, Grounded, Unplaced, Owned, ReadIsOwners, Idle, Reading
  <2> QED
    BY <2>1, InitHolds
<1>2. IInv /\ TransfersApart /\ [Next]_vars => IInv'
  BY TypeStep, PlacedStep, CarvingStep, ClosingStep, AnsweredStep, GroundedStep,
     UnplacedStep, OwnedStep
<1>3. IInv => ReadIsOwners
  BY DEF Owned
<1> QED
  BY <1>1, <1>2, <1>3, PTL DEF Spec

\* The requests that settle stops of a run or take them away, and which run it is.
Settling(h) == req[h].at \in {"written", "counted", "flagging", "closing", "splitting"}
RunOf(h) == IF req[h].at \in {"written", "counted"} THEN stop[req[h].ev.stop].run ELSE req[h].run

\* No two of them overlap on one run.
SettlingApart ==
  \A g, h \in Requests : Settling(g) /\ Settling(h) /\ RunOf(g) = RunOf(h) => g = h

\* A split leaves its run a pending stop.
SplitsLeaveSome ==
  \A h \in Requests :
    req[h].at = "splitting" => Pending(req[h].run) \ req[h].moving # {}

\* A run that is finished and open is about to be closed by the request that
\* skipped its last stop, and a read that settles the last one closes the run.
Finishing ==
  /\ \A r \in Runs : StopsOf(r) # {} /\ Pending(r) = {} /\ run[r].status # "closed" =>
       \E h \in Requests : req[h].at \in {"flagging", "closing"} /\ req[h].run = r
  /\ \A h \in Requests : req[h].at = "counted" /\ req[h].won =>
       LET s == req[h].ev.stop
           r == stop[s].run IN
       req[h].closes = r \/ run[r].status = "closed" \/ Pending(r) \ {s} # {}

\* A closed run stays closed.
LEMMA ClosedStays ==
  ASSUME TypeOK, Carving, [Next]_vars, NEW r \in Runs, run[r].status = "closed"
  PROVE  run'[r].status = "closed"
<1>1. \A h \in Requests : Moves(h) => req[h].new # r
  BY DEF Moves, Split, Carving
<1> QED
  BY <1>1, RunsAfter

\* How a skip goes on once its stop is skipped.
LEMMA SkipGoesOn ==
  ASSUME TypeOK, [Next]_vars, NEW h \in Requests, req[h].at \in {"flagging", "closing"}
  PROVE  \/ req'[h] = req[h]
         \/ req'[h].at = "closing" /\ req'[h].run = req[h].run
         \/ CloseIfComplete(h)
         \/ Fail(h)
<1>1. ASSUME RaiseSkipException(h) PROVE req'[h].at = "closing" /\ req'[h].run = req[h].run
  <2>1. req[h] \in SkipRequests
    BY RequestStates
  <2>2. req'[h] = [req[h] EXCEPT !.at = "closing"]
    BY <1>1 DEF RaiseSkipException, Become, TypeOK
  <2> QED
    BY <2>1, <2>2 DEF SkipRequests
<1>2. ASSUME Own(h) PROVE RaiseSkipException(h) \/ CloseIfComplete(h) \/ Fail(h)
  <2>1. req[h] # Idle
    BY DEF Idle
  <2>2. /\ \A e \in Reads : ~CheckRead(h, e)
        /\ \A r \in Runs, s \in Stops : ~CheckSkip(h, r, s)
        /\ \A to \in Readers : ~AssignRun(h, to)
    BY <2>1 DEF CheckRead, CheckSkip, AssignRun
  <2>3. /\ \A r \in Runs, to \in Owners : ~StartReassign(h, r, to)
        /\ \A r, new \in Runs, S \in SUBSET Stops, to \in Readers : ~CheckSplit(h, r, S, to, new)
    BY <2>1 DEF StartReassign, CheckSplit
  <2>4. ~WriteRead(h) /\ ~CloseRun(h) /\ ~CommitRead(h)
    BY DEF WriteRead, CloseRun, CommitRead
  <2>5. ~SkipStop(h) /\ ~PlaceStops(h) /\ ~Reassign(h) /\ ~Split(h)
    BY DEF SkipStop, PlaceStops, Reassign, Split
  <2> QED
    BY <1>2, <2>2, <2>3, <2>4, <2>5 DEF Own
<1> QED
  BY <1>1, <1>2, OthersStand

\* What a read finds when it counts what is left of its run.
LEMMA CountedFinds ==
  ASSUME TypeOK, NEW h \in Requests, CloseRun(h), req[h].won
  PROVE  LET s == req[h].ev.stop
             r == stop[s].run IN
         \/ req'[h].closes = r
         \/ run[r].status # "open"
         \/ Pending(r) \ {s} # {}
<1> DEFINE s == req[h].ev.stop
           r == stop[s].run
           done == run[r].status = "open" /\ Pending(r) \ {s} = {}
<1>1. req[h] \in ReadRequests
  BY RequestStates DEF CloseRun, Reading
<1>2. req' = [req EXCEPT ![h] = [req[h] EXCEPT !.at = "counted", !.closes = IF done THEN r ELSE NoRun]]
  BY DEF CloseRun, Become, LeftOver
<1>3. req'[h] = [req[h] EXCEPT !.at = "counted", !.closes = IF done THEN r ELSE NoRun]
  BY <1>2 DEF TypeOK
<1>4. req'[h].closes = IF done THEN r ELSE NoRun
  BY <1>1, <1>3 DEF ReadRequests
<1> QED
  BY <1>4

\* A read that was counted, and settles its stop, closes the run or leaves another
\* stop pending in it.
LEMMA CountedStep ==
  ASSUME TypeOK, Placed, Carving, Finishing, SettlingApart, SettlingApart', [Next]_vars,
         NEW h \in Requests, req'[h].at = "counted", req'[h].won
  PROVE  \/ req'[h].closes = stop'[req'[h].ev.stop].run
         \/ run'[stop'[req'[h].ev.stop].run].status = "closed"
         \/ \E t \in Stops : /\ t # req'[h].ev.stop
                             /\ stop'[t].run = stop'[req'[h].ev.stop].run
                             /\ stop'[t].status = "pending"
<1>1. CASE Counted(h)
  <2> DEFINE s == req[h].ev.stop
             r == stop[s].run
  <2>1. /\ CloseRun(h) /\ req[h].won /\ req'[h].ev = req[h].ev /\ run' = run /\ stop' = stop
    BY <1>1 DEF Counted, CloseRun
  <2>2. s \in Stops /\ r # NoRun
    BY <2>1, RequestStates, RunStopsAssumption
       DEF CloseRun, Reading, ReadRequests, RunStopsAssumption, Placed
  <2>3. run[r].status \in {"open", "closed"}
    BY <2>2 DEF TypeOK
  <2>4. req'[h].closes = r \/ run[r].status # "open" \/ Pending(r) \ {s} # {}
    BY <2>1, CountedFinds
  <2> QED
    BY <2>1, <2>3, <2>4 DEF Pending, StopsOf
<1>2. CASE req'[h] = req[h]
  <2> DEFINE s == req[h].ev.stop
             r == stop[s].run
  <2>1. req[h].at = "counted" /\ req[h].won /\ h \in InTransaction
    BY <1>2 DEF InTransaction
  <2>2. s \in Stops /\ r # NoRun /\ r \in Runs
    BY <2>1, RequestStates, RunStopsAssumption
       DEF Reading, ReadRequests, RunStopsAssumption, Placed, TypeOK
  <2>3. \A g \in Requests : ~PlaceStops(g)
    BY <2>1, NoPlacing DEF Reading
  <2>4. stop'[s].run = r
    <3>1. \A g \in Requests : Moves(g) => s \notin req[g].moving
      <4> SUFFICES ASSUME NEW g \in Requests, Moves(g) PROVE s \notin req[g].moving
        OBVIOUS
      <4>1. Movable(req[g].run, req[g].moving) = req[g].moving
        BY DEF Moves, Movable
      <4>2. s \in HeldByReads
        BY <2>1 DEF HeldByReads
      <4> QED
        BY <4>1, <4>2 DEF Moves, Split
    <3> QED
      BY <2>2, <2>3, <3>1, StopsAfter
  <2>5. CASE req[h].closes = r
    BY <1>2, <2>4, <2>5
  <2>6. CASE run[r].status = "closed"
    BY <1>2, <2>2, <2>4, <2>6, ClosedStays
  <2>7. CASE Pending(r) \ {s} # {}
    <3>1. PICK t \in Stops : t # s /\ stop[t].run = r /\ stop[t].status = "pending"
      BY <2>7 DEF Pending, StopsOf
    <3>2. Settling(h) /\ RunOf(h) = r
      BY <2>1 DEF Settling, RunOf
    <3>3. ASSUME NEW g \in Requests, Moves(g), t \in req[g].moving PROVE FALSE
      <4>1. req[g].at = "splitting" /\ req[g].run = r
        BY <3>1, <3>3 DEF Moves, Split, Pending, StopsOf
      <4>2. Settling(g) /\ RunOf(g) = r
        BY <4>1 DEF Settling, RunOf
      <4> QED
        BY <2>1, <3>2, <4>1, <4>2 DEF SettlingApart
    <3>4. stop'[t].run = r
      BY <2>3, <3>1, <3>3, StopsAfter
    <3>5. ASSUME NEW g \in Requests, CommitRead(g), req[g].ev.stop = t PROVE FALSE
      <4>1. Settling(g) /\ RunOf(g) = r
        BY <3>1, <3>5 DEF CommitRead, Settling, RunOf
      <4> QED
        BY <3>1, <3>2, <3>5, <4>1 DEF SettlingApart
    <3>6. ASSUME NEW g \in Requests, req'[g].at = "flagging", req'[g].run = r PROVE FALSE
      <4>1. Settling(g)' /\ RunOf(g)' = r
        BY <3>6 DEF Settling, RunOf
      <4>2. Settling(h)' /\ RunOf(h)' = r
        BY <1>2, <2>1, <2>4 DEF Settling, RunOf
      <4>3. g = h
        BY <4>1, <4>2 DEF SettlingApart
      <4> QED
        BY <1>2, <2>1, <3>6, <4>3
    <3>7. stop'[t].status = "pending"
      BY <3>1, <3>5, <3>6, StatusAfter
    <3> QED
      BY <1>2, <2>4, <3>1, <3>4, <3>7
  <2> QED
    BY <2>1, <2>5, <2>6, <2>7 DEF Finishing
<1> QED
  BY <1>1, <1>2, Arrivals

\* A run that is finished after a step, and open, has the request that skipped its
\* last stop.
LEMMA FinishedStep ==
  ASSUME TypeOK, Placed, Carving, Unplaced, Finishing, SplitsLeaveSome,
         failures = 0, failures' = 0, [Next]_vars,
         NEW r \in Runs, NEW u \in Stops, stop'[u].run = r,
         \A t \in Stops : ~(stop'[t].run = r /\ stop'[t].status = "pending"),
         run'[r].status # "closed"
  PROVE  \E h \in Requests : req'[h].at \in {"flagging", "closing"} /\ req'[h].run = r
<1>1. run[r].status # "closed"
  BY ClosedStays
<1>2. stop[u].run = r
  BY PendingMoves
<1>3. run[r].status = "open"
  BY <1>1, <1>2, RunStopsAssumption DEF TypeOK, RunStopsAssumption
<1>4. CASE Pending(r) = {}
  <2>1. StopsOf(r) # {}
    BY <1>2 DEF StopsOf
  <2>2. PICK h \in Requests : req[h].at \in {"flagging", "closing"} /\ req[h].run = r
    BY <1>1, <1>4, <2>1 DEF Finishing
  <2>3. ~CloseIfComplete(h)
    <3> SUFFICES ASSUME CloseIfComplete(h) PROVE FALSE
      OBVIOUS
    <3>1. LeftOver(r, {}) = {}
      BY <1>4 DEF LeftOver
    <3>2. run' = [run EXCEPT ![r].status = "closed"]
      BY <1>3, <2>2, <3>1 DEF CloseIfComplete
    <3> QED
      BY <3>2 DEF TypeOK
  <2>4. ~Fail(h)
    BY DEF Fail
  <2> QED
    BY <2>2, <2>3, <2>4, SkipGoesOn
<1>5. CASE Pending(r) # {}
  <2>1. PICK s \in Stops : stop[s].run = r /\ stop[s].status = "pending"
    BY <1>5 DEF Pending, StopsOf
  <2>2. r # NoRun
    BY RunStopsAssumption DEF RunStopsAssumption
  <2>3. ASSUME NEW g \in Requests, Moves(g), s \in req[g].moving PROVE FALSE
    <3>1. req[g].at = "splitting" /\ req[g].run = r
      BY <2>1, <2>3 DEF Moves, Split, Pending, StopsOf
    <3>2. PICK t \in Stops \ req[g].moving : stop[t].run = r /\ stop[t].status = "pending"
      BY <3>1 DEF SplitsLeaveSome, Pending, StopsOf
    <3>3. stop'[t] = stop[t]
      BY <2>3, <3>2 DEF Moves
    <3> QED
      BY <3>2, <3>3
  <2>4. \A g \in Requests : ~PlaceStops(g)
    BY <2>1, <2>2 DEF PlaceStops, Placed
  <2>5. stop'[s].run = r
    BY <2>1, <2>3, <2>4, StopsAfter
  <2>6. ASSUME NEW h \in Requests, CommitRead(h), req[h].won, req[h].ev.stop = s PROVE FALSE
    <3>1. req[h].closes = r \/ Pending(r) \ {s} # {}
      BY <1>1, <2>1, <2>6 DEF CommitRead, Finishing
    <3>2. req[h].closes # r
      <4> SUFFICES ASSUME req[h].closes = r PROVE FALSE
        OBVIOUS
      <4>1. run'[r] = [run[r] EXCEPT !.status = "closed"]
        BY <2>6 DEF CommitRead
      <4> QED
        BY <4>1 DEF TypeOK
    <3>3. PICK t \in Stops : t # s /\ stop[t].run = r /\ stop[t].status = "pending"
      BY <3>1, <3>2 DEF Pending, StopsOf
    <3>4. stop'[t] = stop[t]
      BY <2>6, <3>3, Committed
    <3> QED
      BY <3>3, <3>4
  <2> QED
    BY <2>1, <2>5, <2>6, StatusAfter
<1> QED
  BY <1>4, <1>5

\* While settling requests are apart, splits leave some and none dies, every step
\* keeps Finishing.
LEMMA FinishingStep ==
  /\ TypeOK /\ Placed /\ Carving /\ Unplaced /\ Finishing
  /\ SettlingApart /\ SettlingApart' /\ SplitsLeaveSome /\ failures = 0 /\ failures' = 0
  /\ [Next]_vars
  => Finishing'
<1> SUFFICES ASSUME TypeOK, Placed, Carving, Unplaced, Finishing, SettlingApart,
                    SettlingApart', SplitsLeaveSome, failures = 0, failures' = 0,
                    [Next]_vars
             PROVE  Finishing'
  OBVIOUS
<1>1. ASSUME NEW r \in Runs, StopsOf(r)' # {}, Pending(r)' = {}, run'[r].status # "closed"
      PROVE  \E h \in Requests : req'[h].at \in {"flagging", "closing"} /\ req'[h].run = r
  <2>1. PICK u \in Stops : stop'[u].run = r
    BY <1>1 DEF StopsOf
  <2>2. \A t \in Stops : ~(stop'[t].run = r /\ stop'[t].status = "pending")
    BY <1>1 DEF Pending, StopsOf
  <2> QED
    BY <1>1, <2>1, <2>2, FinishedStep
<1>2. ASSUME NEW h \in Requests, req'[h].at = "counted", req'[h].won
      PROVE  \/ req'[h].closes = stop'[req'[h].ev.stop].run
             \/ run'[stop'[req'[h].ev.stop].run].status = "closed"
             \/ (Pending(stop[req[h].ev.stop].run) \ {req[h].ev.stop})' # {}
  BY <1>2, CountedStep DEF Pending, StopsOf
<1> QED
  BY <1>1, <1>2 DEF Finishing, Pending, StopsOf

\* A run with nothing left pending is closed, unless requests that settle its stops
\* or split some off overlap, a split takes all that is pending, or a request dies:
\* what "cannot both see one remaining" needs (ingestion.service.ts:254-256,
\* runs.service.ts:415-419).
THEOREM FinishedRunClosesUnlessSettlingsMeet ==
  Spec /\ []SettlingApart /\ []SplitsLeaveSome /\ [](failures = 0) => []FinishedRunCloses
<1> DEFINE IInv == /\ TypeOK /\ Placed /\ Carving /\ Closing /\ Unplaced /\ Finishing
<1>1. Init => IInv
  <2>1. Init => Unplaced /\ Finishing
    BY RunStopsAssumption DEF Init, Unplaced, Finishing, StopsOf, Idle, RunStopsAssumption
  <2> QED
    BY <2>1, InitHolds
<1>2. /\ IInv /\ SettlingApart /\ SettlingApart' /\ SplitsLeaveSome
      /\ failures = 0 /\ (failures = 0)' /\ [Next]_vars
      => IInv'
  BY TypeStep, PlacedStep, CarvingStep, ClosingStep, UnplacedStep, FinishingStep
<1>3. IInv => FinishedRunCloses
  BY DEF Finishing, FinishedRunCloses, Quiet, Idle
<1> QED
  BY <1>1, <1>2, <1>3, PTL DEF Spec
=============================================================================

-------------------------- MODULE FieldQueueProofs --------------------------
(***************************************************************************)
(* What holds of FieldQueue for any captures, any number of overlapping    *)
(* loads and any number of crashes, outages and failed calls: the queue    *)
(* implements CaptureDelivery (its safety part), lands nothing twice,      *)
(* prunes nothing the server does not hold, posts no skip before its       *)
(* evidence, and leaves nothing waiting that no sync will take up.  With   *)
(* one load at a time the mirror is the store, and no number repeats.      *)
(***************************************************************************)
EXTENDS FieldQueue, FiniteSetTheorems, WellFoundedInduction, TLAPS

Turns ==
  [at : {"idle", "marking", "evidence", "sent", "landing", "photo"},
   id : Captures \cup {"none"}, left : SUBSET Captures, outcome : States \cup {"none"}]

\* The shapes of the variables; what the numbers are does not matter here.
Shapes ==
  /\ disk \in Rows /\ mirror \in Rows
  /\ rows \in [Captures -> 0..2]
  /\ load = [l \in Loads |-> [at |-> load[l].at, all |-> load[l].all, top |-> load[l].top]]
  /\ \A l \in Loads : load[l].all \in Rows
  /\ pass \in Turns
  /\ pass.at # "idle" => pass.id \in Captures
  /\ pass.at = "landing" => pass.outcome \in {"synced", "failed"}
  /\ wire \subseteq Captures /\ photos \subseteq Captures /\ enqueuing \subseteq Captures

\* What is called synced anywhere on the device is on the server.
Backed ==
  /\ \A c \in Captures : disk[c] = "synced" => rows[c] > 0
  /\ \A c \in Captures : mirror[c] = "synced" => rows[c] > 0
  /\ \A l \in Loads, c \in Captures : load[l].all[c] = "synced" => rows[c] > 0
  /\ pass.at = "landing" /\ pass.outcome = "synced" => rows[pass.id] > 0
  /\ pass.at = "photo" => rows[pass.id] > 0

\* A request on its way, or about to leave, is of a capture still on the device,
\* unless the server has it: only such a capture may have been pruned meanwhile.
OnDevice ==
  /\ \A c \in wire : disk[c] # "absent" \/ rows[c] > 0
  /\ pass.at = "evidence" => disk[pass.id] # "absent" \/ rows[pass.id] > 0

\* The evidence of a skip on its way is in the object store.
Evidenced == \A c \in wire : NeedsEvidence(c) => c \in photos

\* A pass about to start is idle or about to mark the first of its captures.
LEMMA PassesStart ==
  ASSUME NEW S \in SUBSET Captures, NEW p \in Passes(S)
  PROVE  /\ p \in Turns /\ p.at \in {"idle", "marking"}
         /\ p.at # "idle" => p.id \in Captures
<1>1. CASE S = {}
  BY <1>1 DEF Passes, IdlePass, Turns
<1>2. CASE S # {}
  BY <1>2 DEF Passes, Turns
<1> QED
  BY <1>1, <1>2

\* The pass is at rest or at the start of a turn.
Fresh ==
  /\ pass' \in Turns /\ pass'.at \in {"idle", "marking"}
  /\ pass'.at # "idle" => pass'.id \in Captures

\* A sync leaves the pass alone or starts one, and so does the end of a turn.
LEMMA Starting ==
  ASSUME Shapes
  PROVE  /\ \A connected : Sync(connected) => UNCHANGED pass \/ Fresh
         /\ Advance => Fresh
<1>1. Syncable(mirror') \in SUBSET Captures /\ pass.left \in SUBSET Captures
  BY DEF Syncable, Shapes, Turns
<1>2. ASSUME NEW S \in SUBSET Captures, pass' \in Passes(S) PROVE Fresh
  BY <1>2, PassesStart DEF Fresh
<1>3. pass' = IdlePass => Fresh
  BY DEF IdlePass, Turns, Fresh
<1>4. ASSUME NEW connected, Sync(connected) PROVE UNCHANGED pass \/ Fresh
  <2>1. pass' = pass \/ pass' \in Passes(Syncable(mirror'))
    BY <1>4 DEF Sync, Drain, draining
  <2> QED
    BY <1>1, <1>2, <2>1
<1>5. ASSUME Advance PROVE Fresh
  <2>1. pass' \in Passes(pass.left) \/ pass' \in Passes(Syncable(mirror')) \/ pass' = IdlePass
    BY <1>5 DEF Advance
  <2> QED
    BY <1>1, <1>2, <1>3, <2>1
<1> QED
  BY <1>4, <1>5

\* How the pass may change.
PassMoves ==
  \/ UNCHANGED pass \/ Fresh
  \/ /\ MarkSyncing /\ pass.at = "marking" /\ pass'.id = pass.id
     /\ \/ pass'.at = "sent"
        \/ pass'.at = "evidence" /\ disk' = [disk EXCEPT ![pass.id] = "syncing"]
  \/ EvidenceUploaded /\ pass'.id = pass.id /\ pass'.at = "sent"
  \/ /\ pass'.at = "landing" /\ pass'.outcome = "failed" /\ pass'.id = pass.id
     /\ pass.at # "idle"
  \/ /\ pass'.at = "landing" /\ pass'.outcome = "synced" /\ pass'.id = pass.id
     /\ pass.at = "sent" /\ ServerStores(pass.id)
  \/ /\ PersistOutcome /\ pass'.at = "photo" /\ pass'.id = pass.id
     /\ pass.outcome = "synced"

\* Every step moves the pass in one of these ways.
LEMMA PassAfter ==
  ASSUME Shapes, [Next]_vars
  PROVE  PassMoves /\ pass' \in Turns
<1> USE DEF Turns
<1>1. ASSUME MarkSyncing PROVE PassMoves /\ pass' \in Turns
  BY <1>1 DEF MarkSyncing, Persist, PassMoves, Shapes
<1>2. ASSUME EvidenceUploaded PROVE PassMoves /\ pass' \in Turns
  BY <1>2 DEF EvidenceUploaded, PassMoves, Shapes
<1>3. ASSUME EvidenceFails \/ CallFails PROVE PassMoves /\ pass' \in Turns
  BY <1>3 DEF EvidenceFails, CallFails, PassMoves, Shapes, States
<1>4. ASSUME NEW c \in Captures, ServerStores(c) PROVE PassMoves /\ pass' \in Turns
  <2>1. pass' = pass \/ /\ pass.at = "sent" /\ pass.id = c
                        /\ pass' = [pass EXCEPT !.at = "landing", !.outcome = "synced"]
    BY <1>4 DEF ServerStores, Answer, StateFromIngest
  <2> QED
    BY <1>4, <2>1 DEF PassMoves, Shapes, States
<1>5. ASSUME NEW c \in Captures, ServerRefuses(c) PROVE PassMoves /\ pass' \in Turns
  <2>1. pass' = pass \/ /\ pass.at = "sent"
                        /\ pass' = [pass EXCEPT !.at = "landing", !.outcome = "failed"]
    BY <1>5 DEF ServerRefuses, Answer, StateFromIngest
  <2> QED
    BY <2>1 DEF PassMoves, Shapes, States
<1>6. ASSUME PersistOutcome PROVE PassMoves /\ pass' \in Turns
  <2>1. CASE pass.outcome = "synced" /\ pass' = [pass EXCEPT !.at = "photo"]
    BY <1>6, <2>1 DEF PassMoves, Shapes
  <2>2. CASE Advance
    BY <2>2, Starting DEF PassMoves, Fresh
  <2> QED
    BY <1>6, <2>1, <2>2 DEF PersistOutcome
<1>7. ASSUME PhotoUploaded \/ PhotoFails PROVE PassMoves /\ pass' \in Turns
  BY <1>7, Starting DEF PhotoUploaded, PhotoFails, PassMoves, Fresh
<1>8. ASSUME NEW connected, Sync(connected) PROVE PassMoves /\ pass' \in Turns
  BY <1>8, Starting DEF PassMoves, Fresh, Shapes
<1>9. ASSUME Crash PROVE PassMoves /\ pass' \in Turns
  BY <1>9 DEF Crash, PassMoves, Fresh, IdlePass
<1>10. ASSUME UNCHANGED pass PROVE PassMoves /\ pass' \in Turns
  BY <1>10 DEF PassMoves, Shapes
<1>11. ASSUME NEW l \in Loads, LoadStep(l) PROVE PassMoves /\ pass' \in Turns
  BY <1>8, <1>10, <1>11
  DEF LoadStep, LoadStart, LoadRead, LoadRewind, LoadPrune, LoadFinish, draining
<1>12. ASSUME NEW c \in Captures, Capture(c) \/ CaptureStored(c) PROVE PassMoves /\ pass' \in Turns
  BY <1>8, <1>10, <1>12 DEF Capture, CaptureStored, draining
<1>13. ASSUME ManualSync \/ GoOnline \/ GoOffline \/ LoseToken \/ RegainToken
       PROVE  PassMoves /\ pass' \in Turns
  BY <1>8, <1>10, <1>13 DEF ManualSync, GoOnline, GoOffline, LoseToken, RegainToken, draining
<1>14. UNCHANGED vars => UNCHANGED pass
  BY DEF vars, draining
<1> QED
  BY <1>1, <1>2, <1>3, <1>4, <1>5, <1>6, <1>7, <1>9, <1>10, <1>11, <1>12, <1>13, <1>14
  DEF Next, PassStep, Disturbance

-----------------------------------------------------------------------------
(* The store and the server.                                               *)

\* The row of capture c is written, as something the server has or as unsent.
Written(c, state) ==
  /\ disk' = [disk EXCEPT ![c] = state] /\ rows' = rows
  /\ state \in States /\ (state = "synced" => rows[c] > 0)

\* The row of capture c is deleted: the server has it.
Dropped(c) ==
  disk' = [disk EXCEPT ![c] = "absent"] /\ rows' = rows /\ rows[c] > 0

\* The tab is gone; of the writes that were outstanding some are in the store.
Stopped ==
  /\ rows' = rows /\ disk' \in Rows
  /\ \A c \in Captures :
       \/ disk'[c] = disk[c]
       \/ disk'[c] # "absent" /\ (disk'[c] = "synced" => rows[c] > 0)

\* The server processes the request for capture c.
Recorded(c) == c \in wire /\ Record(c) /\ disk' = disk

\* The outstanding writes are of captures, and unsent or of what the server has.
LEMMA OutstandingWrites ==
  ASSUME Shapes, Backed, NEW w \in Outstanding
  PROVE  /\ w.id \in Captures /\ w.state \in States
         /\ w.state = "synced" => rows[w.id] > 0
<1>1. CASE w \in {[id |-> c, state |-> "pending"] : c \in enqueuing}
  BY <1>1 DEF Shapes, States
<1>2. CASE pass.at = "marking" /\ w = [id |-> pass.id, state |-> "syncing"]
  BY <1>2 DEF Shapes, States
<1>3. CASE pass.at = "landing" /\ w = [id |-> pass.id, state |-> pass.outcome]
  BY <1>3 DEF Shapes, Backed, States
<1> QED
  BY <1>1, <1>2, <1>3 DEF Outstanding

\* A crash leaves rows that are as they were or as they were about to be.
LEMMA CrashStops == Shapes /\ Backed /\ Crash => Stopped
<1> SUFFICES ASSUME Shapes, Backed, Crash PROVE Stopped
  OBVIOUS
<1>1. PICK written \in SUBSET Outstanding :
        disk' = [c \in Captures |->
                   IF \E w \in written : w.id = c
                   THEN (CHOOSE w \in written : w.id = c).state ELSE disk[c]]
  BY DEF Crash
<1>2. ASSUME NEW c \in Captures
      PROVE  /\ disk'[c] \in States \cup {"absent"}
             /\ \/ disk'[c] = disk[c]
                \/ disk'[c] # "absent" /\ (disk'[c] = "synced" => rows[c] > 0)
  <2>1. CASE \E w \in written : w.id = c
    <3> DEFINE last == CHOOSE w \in written : w.id = c
    <3>1. last \in written /\ last.id = c
      BY <2>1
    <3>2. disk'[c] = last.state
      BY <1>1, <2>1
    <3> HIDE DEF last
    <3>3. last.state \in States /\ (last.state = "synced" => rows[c] > 0)
      BY <3>1, OutstandingWrites
    <3> QED
      BY <3>2, <3>3 DEF States
  <2>2. CASE ~\E w \in written : w.id = c
    BY <1>1, <2>2 DEF Shapes, Rows
  <2> QED
    BY <2>1, <2>2
<1>3. rows' = rows
  BY DEF Crash, server
<1> QED
  BY <1>1, <1>2, <1>3 DEF Stopped, Rows

\* Every step does one of these things to the store and the server, or nothing.
LEMMA StoreStep ==
  ASSUME Shapes, Backed, [Next]_vars
  PROVE  \/ UNCHANGED <<disk, rows>>
         \/ \E c \in Captures : Dropped(c) \/ Recorded(c) \/ \E state \in States : Written(c, state)
         \/ Stopped
<1> USE DEF States
<1>1. ASSUME MarkSyncing \/ PersistOutcome \/ PhotoUploaded
      PROVE  \E c \in Captures : \E state \in States : Written(c, state)
  <2>1. CASE MarkSyncing
    <3>1. Written(pass.id, "syncing") /\ pass.id \in Captures
      BY <2>1 DEF MarkSyncing, Persist, Written, Shapes
    <3> QED
      BY <3>1
  <2>2. CASE PersistOutcome
    <3>1. Written(pass.id, pass.outcome) /\ pass.id \in Captures
      BY <2>2 DEF PersistOutcome, Persist, Written, Shapes, Backed, server
    <3> QED
      BY <3>1 DEF Written
  <2>3. CASE PhotoUploaded
    <3>1. Written(pass.id, "synced") /\ pass.id \in Captures
      BY <2>3 DEF PhotoUploaded, Persist, Written, Shapes, Backed
    <3> QED
      BY <3>1
  <2> QED
    BY <1>1, <2>1, <2>2, <2>3
<1>2. ASSUME NEW c \in Captures, CaptureStored(c) PROVE Written(c, "pending")
  BY <1>2 DEF CaptureStored, Persist, Written, server
<1>3. ASSUME NEW l \in Loads, LoadRewind(l)
      PROVE  \E c \in Captures : Written(c, "pending")
  BY <1>3 DEF LoadRewind, Stranded, Written, server
<1>4. ASSUME NEW l \in Loads, LoadPrune(l) PROVE \E c \in Captures : Dropped(c)
  BY <1>4 DEF LoadPrune, Finished, Dropped, server, Backed
<1>5. ASSUME NEW c \in Captures, ServerStores(c) PROVE Recorded(c)
  BY <1>5 DEF ServerStores, Recorded, device
<1>6. ASSUME CallFails
      PROVE  UNCHANGED <<disk, rows>> \/ \E c \in Captures : Recorded(c)
  BY <1>6 DEF CallFails, Recorded, device, Shapes
<1>7. ASSUME NEW c \in Captures, Capture(c) \/ ServerRefuses(c) PROVE UNCHANGED <<disk, rows>>
  BY <1>7 DEF Capture, ServerRefuses, server, device
<1>8. ASSUME NEW l \in Loads, LoadStart(l) \/ LoadRead(l) \/ LoadFinish(l)
      PROVE  UNCHANGED <<disk, rows>>
  BY <1>8 DEF LoadStart, LoadRead, LoadFinish, server
<1>9. ASSUME EvidenceUploaded \/ EvidenceFails \/ PhotoFails PROVE UNCHANGED <<disk, rows>>
  BY <1>9 DEF EvidenceUploaded, EvidenceFails, PhotoFails, server, device
<1>10. ASSUME ManualSync \/ GoOnline \/ GoOffline \/ LoseToken \/ RegainToken \/ UNCHANGED vars
       PROVE  UNCHANGED <<disk, rows>>
  BY <1>10 DEF ManualSync, GoOnline, GoOffline, LoseToken, RegainToken, server, device, vars
<1> QED
  BY <1>1, <1>2, <1>3, <1>4, <1>5, <1>6, <1>7, <1>8, <1>9, <1>10, CrashStops
  DEF Next, PassStep, LoadStep, Disturbance

\* What the server has it keeps, and a capture that is on the device stays there
\* until the server has it.
LEMMA Stays ==
  ASSUME Shapes, Backed, [Next]_vars, NEW c \in Captures
  PROVE  /\ rows[c] > 0 => rows'[c] > 0
         /\ disk[c] # "absent" \/ rows[c] > 0 => disk'[c] # "absent" \/ rows'[c] > 0
         /\ disk'[c] = "synced" => rows'[c] > 0
<1> USE DEF Shapes, Rows
<1>1. ASSUME NEW d \in Captures, NEW state \in States, Written(d, state)
      PROVE  /\ rows' = rows /\ (disk'[c] = disk[c] \/ disk'[c] # "absent")
             /\ disk'[c] = "synced" => rows[c] > 0
  BY <1>1 DEF Written, States, Backed
<1>2. ASSUME NEW d \in Captures, Dropped(d)
      PROVE  /\ rows' = rows /\ (disk'[c] = disk[c] \/ rows[c] > 0)
             /\ disk'[c] = "synced" => rows[c] > 0
  BY <1>2 DEF Dropped, Backed
<1>3. ASSUME NEW d \in Captures, Recorded(d)
      PROVE  /\ disk' = disk /\ (rows[c] > 0 => rows'[c] > 0)
             /\ disk'[c] = "synced" => rows'[c] > 0
  BY <1>3 DEF Recorded, Record, Backed
<1>4. ASSUME Stopped
      PROVE  /\ rows' = rows /\ (disk'[c] = disk[c] \/ disk'[c] # "absent")
             /\ disk'[c] = "synced" => rows[c] > 0
  BY <1>4 DEF Stopped, Backed
<1>5. UNCHANGED <<disk, rows>> => (disk'[c] = "synced" => rows'[c] > 0)
  BY DEF Backed
<1> QED
  BY <1>1, <1>2, <1>3, <1>4, <1>5, StoreStep

\* The mirror takes what is written, what a load has read, or nothing.
LEMMA MirrorAfter ==
  ASSUME Shapes, Backed, [Next]_vars
  PROVE  /\ mirror' \in Rows
         /\ \A c \in Captures : mirror'[c] = "synced" => rows'[c] > 0
<1> USE DEF Shapes, Rows
<1>1. ASSUME NEW c \in Captures, NEW state \in States, Persist(c, state)
      PROVE  /\ mirror' \in Rows
             /\ \A d \in Captures :
                  mirror'[d] = mirror[d] \/ mirror'[d] = disk'[d]
  BY <1>1 DEF Persist
<1>2. ASSUME MarkSyncing \/ PersistOutcome \/ PhotoUploaded
             \/ \E c \in Captures : CaptureStored(c)
      PROVE  \E c \in Captures, state \in States : Persist(c, state)
  <2>1. MarkSyncing => pass.id \in Captures /\ Persist(pass.id, "syncing")
    BY DEF MarkSyncing
  <2>2. PersistOutcome => pass.id \in Captures /\ Persist(pass.id, pass.outcome) /\ pass.outcome \in States
    BY DEF PersistOutcome, States
  <2>3. PhotoUploaded => pass.id \in Captures /\ Persist(pass.id, "synced")
    BY DEF PhotoUploaded
  <2>4. \A c \in Captures : CaptureStored(c) => Persist(c, "pending")
    BY DEF CaptureStored
  <2> QED
    BY <1>2, <2>1, <2>2, <2>3, <2>4 DEF States
<1>3. ASSUME NEW l \in Loads, LoadFinish(l)
      PROVE  mirror' \in Rows /\ \A c \in Captures : mirror'[c] # "synced"
  BY <1>3 DEF LoadFinish, Reloaded, Finished
<1>4. ASSUME Crash PROVE mirror' \in Rows /\ \A c \in Captures : mirror'[c] # "synced"
  BY <1>4 DEF Crash, NoRows
<1>5. \/ mirror' = mirror \/ Crash \/ \E l \in Loads : LoadFinish(l)
      \/ MarkSyncing \/ PersistOutcome \/ PhotoUploaded \/ \E c \in Captures : CaptureStored(c)
  BY DEF Next, PassStep, LoadStep, Disturbance, vars, device, Capture, ServerStores,
         ServerRefuses, LoadStart, LoadRead, LoadRewind, LoadPrune, EvidenceUploaded, ManualSync,
         GoOnline, EvidenceFails, CallFails, PhotoFails, GoOffline, LoseToken, RegainToken
<1>6. \A c \in Captures :
        /\ mirror[c] = "synced" => rows'[c] > 0
        /\ disk'[c] = "synced" => rows'[c] > 0
  BY Stays DEF Backed
<1> QED
  BY <1>1, <1>2, <1>3, <1>4, <1>5, <1>6

\* A load holds what it has read, or what it has made of it.
LEMMA LoadsAfter ==
  ASSUME Shapes, [Next]_vars
  PROVE  /\ load' = [l \in Loads |-> [at |-> load'[l].at, all |-> load'[l].all, top |-> load'[l].top]]
         /\ \A l \in Loads :
              /\ load'[l].all \in Rows
              /\ \A c \in Captures : load'[l].all[c] = "synced" =>
                   load[l].all[c] = "synced" \/ disk[c] = "synced"
<1> USE DEF Shapes, Rows
<1> DEFINE Goal ==
      /\ load' = [l \in Loads |-> [at |-> load'[l].at, all |-> load'[l].all, top |-> load'[l].top]]
      /\ \A l \in Loads :
           /\ load'[l].all \in Rows
           /\ \A c \in Captures : load'[l].all[c] = "synced" =>
                load[l].all[c] = "synced" \/ disk[c] = "synced"
<1>1. ASSUME NEW l \in Loads, LoadStart(l) PROVE Goal
  BY <1>1 DEF LoadStart
<1>2. ASSUME NEW l \in Loads, LoadRead(l) PROVE Goal
  <2> DEFINE fresh == [at |-> "working", all |-> disk, top |-> TopOfStore]
  <2>1. load' = [load EXCEPT ![l] = fresh]
    BY <1>2 DEF LoadRead
  <2>2. load'[l] = fresh /\ \A k \in Loads \ {l} : load'[k] = load[k]
    BY <2>1
  <2>3. load'[l].at = "working" /\ load'[l].all = disk /\ load'[l].top = TopOfStore
    BY <2>2
  <2>4. load'[l] = [at |-> load'[l].at, all |-> load'[l].all, top |-> load'[l].top]
    BY <2>2, <2>3
  <2> QED
    BY <2>1, <2>2, <2>3, <2>4
<1>3. ASSUME NEW l \in Loads, LoadRewind(l) \/ LoadPrune(l) PROVE Goal
  <2>1. PICK c \in Captures, state \in {"pending", "absent"} :
          load' = [load EXCEPT ![l].all[c] = state]
    BY <1>3 DEF LoadRewind, LoadPrune, Stranded, Finished
  <2>2. load'[l].all = [load[l].all EXCEPT ![c] = state]
    BY <2>1
  <2>3. \A k \in Loads \ {l} : load'[k] = load[k]
    BY <2>1
  <2>4. load'[l] = [at |-> load'[l].at, all |-> load'[l].all, top |-> load'[l].top]
    <3> DEFINE rewound == [load[l].all EXCEPT ![c] = state]
    <3> HIDE DEF rewound
    <3>1. load'[l] = [load[l] EXCEPT !.all = rewound]
      BY <2>1 DEF rewound
    <3>2. load[l] = [at |-> load[l].at, all |-> load[l].all, top |-> load[l].top]
      OBVIOUS
    <3>3. load'[l] = [at |-> load[l].at, all |-> rewound, top |-> load[l].top]
      BY <3>1, <3>2
    <3>4. load'[l].at = load[l].at /\ load'[l].all = rewound /\ load'[l].top = load[l].top
      BY <3>3
    <3> QED
      BY <3>3, <3>4
  <2>5. load' = [k \in Loads |-> load'[k]]
    BY <2>1
  <2>6. \A k \in Loads :
          load'[k] = [at |-> load'[k].at, all |-> load'[k].all, top |-> load'[k].top]
    BY <2>3, <2>4
  <2>7. load' = [k \in Loads |-> [at |-> load'[k].at, all |-> load'[k].all, top |-> load'[k].top]]
    BY <2>5, <2>6
  <2>8. \A k \in Loads :
          /\ load'[k].all \in Rows
          /\ \A d \in Captures : load'[k].all[d] = "synced" => load[k].all[d] = "synced"
    <3>1. load[l].all \in Rows /\ state \in States \cup {"absent"} /\ state # "synced"
      BY DEF States
    <3>2. load'[l].all \in Rows /\ \A d \in Captures : load'[l].all[d] = "synced" => load[l].all[d] = "synced"
      BY <2>2, <3>1
    <3> QED
      BY <2>3, <3>2
  <2> QED
    BY <2>7, <2>8
<1>4. ASSUME \/ \E l \in Loads : load' = [load EXCEPT ![l] = IdleLoad]
             \/ load' = [l \in Loads |-> IdleLoad]
      PROVE  Goal
  <2>1. /\ IdleLoad = [at |-> IdleLoad.at, all |-> IdleLoad.all, top |-> IdleLoad.top]
        /\ IdleLoad.all = NoRows
    BY DEF IdleLoad
  <2>2. NoRows \in Rows /\ \A c \in Captures : NoRows[c] # "synced"
    BY DEF NoRows
  <2>3. \A l \in Loads : load'[l] = load[l] \/ load'[l] = IdleLoad
    BY <1>4
  <2>4. \A l \in Loads :
          /\ load'[l] = [at |-> load'[l].at, all |-> load'[l].all, top |-> load'[l].top]
          /\ load'[l].all = load[l].all \/ load'[l].all = NoRows
    BY <2>1, <2>3
  <2>5. load' = [l \in Loads |-> load'[l]]
    BY <1>4
  <2>6. load' = [l \in Loads |-> [at |-> load'[l].at, all |-> load'[l].all, top |-> load'[l].top]]
    BY <2>4, <2>5
  <2> QED
    BY <2>2, <2>4, <2>6
<1>5. UNCHANGED load => Goal
  OBVIOUS
<1>6. \/ UNCHANGED load \/ \E l \in Loads : LoadStart(l) \/ LoadRead(l) \/ LoadRewind(l) \/ LoadPrune(l)
      \/ \E l \in Loads : load' = [load EXCEPT ![l] = IdleLoad]
      \/ load' = [l \in Loads |-> IdleLoad]
  BY DEF Next, PassStep, LoadStep, Disturbance, vars, device, Capture, CaptureStored, ServerStores,
         ServerRefuses, LoadFinish, EvidenceUploaded, ManualSync, MarkSyncing, PersistOutcome,
         PhotoUploaded, GoOnline, EvidenceFails, CallFails, PhotoFails, GoOffline,
         LoseToken, RegainToken, Crash
<1> QED
  BY <1>1, <1>2, <1>3, <1>4, <1>5, <1>6

\* A request leaves when its row has been marked, or its evidence is up.
LEMMA WireAfter ==
  ASSUME Shapes, [Next]_vars
  PROVE  /\ wire' \subseteq Captures /\ photos' \subseteq Captures /\ enqueuing' \subseteq Captures
         /\ photos \subseteq photos'
         /\ \A c \in wire' :
              \/ c \in wire
              \/ c = pass.id /\ MarkSyncing /\ ~NeedsEvidence(c)
              \/ c = pass.id /\ EvidenceUploaded /\ c \in photos'
<1> USE DEF Shapes
<1>1. ASSUME MarkSyncing \/ EvidenceUploaded PROVE pass.id \in Captures
  BY <1>1 DEF MarkSyncing, EvidenceUploaded
<1>2. PhotoUploaded => pass.id \in Captures
  BY DEF PhotoUploaded
<1>3. \/ wire' \subseteq wire
      \/ wire' = wire \cup {pass.id} /\ MarkSyncing /\ ~NeedsEvidence(pass.id)
      \/ wire' = wire \cup {pass.id} /\ EvidenceUploaded /\ pass.id \in photos'
  BY DEF Next, PassStep, LoadStep, Disturbance, vars, server, Capture, CaptureStored, ServerStores,
         ServerRefuses, LoadStart, LoadRead, LoadRewind, LoadPrune, LoadFinish, EvidenceUploaded,
         ManualSync, MarkSyncing, PersistOutcome, PhotoUploaded, GoOnline, EvidenceFails,
         CallFails, PhotoFails, GoOffline, LoseToken, RegainToken, Crash
<1>4. \/ photos' = photos
      \/ photos' = photos \cup {pass.id} /\ (EvidenceUploaded \/ PhotoUploaded)
  BY DEF Next, PassStep, LoadStep, Disturbance, vars, server, Capture, CaptureStored, ServerStores,
         ServerRefuses, LoadStart, LoadRead, LoadRewind, LoadPrune, LoadFinish, EvidenceUploaded,
         ManualSync, MarkSyncing, PersistOutcome, PhotoUploaded, GoOnline, EvidenceFails,
         CallFails, PhotoFails, GoOffline, LoseToken, RegainToken, Crash
<1>5. \/ enqueuing' \subseteq enqueuing
      \/ \E c \in Captures : enqueuing' = enqueuing \cup {c}
  BY DEF Next, PassStep, LoadStep, Disturbance, vars, device, Capture, CaptureStored, ServerStores,
         ServerRefuses, LoadStart, LoadRead, LoadRewind, LoadPrune, LoadFinish, EvidenceUploaded,
         ManualSync, MarkSyncing, PersistOutcome, PhotoUploaded, GoOnline, EvidenceFails,
         CallFails, PhotoFails, GoOffline, LoseToken, RegainToken, Crash
<1> QED
  BY <1>1, <1>2, <1>3, <1>4, <1>5

-----------------------------------------------------------------------------
(* The invariant.                                                          *)

\* Every step keeps the shapes.
LEMMA ShapesStep == Shapes /\ Backed /\ [Next]_vars => Shapes'
<1> SUFFICES ASSUME Shapes, Backed, [Next]_vars PROVE Shapes'
  OBVIOUS
<1>1. disk' \in Rows /\ rows' \in [Captures -> 0..2]
  <2>1. ASSUME NEW c \in Captures, Dropped(c) \/ \E state \in States : Written(c, state)
        PROVE  disk' \in Rows /\ rows' = rows
    BY <2>1 DEF Dropped, Written, Rows, Shapes
  <2>2. ASSUME NEW c \in Captures, Recorded(c) PROVE disk' = disk /\ rows' \in [Captures -> 0..2]
    BY <2>2 DEF Recorded, Record, Shapes
  <2> QED
    BY <2>1, <2>2, StoreStep DEF Stopped, Shapes
<1>2. /\ pass' \in Turns
      /\ pass'.at # "idle" => pass'.id \in Captures
      /\ pass'.at = "landing" => pass'.outcome \in {"synced", "failed"}
  BY PassAfter DEF PassMoves, Fresh, MarkSyncing, EvidenceUploaded, PersistOutcome, Shapes
<1> QED
  BY <1>1, <1>2, MirrorAfter, LoadsAfter, WireAfter DEF Shapes

\* Every step keeps what is called synced backed by the server.
LEMMA BackedStep == Shapes /\ Backed /\ [Next]_vars => Backed'
<1> SUFFICES ASSUME Shapes, Backed, [Next]_vars PROVE Backed'
  OBVIOUS
<1>1. \A l \in Loads, c \in Captures : load'[l].all[c] = "synced" => rows'[c] > 0
  BY LoadsAfter, Stays DEF Backed
<1>2. ASSUME pass'.at = "landing", pass'.outcome = "synced" PROVE rows'[pass'.id] > 0
  <2>1. CASE UNCHANGED pass
    BY <1>2, <2>1, Stays DEF Backed, Shapes
  <2>2. CASE pass.at = "sent" /\ ServerStores(pass.id) /\ pass'.id = pass.id
    <3>1. pass.id \in Captures /\ Record(pass.id)
      BY <2>2 DEF Shapes, ServerStores
    <3>2. rows'[pass.id] > 0
      BY <3>1 DEF Record, Shapes
    <3> QED
      BY <2>2, <3>2
  <2> QED
    BY <1>2, <2>1, <2>2, PassAfter DEF PassMoves, Fresh
<1>3. ASSUME pass'.at = "photo" PROVE rows'[pass'.id] > 0
  <2>1. CASE UNCHANGED pass
    BY <1>3, <2>1, Stays DEF Backed, Shapes
  <2>2. CASE PersistOutcome /\ pass'.id = pass.id /\ pass.outcome = "synced"
    BY <2>2, Stays DEF PersistOutcome, Backed, Shapes
  <2> QED
    BY <1>3, <2>1, <2>2, PassAfter DEF PassMoves, Fresh
<1>4. \A c \in Captures : disk'[c] = "synced" => rows'[c] > 0
  BY Stays
<1> QED
  BY <1>1, <1>2, <1>3, <1>4, MirrorAfter DEF Backed

\* Every step keeps requests about what is on the device or on the server.
LEMMA OnDeviceStep == Shapes /\ Backed /\ OnDevice /\ [Next]_vars => OnDevice'
<1> SUFFICES ASSUME Shapes, Backed, OnDevice, [Next]_vars PROVE OnDevice'
  OBVIOUS
<1>1. ASSUME MarkSyncing PROVE disk'[pass.id] # "absent"
  BY <1>1 DEF MarkSyncing, Persist, Shapes, Rows
<1>2. ASSUME NEW c \in wire' PROVE disk'[c] # "absent" \/ rows'[c] > 0
  <2>1. CASE c \in wire
    BY <2>1, Stays DEF OnDevice, Shapes
  <2>2. CASE c = pass.id /\ MarkSyncing
    BY <1>1, <2>2
  <2>3. CASE c = pass.id /\ EvidenceUploaded
    BY <2>3, Stays DEF EvidenceUploaded, OnDevice, Shapes
  <2> QED
    BY <2>1, <2>2, <2>3, WireAfter
<1>3. ASSUME pass'.at = "evidence" PROVE disk'[pass'.id] # "absent" \/ rows'[pass'.id] > 0
  <2>1. CASE UNCHANGED pass
    BY <1>3, <2>1, Stays DEF OnDevice, Shapes
  <2>2. CASE MarkSyncing /\ pass'.id = pass.id
    BY <1>1, <2>2
  <2> QED
    BY <1>3, <2>1, <2>2, PassAfter DEF PassMoves, Fresh
<1> QED
  BY <1>2, <1>3 DEF OnDevice

\* Every step keeps skips behind their evidence.
LEMMA EvidencedStep ==
  Shapes /\ Backed /\ Evidenced /\ EvidenceFirst /\ [Next]_vars => Evidenced' /\ EvidenceFirst'
<1> SUFFICES ASSUME Shapes, Backed, Evidenced, EvidenceFirst, [Next]_vars
             PROVE  Evidenced' /\ EvidenceFirst'
  OBVIOUS
<1>1. ASSUME NEW c \in wire', NeedsEvidence(c) PROVE c \in photos'
  BY <1>1, WireAfter DEF Evidenced
<1>2. ASSUME NEW c \in WithPhoto \ Reads, rows'[c] > 0 PROVE c \in photos'
  <2>1. c \in Captures
    BY FieldQueueAssumption DEF FieldQueueAssumption
  <2>2. CASE rows[c] > 0
    BY <2>2, WireAfter DEF EvidenceFirst
  <2>3. CASE ~(rows[c] > 0)
    <3>1. Recorded(c)
      BY <1>2, <2>1, <2>3, StoreStep DEF Dropped, Written, Stopped, Recorded, Record, Shapes
    <3> QED
      BY <3>1, WireAfter DEF Recorded, Evidenced, NeedsEvidence
  <2> QED
    BY <2>2, <2>3
<1>3. Evidenced'
  BY <1>1 DEF Evidenced, NeedsEvidence
<1> QED
  BY <1>2, <1>3 DEF EvidenceFirst

IInv == Shapes /\ Backed /\ OnDevice

\* Nothing is on the device or on its way at first.
LEMMA InitHolds == Init => IInv /\ Evidenced /\ EvidenceFirst /\ LandsAtMostOnce
<1> SUFFICES ASSUME Init PROVE IInv /\ Evidenced /\ EvidenceFirst /\ LandsAtMostOnce
  OBVIOUS
<1>1. IdlePass \in Turns /\ IdlePass.at = "idle"
  BY DEF IdlePass, Turns
<1>2. NoRows \in Rows /\ \A c \in Captures : NoRows[c] = "absent"
  BY DEF NoRows, Rows
<1>3. IdleLoad = [at |-> IdleLoad.at, all |-> IdleLoad.all, top |-> IdleLoad.top]
      /\ IdleLoad.all = NoRows
  BY DEF IdleLoad
<1>4. load = [l \in Loads |-> [at |-> load[l].at, all |-> load[l].all, top |-> load[l].top]]
      /\ \A l \in Loads : load[l].all = NoRows
  BY <1>3 DEF Init
<1>5. rows \in [Captures -> 0..2] /\ \A c \in Captures : rows[c] = 0
  BY DEF Init
<1>6. Shapes
  BY <1>1, <1>2, <1>4, <1>5 DEF Init, Shapes
<1>7. Backed
  BY <1>1, <1>2, <1>4 DEF Init, Backed
<1>8. \A c \in WithPhoto \ Reads : c \in Captures
  BY FieldQueueAssumption DEF FieldQueueAssumption
<1> QED
  BY <1>1, <1>5, <1>6, <1>7, <1>8
  DEF Init, IInv, OnDevice, Evidenced, EvidenceFirst, LandsAtMostOnce

\* Every step keeps the invariant.
LEMMA InvariantStep == IInv /\ [Next]_vars => IInv'
  BY ShapesStep, BackedStep, OnDeviceStep DEF IInv

-----------------------------------------------------------------------------
(* Nothing waits unasked.                                                  *)

\* A pass about to start covers everything it is to send.
LEMMA PassesCover ==
  ASSUME NEW S, NEW p \in Passes(S), NEW c \in S
  PROVE  p.at = "marking" /\ (c \in p.left \/ c = p.id)
BY DEF Passes

\* The flags are flags.
Flags ==
  /\ loaded \in BOOLEAN /\ resync \in BOOLEAN /\ declined \in BOOLEAN
  /\ online \in BOOLEAN /\ token \in BOOLEAN

\* Every step keeps them so.
LEMMA FlagsStep == Flags /\ [Next]_vars => Flags'
<1> SUFFICES ASSUME Flags, [Next]_vars PROVE Flags'
  OBVIOUS
<1>1. loaded' \in {loaded, TRUE, FALSE} /\ online' \in {online, TRUE, FALSE}
  BY DEF Next, PassStep, LoadStep, Disturbance, vars, device, server, Capture, CaptureStored,
         ServerStores, ServerRefuses, LoadStart, LoadRead, LoadRewind, LoadPrune, LoadFinish,
         EvidenceUploaded, ManualSync, MarkSyncing, PersistOutcome, PhotoUploaded, GoOnline,
         EvidenceFails, CallFails, PhotoFails, GoOffline, LoseToken, RegainToken, Crash
<1>2. resync' \in {resync, TRUE, FALSE}
  BY DEF Next, PassStep, LoadStep, Disturbance, vars, draining, Sync, Drain, Advance, Capture,
         CaptureStored, ServerStores, ServerRefuses, LoadStart, LoadRead, LoadRewind, LoadPrune,
         LoadFinish, EvidenceUploaded, ManualSync, MarkSyncing, PersistOutcome, PhotoUploaded,
         GoOnline, EvidenceFails, CallFails, PhotoFails, GoOffline, LoseToken, RegainToken, Crash
<1>3. declined' \in {declined, TRUE, FALSE} \/ \E b \in BOOLEAN : declined' = (declined \/ b)
  <2>1. \/ UNCHANGED draining \/ Crash \/ Advance \/ UNCHANGED declined
        \/ Sync(online) \/ Sync(TRUE)
    BY DEF Next, PassStep, LoadStep, Disturbance, vars, draining, Capture,
           CaptureStored, ServerStores, ServerRefuses, LoadStart, LoadRead, LoadRewind, LoadPrune,
           LoadFinish, EvidenceUploaded, ManualSync, MarkSyncing, PersistOutcome, PhotoUploaded,
           GoOnline, EvidenceFails, CallFails, PhotoFails, GoOffline, LoseToken, RegainToken
  <2>2. \A b \in BOOLEAN : Sync(b) => UNCHANGED declined \/ declined' = FALSE \/ declined' = (declined \/ b)
    BY DEF Sync, Drain
  <2>3. Sync(online) \/ Sync(TRUE) => \E b \in BOOLEAN : Sync(b)
    BY DEF Flags
  <2> QED
    BY <2>1, <2>2, <2>3 DEF draining, Crash, Advance
<1>4. token' \in {token, TRUE, FALSE}
  BY DEF Next, PassStep, LoadStep, Disturbance, vars, Capture, CaptureStored,
         ServerStores, ServerRefuses, LoadStart, LoadRead, LoadRewind, LoadPrune, LoadFinish,
         EvidenceUploaded, ManualSync, MarkSyncing, PersistOutcome, PhotoUploaded, GoOnline,
         EvidenceFails, CallFails, PhotoFails, GoOffline, LoseToken, RegainToken, Crash
<1> QED
  BY <1>1, <1>2, <1>3, <1>4 DEF Flags

\* Something will take the pending capture c up: another round was requested,
\* this round has it ahead, or the device is offline and GoOnline will sync; or
\* the sync that asked for it was turned away.
Wanted(c) ==
  IF pass.at = "idle" THEN ~online \/ declined
  ELSE resync \/ c \in pass.left \/ (pass.at = "marking" /\ c = pass.id)

\* Capture c is the one whose turn it is, and its outcome is still to be written.
InHand(c) == c = pass.id /\ pass.at \in {"evidence", "sent", "landing"}

\* Whatever the mirror shows as unsent or as being sent, the drain accounts for.
Asked ==
  \A c \in Captures :
    /\ mirror[c] = "pending" => Wanted(c)
    /\ mirror[c] = "syncing" => InHand(c)

\* A sync takes up everything that is pending after it, or is turned away.
LEMMA SyncTakesUp ==
  ASSUME Shapes, Flags, NEW connected \in BOOLEAN, Sync(connected), online' = connected,
         NEW c \in Captures
  PROVE  /\ mirror'[c] = "pending" => Wanted(c)'
         /\ InHand(c) => InHand(c)'
<1>1. CASE pass.at # "idle"
  BY <1>1 DEF Sync, Wanted, InHand
<1>2. CASE pass.at = "idle" /\ connected /\ token
  <2>1. pass' \in Passes(Syncable(mirror'))
    BY <1>2 DEF Sync, Drain
  <2>2. ASSUME mirror'[c] = "pending" PROVE Wanted(c)'
    <3>1. c \in Syncable(mirror')
      BY <2>2 DEF Syncable
    <3> QED
      BY <2>1, <3>1, PassesCover DEF Wanted
  <2> QED
    BY <1>2, <2>2 DEF InHand
<1>3. CASE pass.at = "idle" /\ ~(connected /\ token)
  <2>1. declined' = (declined \/ connected) /\ pass' = pass
    BY <1>3 DEF Sync, Drain
  <2>2. ~online' \/ declined'
    BY <2>1 DEF Flags
  <2> QED
    BY <1>3, <2>1, <2>2 DEF Wanted, InHand
<1> QED
  BY <1>1, <1>2, <1>3

\* The end of a turn leaves nothing behind that is pending.
LEMMA AdvanceTakesUp ==
  ASSUME Shapes, Flags, Advance, pass.at \in {"landing", "photo"},
         NEW c \in Captures, mirror'[c] = "pending", Wanted(c)
  PROVE  Wanted(c)'
<1>1. CASE pass.left # {}
  <2>1. pass' \in Passes(pass.left) /\ resync' = resync
    BY <1>1 DEF Advance
  <2>2. PICK d \in pass.left : TRUE
    BY <1>1
  <2>3. pass'.at = "marking" /\ (c \in pass.left => c \in pass'.left \/ c = pass'.id)
    BY <2>1, <2>2, PassesCover
  <2> QED
    BY <2>1, <2>3 DEF Wanted
<1>2. CASE pass.left = {} /\ resync
  <2>1. pass' \in Passes(Syncable(mirror')) /\ c \in Syncable(mirror')
    BY <1>2 DEF Advance, Syncable
  <2> QED
    BY <2>1, PassesCover DEF Wanted
<1>3. CASE pass.left = {} /\ ~resync
  BY <1>3 DEF Wanted
<1> QED
  BY <1>1, <1>2, <1>3

\* Every step leaves what it makes pending to a sync, and what it marks to the
\* turn that marked it.
LEMMA AskedStep == Shapes /\ Flags /\ Asked /\ [Next]_vars => Asked'
<1> SUFFICES ASSUME Shapes, Flags, Asked, [Next]_vars, NEW c \in Captures
             PROVE  (mirror'[c] = "pending" => Wanted(c)') /\ (mirror'[c] = "syncing" => InHand(c)')
  BY DEF Asked
<1> DEFINE Goal == (mirror'[c] = "pending" => Wanted(c)') /\ (mirror'[c] = "syncing" => InHand(c)')
<1>a. mirror \in [Captures -> States \cup {"absent"}]
     /\ online \in BOOLEAN /\ online' \in BOOLEAN
  BY FlagsStep DEF Shapes, Rows, Flags
<1>b. (mirror[c] = "pending" => Wanted(c)) /\ (mirror[c] = "syncing" => InHand(c))
  BY DEF Asked
<1>1. ASSUME MarkSyncing PROVE Goal
  <2>1. pass.id \in Captures /\ mirror'[c] = IF c = pass.id THEN "syncing" ELSE mirror[c]
    BY <1>1, <1>a DEF MarkSyncing, Persist, Shapes
  <2>2. /\ pass'.id = pass.id /\ pass'.left = pass.left /\ resync' = resync
        /\ pass'.at \in {"evidence", "sent"}
    BY <1>1 DEF MarkSyncing, Shapes, Turns
  <2> QED
    BY <1>1, <1>b, <2>1, <2>2 DEF MarkSyncing, Wanted, InHand
<1>2. ASSUME EvidenceUploaded \/ EvidenceFails \/ CallFails PROVE Goal
  <2>1. /\ pass.at \in {"evidence", "sent"} /\ pass'.at \in {"sent", "landing"}
        /\ pass'.id = pass.id /\ pass'.left = pass.left /\ resync' = resync /\ mirror' = mirror
    BY <1>2 DEF EvidenceUploaded, EvidenceFails, CallFails, Shapes, Turns, device
  <2> QED
    BY <1>b, <2>1 DEF Wanted, InHand
<1>3. ASSUME NEW d \in Captures, ServerStores(d) \/ ServerRefuses(d) PROVE Goal
  <2>1. mirror' = mirror /\ resync' = resync /\ declined' = declined /\ online' = online
    BY <1>3 DEF ServerStores, ServerRefuses, device
  <2>2. \/ pass' = pass
        \/ \E o : pass.at = "sent" /\ pass' = [pass EXCEPT !.at = "landing", !.outcome = o]
    BY <1>3 DEF ServerStores, ServerRefuses, Answer
  <2>3. \/ pass' = pass
        \/ /\ pass.at = "sent" /\ pass'.at = "landing"
           /\ pass'.id = pass.id /\ pass'.left = pass.left
    BY <2>2 DEF Shapes, Turns
  <2> QED
    BY <1>b, <2>1, <2>3 DEF Wanted, InHand
<1>4. ASSUME PersistOutcome PROVE Goal
  <2>1. /\ pass.at = "landing" /\ pass.id \in Captures /\ pass.outcome \in {"synced", "failed"}
        /\ mirror'[c] = IF c = pass.id THEN pass.outcome ELSE mirror[c]
    BY <1>4, <1>a DEF PersistOutcome, Persist, Shapes
  <2>2. mirror'[c] # "syncing"
    BY <1>b, <2>1 DEF InHand
  <2>3. ASSUME mirror'[c] = "pending" PROVE Wanted(c)'
    <3>1. Wanted(c)
      BY <1>b, <2>1, <2>3
    <3>2. CASE Advance
      BY <2>1, <2>3, <3>1, <3>2, AdvanceTakesUp
    <3>3. CASE pass' = [pass EXCEPT !.at = "photo"] /\ UNCHANGED resync
      BY <2>1, <3>1, <3>3 DEF Wanted, Shapes, Turns
    <3> QED
      BY <1>4, <3>2, <3>3 DEF PersistOutcome
  <2> QED
    BY <2>2, <2>3
<1>5. ASSUME PhotoUploaded \/ PhotoFails PROVE Goal
  <2>1. /\ pass.at = "photo" /\ pass.id \in Captures /\ Advance
        /\ mirror'[c] = mirror[c] \/ mirror'[c] = "synced"
    BY <1>5, <1>a DEF PhotoUploaded, PhotoFails, Persist, Shapes, device
  <2> QED
    BY <1>b, <2>1, AdvanceTakesUp DEF InHand
<1>6. ASSUME NEW d \in Captures, Capture(d) PROVE Goal
  BY <1>6, <1>b DEF Capture, draining, Wanted, InHand
<1>7. ASSUME NEW d \in Captures, CaptureStored(d) PROVE Goal
  <2>1. Sync(online) /\ online' = online /\ mirror'[c] \in {mirror[c], "pending"}
    BY <1>7, <1>a DEF CaptureStored, Persist
  <2> QED
    BY <1>a, <1>b, <2>1, SyncTakesUp
<1>8. ASSUME NEW l \in Loads, LoadStep(l), ~LoadFinish(l) PROVE Goal
  <2>1. mirror' = mirror /\ UNCHANGED draining /\ online' = online
    BY <1>8 DEF LoadStep, LoadStart, LoadRead, LoadRewind, LoadPrune
  <2> QED
    BY <1>b, <2>1 DEF draining, Wanted, InHand
<1>9. ASSUME NEW l \in Loads, LoadFinish(l) PROVE Goal
  <2>1. Sync(online) /\ online' = online /\ mirror'[c] # "syncing"
    BY <1>9 DEF LoadFinish, Reloaded, Stranded
  <2> QED
    BY <1>a, <2>1, SyncTakesUp
<1>10. ASSUME ManualSync \/ GoOnline PROVE Goal
  <2>1. Sync(online') /\ mirror' = mirror
    BY <1>10 DEF ManualSync, GoOnline, device, Sync
  <2> QED
    BY <1>a, <1>b, <2>1, SyncTakesUp
<1>11. ASSUME GoOffline \/ LoseToken \/ RegainToken PROVE Goal
  BY <1>11, <1>b DEF GoOffline, LoseToken, RegainToken, device, draining, Wanted, InHand
<1>12. ASSUME Crash PROVE Goal
  BY <1>12 DEF Crash, NoRows
<1>13. ASSUME UNCHANGED vars PROVE Goal
  BY <1>13, <1>b DEF vars, device, draining, Wanted, InHand
<1> QED
  BY <1>1, <1>2, <1>3, <1>4, <1>5, <1>6, <1>7, <1>8, <1>9, <1>10, <1>11, <1>12, <1>13
  DEF Next, PassStep, LoadStep, Disturbance

-----------------------------------------------------------------------------
(* The numbers.                                                            *)

\* Of naturals that stay below a bound one is the greatest, so Max is that one.
LEMMA MaxOfBounded ==
  ASSUME NEW S \in SUBSET Nat, S # {}, NEW n \in Nat, \A x \in S : x <= n
  PROVE  Max(S) \in S /\ \A x \in S : Max(S) >= x
<1> DEFINE T == {n - x : x \in S}
<1>1. T \subseteq Nat /\ T # {}
  <2>1. \A x \in S : x \in Nat /\ x <= n
    OBVIOUS
  <2>2. \A x \in S : n - x \in Nat
    BY <2>1
  <2>3. PICK x \in S : TRUE
    OBVIOUS
  <2>4. n - x \in T
    OBVIOUS
  <2> QED
    BY <2>2, <2>4
<1>2. PICK low \in T : \A y \in T : ~(<<y, low>> \in OpToRel(<, Nat))
  BY <1>1, WFMin, NatLessThanWellFounded
<1>3. \A y \in T : low <= y
  <2> SUFFICES ASSUME NEW y \in T PROVE low <= y
    OBVIOUS
  <2>1. y \in Nat /\ low \in Nat
    BY <1>1
  <2>2. ~(y < low)
    BY <1>2, <2>1 DEF OpToRel
  <2> QED
    BY <2>1, <2>2
<1>4. PICK top \in S : low = n - top
  OBVIOUS
<1>5. \A x \in S : top >= x
  <2> SUFFICES ASSUME NEW x \in S PROVE top >= x
    OBVIOUS
  <2>1. low <= n - x
    BY <1>3
  <2> QED
    BY <1>4, <2>1
<1> QED
  BY <1>5 DEF Max

\* The captures that were given a number.
Numbered == {c \in Captures : seq[c] # 0}

\* No number handed out, counted or read from the store exceeds how many there are.
Numbers ==
  /\ seq \in [Captures -> Nat] /\ seqCounter \in Nat
  /\ \A c \in Captures : seq[c] <= Cardinality(Numbered)
  /\ seqCounter <= Cardinality(Numbered)
  /\ \A l \in Loads : load[l].top \in 0..Cardinality(Numbered)

\* There are at most as many numbered captures as captures.
LEMMA NumberedAreFew ==
  /\ IsFiniteSet(Numbered) /\ Cardinality(Captures) \in Nat
  /\ Cardinality(Numbered) \in 0..Cardinality(Captures)
<1>1. IsFiniteSet(Captures) /\ Numbered \in SUBSET Captures
  BY FieldQueueAssumption DEF FieldQueueAssumption, Numbered
<1>2. IsFiniteSet(Numbered) /\ Cardinality(Numbered) <= Cardinality(Captures)
  BY <1>1, FS_Subset
<1>3. Cardinality(Numbered) \in Nat /\ Cardinality(Captures) \in Nat
  BY <1>1, <1>2, FS_CardinalityType
<1> QED
  BY <1>2, <1>3

\* No number is handed out at first.
LEMMA NumbersAtFirst == Init => Numbers
<1> SUFFICES ASSUME Init PROVE Numbers
  OBVIOUS
<1>1. \A l \in Loads : load[l].top = 0
  BY DEF Init, IdleLoad
<1>2. Cardinality(Numbered) \in Nat
  BY NumberedAreFew
<1> QED
  BY <1>1, <1>2 DEF Init, Numbers

\* The highest number in the store is one of them, or 0, and none is higher.
LEMMA TopIsANumber ==
  ASSUME Numbers
  PROVE  /\ TopOfStore \in 0..Cardinality(Numbered)
         /\ \A c \in Held : seq[c] <= TopOfStore
<1> DEFINE S == {0} \cup {seq[c] : c \in {d \in Captures : disk[d] # "absent"}}
<1>1. S \in SUBSET Nat /\ S # {} /\ Cardinality(Numbered) \in Nat
  BY NumberedAreFew DEF Numbers
<1>2. \A x \in S : x <= Cardinality(Numbered)
  BY <1>1 DEF Numbers
<1>3. TopOfStore = Max(S)
  BY DEF TopOfStore
<1>a. \A c \in Held : seq[c] \in S
  BY DEF Held
<1> HIDE DEF S
<1>4. Max(S) \in S /\ \A x \in S : Max(S) >= x
  BY <1>1, <1>2, MaxOfBounded
<1>5. TopOfStore \in S
  BY <1>3, <1>4
<1>6. TopOfStore \in Nat /\ TopOfStore <= Cardinality(Numbered)
  BY <1>1, <1>2, <1>5
<1>7. \A c \in Held : seq[c] <= TopOfStore
  <2> SUFFICES ASSUME NEW c \in Held PROVE seq[c] <= TopOfStore
    OBVIOUS
  <2>1. seq[c] \in Nat /\ TopOfStore >= seq[c]
    BY <1>1, <1>3, <1>4, <1>a
  <2> QED
    BY <1>6, <2>1
<1> QED
  BY <1>1, <1>6, <1>7

\* The stage of a load and the number it has read.
LEMMA LoadMoves ==
  ASSUME Shapes, [Next]_vars, NEW l \in Loads
  PROVE  /\ load'[l].at \in {load[l].at, "idle", "reading", "working"}
         /\ load'[l].top \in {load[l].top, 0, TopOfStore}
<1> USE DEF Shapes
<1> DEFINE Goal == /\ load'[l].at \in {load[l].at, "idle", "reading", "working"}
                   /\ load'[l].top \in {load[l].top, 0, TopOfStore}
<1>1. ASSUME NEW k \in Loads, LoadStart(k) PROVE Goal
  BY <1>1 DEF LoadStart
<1>2. ASSUME NEW k \in Loads, LoadRead(k) PROVE Goal
  <2> DEFINE fresh == [at |-> "working", all |-> disk, top |-> TopOfStore]
  <2>1. load' = [load EXCEPT ![k] = fresh]
    BY <1>2 DEF LoadRead
  <2>2. load'[l] = load[l] \/ load'[l] = fresh
    BY <2>1
  <2> QED
    BY <2>2
<1>3. ASSUME NEW k \in Loads, LoadRewind(k) \/ LoadPrune(k) PROVE Goal
  <2>1. PICK c \in Captures, state \in {"pending", "absent"} :
          load' = [load EXCEPT ![k].all[c] = state]
    BY <1>3 DEF LoadRewind, LoadPrune, Stranded, Finished
  <2> DEFINE rest == [load[k].all EXCEPT ![c] = state]
  <2> HIDE DEF rest
  <2>2. load' = [load EXCEPT ![k] = [load[k] EXCEPT !.all = rest]]
    BY <2>1 DEF rest
  <2>3. load'[l] = load[l] \/ (l = k /\ load'[l] = [load[l] EXCEPT !.all = rest])
    BY <2>2
  <2> QED
    BY <2>3
<1>4. ASSUME \/ \E k \in Loads : load' = [load EXCEPT ![k] = IdleLoad]
             \/ load' = [k \in Loads |-> IdleLoad]
      PROVE  Goal
  <2>1. load'[l] = load[l] \/ load'[l] = IdleLoad
    BY <1>4
  <2> QED
    BY <2>1 DEF IdleLoad
<1>5. \/ UNCHANGED load \/ \E k \in Loads : LoadStart(k) \/ LoadRead(k) \/ LoadRewind(k) \/ LoadPrune(k)
      \/ \E k \in Loads : load' = [load EXCEPT ![k] = IdleLoad]
      \/ load' = [k \in Loads |-> IdleLoad]
  BY DEF Next, PassStep, LoadStep, Disturbance, vars, device, Capture, CaptureStored, ServerStores,
         ServerRefuses, LoadFinish, EvidenceUploaded, ManualSync, MarkSyncing, PersistOutcome,
         PhotoUploaded, GoOnline, EvidenceFails, CallFails, PhotoFails, GoOffline,
         LoseToken, RegainToken, Crash
<1> QED
  BY <1>1, <1>2, <1>3, <1>4, <1>5

\* Who moves the numbers: a capture takes the next one, a load that finishes puts
\* back the one it has read, a crash forgets it.
LEMMA NumberMoves ==
  ASSUME [Next]_vars
  PROVE  \/ seq' = seq /\ seqCounter' \in {seqCounter, 0}
         \/ seq' = seq /\ \E l \in Loads : seqCounter' = load[l].top
         \/ /\ UNCHANGED load
            /\ \E c \in Captures :
                 /\ seq[c] = 0 /\ seqCounter' = seqCounter + 1
                 /\ seq' = [seq EXCEPT ![c] = seqCounter + 1]
BY DEF Next, PassStep, LoadStep, Disturbance, vars, device, Capture, CaptureStored, ServerStores,
       ServerRefuses, LoadStart, LoadRead, LoadRewind, LoadPrune, LoadFinish, EvidenceUploaded,
       ManualSync, MarkSyncing, PersistOutcome, PhotoUploaded, GoOnline, EvidenceFails,
       CallFails, PhotoFails, GoOffline, LoseToken, RegainToken, Crash, NextSeq

\* Every step keeps the numbers within the captures numbered so far.
LEMMA NumbersStep == Shapes /\ Numbers /\ [Next]_vars => Numbers'
<1> SUFFICES ASSUME Shapes, Numbers, [Next]_vars PROVE Numbers'
  OBVIOUS
<1> DEFINE n == Cardinality(Numbered)
<1>1. n \in Nat /\ IsFiniteSet(Numbered)
  BY NumberedAreFew
<1>2. CASE seq' = seq /\ (seqCounter' \in {seqCounter, 0} \/ \E l \in Loads : seqCounter' = load[l].top)
  <2>1. Numbered' = Numbered
    BY <1>2 DEF Numbered
  <2>2. seqCounter' \in 0..n
    BY <1>1, <1>2 DEF Numbers
  <2>3. \A l \in Loads : load'[l].top \in 0..n
    BY <1>1, LoadMoves, TopIsANumber DEF Numbers
  <2> HIDE DEF n
  <2>4. Cardinality(Numbered') = n
    BY <2>1 DEF n
  <2>5. \A c \in Captures : seq'[c] <= n
    BY <1>2 DEF Numbers, n
  <2> QED
    BY <1>1, <1>2, <2>2, <2>3, <2>4, <2>5 DEF Numbers
<1>3. ASSUME UNCHANGED load,
             NEW c \in Captures, seq[c] = 0, seqCounter' = seqCounter + 1,
             seq' = [seq EXCEPT ![c] = seqCounter + 1]
      PROVE  Numbers'
  <2>1. seqCounter \in Nat /\ seqCounter <= n
    BY DEF Numbers
  <2>2. Numbered' = Numbered \cup {c} /\ c \notin Numbered
    BY <1>3, <2>1 DEF Numbered, Numbers
  <2>3. Cardinality(Numbered') = n + 1
    BY <1>1, <2>2, FS_AddElement
  <2> HIDE DEF n
  <2>4. seq' \in [Captures -> Nat] /\ \A d \in Captures : seq'[d] <= n + 1
    <3>1. seq \in [Captures -> Nat] /\ \A d \in Captures : seq[d] <= n
      BY DEF Numbers, n
    <3> QED
      BY <1>1, <1>3, <2>1, <3>1
  <2>5. \A l \in Loads : load'[l].top \in 0..(n + 1)
    <3>1. \A l \in Loads : load[l].top \in 0..n
      BY DEF Numbers, n
    <3> QED
      BY <1>1, <1>3, <3>1
  <2> QED
    BY <1>1, <1>3, <2>1, <2>3, <2>4, <2>5 DEF Numbers
<1> QED
  BY <1>2, <1>3, NumberMoves

\* The faults are counted, and there are no more than allowed.
LEMMA FaultsStep == faults \in 0..MaxFaults /\ [Next]_vars => faults' \in 0..MaxFaults
<1> SUFFICES ASSUME faults \in 0..MaxFaults, [Next]_vars PROVE faults' \in 0..MaxFaults
  OBVIOUS
<1>1. MaxFaults \in Nat
  BY FieldQueueAssumption DEF FieldQueueAssumption
<1>2. faults' = faults \/ Fault
  BY DEF Next, PassStep, LoadStep, Disturbance, vars, Capture, CaptureStored, ServerStores,
         ServerRefuses, LoadStart, LoadRead, LoadRewind, LoadPrune, LoadFinish, EvidenceUploaded,
         ManualSync, MarkSyncing, PersistOutcome, PhotoUploaded, GoOnline, EvidenceFails,
         CallFails, PhotoFails, GoOffline, LoseToken, RegainToken, Crash
<1> QED
  BY <1>1, <1>2 DEF Fault

-----------------------------------------------------------------------------
(* One load at a time.                                                     *)

\* What overlapping loads, and captures made before a load is through, take away.
OneLoad == ~EarlyCapture /\ \A k, l \in Loads : k = l

\* The captures whose numbers must differ: in the store, or on their way there.
Kept == Held \cup enqueuing

\* The pass in flight is about captures in the store.
PassWithin == pass.at # "idle" => pass.id \in Held /\ pass.left \subseteq Held

\* Until the load is through nothing else happens; what it has read is the store,
\* and so is the mirror afterwards.
Settled ==
  /\ ~loaded => pass.at = "idle" /\ enqueuing = {} /\ mirror = NoRows
  /\ loaded => mirror = disk /\ \A c \in Kept : seq[c] <= seqCounter
  /\ \A l \in Loads :
       /\ load[l].at # "idle" => ~loaded
       /\ load[l].at = "working" =>
            load[l].all = disk /\ \A c \in Held : seq[c] <= load[l].top
  /\ \A c, d \in Kept : c # d => seq[c] # seq[d]
  /\ PassWithin

\* A round that starts over the store, or goes on, is about captures in the store.
LEMMA StaysWithin ==
  ASSUME PassWithin, Held \subseteq Held', mirror' = disk',
         (\E connected : Sync(connected)) \/ (Advance /\ pass.at # "idle")
  PROVE  PassWithin'
<1>1. \A S : \A p \in Passes(S) : p.at # "idle" => p.id \in S /\ p.left \subseteq S
  BY DEF Passes, IdlePass
<1>2. Syncable(mirror') \subseteq Held'
  BY DEF Syncable, Held
<1>3. ASSUME pass' \in Passes(Syncable(mirror')) PROVE PassWithin'
  BY <1>1, <1>2, <1>3 DEF PassWithin
<1>4. ASSUME pass.at # "idle", pass' \in Passes(pass.left) PROVE PassWithin'
  <2>1. pass.left \subseteq Held'
    BY <1>4 DEF PassWithin
  <2>2. pass'.at # "idle" => pass'.id \in pass.left /\ pass'.left \subseteq pass.left
    BY <1>1, <1>4
  <2> QED
    BY <2>1, <2>2 DEF PassWithin
<1>5. ASSUME pass' = pass PROVE PassWithin'
  BY <1>5 DEF PassWithin
<1>6. pass' = IdlePass => PassWithin'
  BY DEF IdlePass, PassWithin
<1>7. CASE \E connected : Sync(connected)
  BY <1>3, <1>5, <1>7 DEF Sync, Drain, draining
<1>8. CASE Advance /\ pass.at # "idle"
  BY <1>3, <1>4, <1>6, <1>8 DEF Advance
<1> QED
  BY <1>7, <1>8

\* A sync of an empty mirror leaves the drain at rest.
LEMMA NothingToSend ==
  ASSUME pass.at = "idle", mirror' = NoRows, NEW connected, Sync(connected)
  PROVE  pass'.at = "idle"
<1>1. Syncable(mirror') = {}
  BY DEF Syncable, NoRows
<1>2. \A p \in Passes({}) : p.at = "idle"
  BY DEF Passes, IdlePass
<1>3. pass' = pass \/ pass' \in Passes(Syncable(mirror'))
  BY DEF Sync, Drain, draining
<1> QED
  BY <1>1, <1>2, <1>3

\* A step that moves nothing of the device but the pass.
LEMMA PassOnly ==
  ASSUME Settled, UNCHANGED device, PassWithin', ~loaded => pass'.at = "idle"
  PROVE  Settled'
BY DEF Settled, device, Kept, Held

\* A write of the turn in flight, to a row that is in the store.
LEMMA TurnWrites ==
  ASSUME Shapes, Settled, pass.at # "idle", NEW state \in States, Persist(pass.id, state),
         UNCHANGED <<seq, loaded, seqCounter, load, enqueuing>>, PassWithin'
  PROVE  Settled'
<1>1. loaded /\ pass.id \in Held /\ mirror = disk
  BY DEF Settled, PassWithin
<1>2. Held' = Held /\ mirror' = disk'
  BY <1>1 DEF Persist, Held, Shapes, Rows, States
<1> QED
  BY <1>1, <1>2 DEF Settled, Kept

\* With one load at a time every step keeps the mirror and the numbers in order.
LEMMA SettledStep == OneLoad /\ Shapes /\ Backed /\ Numbers /\ Settled /\ [Next]_vars => Settled'
<1> SUFFICES ASSUME OneLoad, Shapes, Backed, Numbers, Settled, [Next]_vars PROVE Settled'
  OBVIOUS
<1>1. ASSUME MarkSyncing PROVE Settled'
  <2>1. pass.at = "marking" /\ pass.id \in Captures /\ Persist(pass.id, "syncing")
    BY <1>1 DEF MarkSyncing, Shapes
  <2>2. Held \subseteq Held'
    BY <2>1 DEF Persist, Held, Shapes, Rows
  <2>3. pass'.id = pass.id /\ pass'.left = pass.left
    BY <1>1 DEF MarkSyncing, Shapes, Turns
  <2>4. PassWithin'
    BY <2>1, <2>2, <2>3 DEF Settled, PassWithin
  <2> QED
    BY <1>1, <2>1, <2>4, TurnWrites DEF MarkSyncing, States
<1>2. ASSUME PersistOutcome \/ PhotoUploaded PROVE Settled'
  <2>1. PICK state \in States : Persist(pass.id, state)
    BY <1>2 DEF PersistOutcome, PhotoUploaded, Shapes, States
  <2>2. /\ pass.at # "idle" /\ pass.id \in Captures /\ mirror = disk
        /\ UNCHANGED <<seq, loaded, seqCounter, load, enqueuing>>
    BY <1>2 DEF PersistOutcome, PhotoUploaded, Shapes, Settled
  <2>3. Held \subseteq Held' /\ mirror' = disk'
    BY <2>1, <2>2 DEF Persist, Held, Shapes, Rows, States
  <2>4. Advance \/ pass' = [pass EXCEPT !.at = "photo"]
    BY <1>2 DEF PersistOutcome, PhotoUploaded
  <2>5. PassWithin'
    <3>1. CASE Advance
      BY <2>2, <2>3, <3>1, StaysWithin DEF Settled
    <3>2. CASE pass' = [pass EXCEPT !.at = "photo"]
      <4>1. pass'.id = pass.id /\ pass'.left = pass.left
        BY <3>2 DEF Shapes, Turns
      <4> QED
        BY <2>2, <2>3, <4>1 DEF Settled, PassWithin
    <3> QED
      BY <2>4, <3>1, <3>2
  <2> QED
    BY <2>1, <2>2, <2>5, TurnWrites
<1>3. ASSUME EvidenceUploaded \/ EvidenceFails \/ CallFails PROVE Settled'
  <2>1. /\ UNCHANGED device /\ pass.at # "idle"
        /\ pass'.id = pass.id /\ pass'.left = pass.left
    BY <1>3 DEF EvidenceUploaded, EvidenceFails, CallFails, Shapes, Turns
  <2>2. Held' = Held
    BY <2>1 DEF device, Held
  <2>3. PassWithin' /\ loaded
    BY <2>1, <2>2 DEF Settled, PassWithin
  <2> QED
    BY <2>1, <2>3, PassOnly
<1>4. ASSUME NEW c \in Captures, ServerStores(c) \/ ServerRefuses(c) PROVE Settled'
  <2>1. \/ pass' = pass
        \/ \E o : pass.at = "sent" /\ pass' = [pass EXCEPT !.at = "landing", !.outcome = o]
    BY <1>4 DEF ServerStores, ServerRefuses, Answer
  <2>2. pass'.id = pass.id /\ pass'.left = pass.left /\ (pass.at = "idle" => pass'.at = "idle")
        /\ (pass.at # "idle" \/ pass' = pass)
    BY <2>1 DEF Shapes, Turns
  <2>3. UNCHANGED device
    BY <1>4 DEF ServerStores, ServerRefuses
  <2>4. Held' = Held
    BY <2>3 DEF device, Held
  <2>5. PassWithin' /\ (~loaded => pass'.at = "idle")
    BY <2>2, <2>4 DEF Settled, PassWithin
  <2> QED
    BY <2>3, <2>5, PassOnly
<1>5. ASSUME PhotoFails PROVE Settled'
  <2>1. UNCHANGED device /\ Advance /\ pass.at # "idle"
    BY <1>5 DEF PhotoFails
  <2>2. loaded /\ mirror' = disk' /\ Held' = Held
    BY <2>1 DEF Settled, device, Held
  <2>3. PassWithin'
    BY <2>1, <2>2, StaysWithin DEF Settled
  <2> QED
    BY <2>1, <2>2, <2>3, PassOnly
<1>6. ASSUME NEW c \in Captures, Capture(c) PROVE Settled'
  <2>1. loaded /\ enqueuing' = enqueuing \cup {c} /\ seq' = [seq EXCEPT ![c] = seqCounter + 1]
        /\ seqCounter' = seqCounter + 1 /\ UNCHANGED <<disk, mirror, loaded, load, pass>>
    BY <1>6 DEF OneLoad, Capture, NextSeq, draining
  <2>2. Held' = Held /\ Kept' = Kept \cup {c} /\ Kept \subseteq Captures
    BY <2>1 DEF Held, Kept, Shapes
  <2>3. \A d \in Captures : seq[d] \in Nat /\ seq'[d] = IF d = c THEN seqCounter + 1 ELSE seq[d]
    BY <2>1 DEF Numbers
  <2>4. seqCounter \in Nat /\ \A d \in Kept : seq[d] <= seqCounter
    BY <2>1 DEF Settled, Numbers
  <2>5. /\ \A d \in Kept' : seq'[d] <= seqCounter'
        /\ \A d, e \in Kept' : d # e => seq'[d] # seq'[e]
    BY <2>1, <2>2, <2>3, <2>4 DEF Settled
  <2>6. \A l \in Loads : load[l].at = "idle"
    BY <2>1 DEF Settled
  <2> QED
    BY <2>1, <2>2, <2>5, <2>6 DEF Settled, PassWithin
<1>7. ASSUME NEW c \in Captures, CaptureStored(c) PROVE Settled'
  <2>1. loaded /\ c \in enqueuing /\ mirror = disk
    BY <1>7 DEF CaptureStored, Settled
  <2>2. mirror' = disk' /\ Held' = Held \cup {c} /\ Kept' = Kept
    BY <1>7, <2>1 DEF CaptureStored, Persist, Held, Kept, Shapes, Rows
  <2>3. PassWithin'
    <3>1. Held \subseteq Held' /\ Sync(online)
      BY <1>7, <2>2 DEF CaptureStored
    <3> QED
      BY <2>2, <3>1, StaysWithin DEF Settled
  <2>4. \A l \in Loads : load[l].at = "idle"
    BY <2>1 DEF Settled
  <2> QED
    BY <1>7, <2>1, <2>2, <2>3, <2>4 DEF CaptureStored, Settled
<1>8. ASSUME NEW l \in Loads, LoadStep(l) PROVE Settled'
  <2>1. Loads = {l}
    BY DEF OneLoad
  <2>2. ~loaded /\ pass.at = "idle" /\ enqueuing = {} /\ mirror = NoRows
    BY <1>8 DEF LoadStep, LoadStart, LoadRead, LoadRewind, LoadPrune, LoadFinish, Settled
  <2>3. CASE LoadStart(l)
    <3>1. /\ load'[l].at = "reading" /\ ~loaded'
          /\ UNCHANGED <<disk, seq, mirror, enqueuing, pass>>
      BY <2>2, <2>3 DEF LoadStart, draining, Shapes
    <3> QED
      BY <2>1, <2>2, <3>1 DEF Settled, Kept, Held, PassWithin
  <2>4. CASE LoadRead(l)
    <3> DEFINE fresh == [at |-> "working", all |-> disk, top |-> TopOfStore]
    <3>1. load' = [load EXCEPT ![l] = fresh]
      BY <2>4 DEF LoadRead
    <3>2. load'[l] = fresh
      BY <3>1 DEF Shapes
    <3>3. load'[l].all = disk /\ load'[l].top = TopOfStore
      BY <3>2
    <3>4. ~loaded' /\ UNCHANGED <<disk, seq, mirror, enqueuing, pass>>
      BY <2>2, <2>4 DEF LoadRead, draining
    <3>5. \A c \in Held' : seq'[c] <= load'[l].top
      BY <3>3, <3>4, TopIsANumber DEF Held
    <3> QED
      BY <2>1, <2>2, <3>3, <3>4, <3>5 DEF Settled, Kept, Held, PassWithin
  <2>5. CASE LoadRewind(l) \/ LoadPrune(l)
    <3>1. PICK c \in Captures, state \in {"pending", "absent"} :
            /\ load' = [load EXCEPT ![l].all[c] = state]
            /\ disk' = [disk EXCEPT ![c] = state]
            /\ load[l].all[c] # "absent"
      BY <2>5 DEF LoadRewind, LoadPrune, Stranded, Finished
    <3>2. load[l].at = "working" /\ ~loaded' /\ UNCHANGED <<seq, mirror, enqueuing, pass>>
      BY <2>2, <2>5 DEF LoadRewind, LoadPrune, draining
    <3>3. load[l].all = disk
      BY <3>2 DEF Settled
    <3>4. load'[l].all = disk' /\ load'[l].top = load[l].top
      <4> DEFINE rest == [load[l].all EXCEPT ![c] = state]
      <4> HIDE DEF rest
      <4>1. load'[l] = [load[l] EXCEPT !.all = rest]
        BY <3>1 DEF rest, Shapes
      <4>2. load[l] = [at |-> load[l].at, all |-> load[l].all, top |-> load[l].top]
        BY DEF Shapes
      <4>3. load'[l] = [at |-> load[l].at, all |-> rest, top |-> load[l].top]
        BY <4>1, <4>2
      <4>4. load'[l].all = rest /\ load'[l].top = load[l].top
        BY <4>3
      <4> QED
        BY <3>1, <3>3, <4>4 DEF rest
    <3>5. Held' \subseteq Held
      BY <3>1, <3>3 DEF Held, Shapes, Rows
    <3>6. \A d \in Held' : seq'[d] <= load'[l].top
      BY <3>2, <3>4, <3>5 DEF Settled
    <3>7. Kept' \subseteq Kept
      BY <3>2, <3>5 DEF Kept
    <3> QED
      BY <2>1, <2>2, <3>2, <3>4, <3>6, <3>7 DEF Settled, PassWithin
  <2>6. CASE LoadFinish(l)
    <3>1. load[l].at = "working" /\ mirror' = load[l].all /\ seqCounter' = load[l].top /\ Sync(online)
          /\ loaded' /\ load' = [load EXCEPT ![l] = IdleLoad] /\ UNCHANGED <<disk, seq, enqueuing>>
      BY <2>6 DEF LoadFinish, Reloaded
    <3>2. mirror' = disk' /\ Held' = Held /\ Kept' = Held
      BY <2>2, <3>1 DEF Settled, Held, Kept
    <3>3. PassWithin'
      BY <3>1, <3>2, StaysWithin DEF Settled
    <3>4. load'[l].at = "idle"
      BY <3>1 DEF IdleLoad, Shapes
    <3> QED
      BY <2>1, <3>1, <3>2, <3>3, <3>4 DEF Settled, Kept
  <2> QED
    BY <1>8, <2>3, <2>4, <2>5, <2>6 DEF LoadStep
<1>9. ASSUME ManualSync \/ GoOnline PROVE Settled'
  <2>1. PICK connected : Sync(connected)
    BY <1>9 DEF ManualSync, GoOnline
  <2>2. UNCHANGED device
    BY <1>9 DEF ManualSync, GoOnline
  <2>3. CASE loaded
    <3>1. mirror' = disk' /\ Held' = Held
      BY <2>2, <2>3 DEF Settled, device, Held
    <3>2. PassWithin'
      BY <2>1, <3>1, StaysWithin DEF Settled
    <3> QED
      BY <2>2, <2>3, <3>2, PassOnly
  <2>4. CASE ~loaded
    <3>1. pass.at = "idle" /\ mirror' = NoRows
      BY <2>2, <2>4 DEF Settled, device
    <3>2. pass'.at = "idle"
      BY <2>1, <3>1, NothingToSend
    <3> QED
      BY <2>2, <3>2, PassOnly DEF PassWithin
  <2> QED
    BY <2>3, <2>4
<1>10. ASSUME GoOffline \/ LoseToken \/ RegainToken \/ UNCHANGED vars PROVE Settled'
  <2>1. UNCHANGED device /\ pass' = pass
    BY <1>10 DEF GoOffline, LoseToken, RegainToken, vars, draining
  <2> QED
    BY <2>1, PassOnly DEF Settled, PassWithin, device, Held
<1>11. ASSUME Crash PROVE Settled'
  <2>1. /\ ~loaded' /\ pass'.at = "idle" /\ enqueuing' = {} /\ mirror' = NoRows /\ seq' = seq
        /\ load' = [l \in Loads |-> IdleLoad]
    BY <1>11 DEF Crash, IdlePass
  <2>2. Held' \subseteq Kept
    <3>1. PICK written \in SUBSET Outstanding :
            disk' = [c \in Captures |->
                       IF \E w \in written : w.id = c
                       THEN (CHOOSE w \in written : w.id = c).state ELSE disk[c]]
      BY <1>11 DEF Crash
    <3>2. \A w \in Outstanding : w.id \in Kept
      BY DEF Outstanding, Kept, Settled, PassWithin
    <3> SUFFICES ASSUME NEW c \in Held' PROVE c \in Kept
      OBVIOUS
    <3>3. CASE \E w \in written : w.id = c
      BY <3>2, <3>3
    <3>4. CASE ~\E w \in written : w.id = c
      BY <3>1, <3>4 DEF Held, Kept
    <3> QED
      BY <3>3, <3>4
  <2>3. Kept' = Held' /\ \A l \in Loads : load'[l].at = "idle"
    BY <2>1 DEF Kept, IdleLoad
  <2> QED
    BY <2>1, <2>2, <2>3 DEF Settled, PassWithin
<1> QED
  BY <1>1, <1>2, <1>3, <1>4, <1>5, <1>6, <1>7, <1>8, <1>9, <1>10, <1>11
  DEF Next, PassStep, Disturbance

-----------------------------------------------------------------------------
(* The theorems.                                                           *)

\* The variables keep their types; with however many crashes and reloads between
\* the captures, no sequence number ever exceeds the number of captures made.
THEOREM TypeCorrect == Spec => []TypeOK
<1> DEFINE Stages == \A l \in Loads : load[l].at \in {"idle", "reading", "working"}
           Inv == IInv /\ Flags /\ Numbers /\ Stages /\ faults \in 0..MaxFaults
<1>1. Init => Inv
  <2> SUFFICES ASSUME Init PROVE Flags /\ Stages /\ faults \in 0..MaxFaults
    BY InitHolds, NumbersAtFirst
  <2>1. \A l \in Loads : load[l].at = "idle"
    BY DEF Init, IdleLoad
  <2>2. faults \in 0..MaxFaults
    BY FieldQueueAssumption DEF Init, FieldQueueAssumption
  <2> QED
    BY <2>1, <2>2 DEF Init, Flags
<1>2. Inv /\ [Next]_vars => Inv'
  <2> SUFFICES ASSUME Inv, [Next]_vars PROVE Inv'
    OBVIOUS
  <2>1. Stages'
    BY LoadMoves DEF IInv
  <2>2. Numbers'
    BY NumbersStep DEF IInv
  <2> QED
    BY <2>1, <2>2, InvariantStep, FlagsStep, FaultsStep
<1>3. Inv => TypeOK
  <2> SUFFICES ASSUME Inv PROVE TypeOK
    OBVIOUS
  <2> DEFINE m == Cardinality(Captures)
  <2>1. m \in Nat /\ Cardinality(Numbered) \in 0..m
    BY NumberedAreFew
  <2>2. seq \in [Captures -> 0..m] /\ seqCounter \in 0..m
    BY <2>1 DEF Numbers
  <2> HIDE DEF m
  <2>3. load \in [Loads -> [at : {"idle", "reading", "working"}, all : Rows, top : 0..m]]
    <3>1. \A l \in Loads : load[l].all \in Rows /\ load[l].top \in 0..m
      BY <2>1 DEF IInv, Shapes, Numbers
    <3>2. load = [l \in Loads |-> [at |-> load[l].at, all |-> load[l].all, top |-> load[l].top]]
      BY DEF IInv, Shapes
    <3> QED
      BY <3>1, <3>2
  <2> QED
    BY <2>2, <2>3 DEF IInv, Shapes, Flags, Turns, TypeOK, m
<1> QED
  BY <1>1, <1>2, <1>3, PTL DEF Spec

\* However often a capture is sent, the server records it once: a replay finds
\* the row of its id (ADR-008).
THEOREM NothingLandsTwice == Spec => []LandsAtMostOnce
<1>1. IInv /\ LandsAtMostOnce /\ [Next]_vars => LandsAtMostOnce'
  <2> SUFFICES ASSUME IInv, LandsAtMostOnce, [Next]_vars, NEW c \in Captures
               PROVE  rows'[c] <= 1
    BY DEF LandsAtMostOnce
  <2>1. ASSUME NEW d \in Captures, Recorded(d) PROVE rows'[c] <= 1
    BY <2>1 DEF Recorded, Record, LandsAtMostOnce, IInv, Shapes
  <2> QED
    BY <2>1, StoreStep DEF Dropped, Written, Stopped, LandsAtMostOnce, IInv
<1> QED
  BY <1>1, InitHolds, InvariantStep, PTL DEF Spec

\* What is shown or stored as `synced` the server holds, so that pruning loses
\* nothing, whatever answers were lost (types.ts:46-57).
THEOREM SyncedRowsAreStored == Spec => []SyncedIsStored
<1>1. IInv => SyncedIsStored
  BY DEF IInv, Backed, SyncedIsStored
<1> QED
  BY <1>1, InitHolds, InvariantStep, PTL DEF Spec

\* A skip is recorded after its evidence is in the object store
\* (queue.ts:293-299).
THEOREM EvidenceComesFirst == Spec => []EvidenceFirst
<1> DEFINE Inv == IInv /\ Evidenced /\ EvidenceFirst
<1>1. Init => Inv
  BY InitHolds
<1>2. Inv /\ [Next]_vars => Inv'
  BY InvariantStep, EvidencedStep DEF IInv
<1>3. Inv => EvidenceFirst
  OBVIOUS
<1> QED
  BY <1>1, <1>2, <1>3, PTL DEF Spec

\* Every step of the queue and the server is one of CaptureDelivery's, or none.
LEMMA StepsDeliver ==
  ASSUME IInv, [Next]_vars
  PROVE  [Delivery!Next]_(Delivery!vars)
<1> USE DEF Delivery!Next, Delivery!vars, Delivery!Hold, Delivery!Land, Delivery!Forget, Held, Stored
<1> Shapes /\ Backed /\ OnDevice
  BY DEF IInv
<1> USE DEF Shapes, Rows
<1>1. ASSUME rows' = rows, \A c \in Captures : disk[c] # "absent" => disk'[c] # "absent"
      PROVE  [Delivery!Next]_(Delivery!vars)
  <2>1. Held' = Held \cup Held' /\ Held' \in SUBSET Captures /\ Stored' = Stored
    BY <1>1
  <2> QED
    BY <2>1
<1>2. ASSUME NEW c \in Captures, Dropped(c) PROVE [Delivery!Next]_(Delivery!vars)
  <2>1. Held' = Held \ {c} /\ Stored' = Stored /\ c \in Stored
    BY <1>2 DEF Dropped
  <2>2. CASE c \in Held
    BY <2>1, <2>2
  <2>3. CASE c \notin Held
    BY <2>1, <2>3
  <2> QED
    BY <2>2, <2>3
<1>3. ASSUME NEW c \in Captures, Recorded(c) PROVE [Delivery!Next]_(Delivery!vars)
  <2>1. Held' = Held /\ Stored' = Stored \cup {c}
    BY <1>3 DEF Recorded, Record
  <2>2. c \in Held \cup Stored
    BY <1>3 DEF Recorded, OnDevice
  <2>3. CASE c \in Stored
    BY <2>1, <2>3
  <2>4. CASE c \in Held \ Stored
    BY <2>1, <2>4
  <2> QED
    BY <2>2, <2>3, <2>4
<1>4. ASSUME NEW c \in Captures, NEW state \in States, Written(c, state)
      PROVE  [Delivery!Next]_(Delivery!vars)
  <2>1. rows' = rows /\ \A d \in Captures : disk[d] # "absent" => disk'[d] # "absent"
    BY <1>4 DEF Written, States
  <2> QED
    BY <1>1, <2>1
<1>5. CASE Stopped
  BY <1>1, <1>5 DEF Stopped
<1>6. CASE UNCHANGED <<disk, rows>>
  BY <1>1, <1>6
<1> QED
  BY <1>2, <1>3, <1>4, <1>5, <1>6, StoreStep

\* The queue keeps its promise: a capture leaves the device only once the server
\* has it, and lands at most once, through any crashes, lost answers and loads
\* that overlap (queue.ts:15-22).
THEOREM QueueKeepsCaptures == Spec => KeepsCaptures
<1>1. Init => Delivery!Init
  <2> SUFFICES ASSUME Init PROVE Held = {} /\ Stored = {}
    BY DEF Delivery!Init
  <2> QED
    BY DEF Init, NoRows, Held, Stored
<1>2. IInv /\ [Next]_vars => [Delivery!Next]_(Delivery!vars)
  BY StepsDeliver
<1> QED
  BY <1>1, <1>2, InitHolds, InvariantStep, PTL DEF Spec, KeepsCaptures, Delivery!Safety

\* No capture waits for a trigger that may not come: connected with no pass
\* running, nothing in the mirror is pending or left marked, whichever captures,
\* loads, outages and answers came in between (the join described at
\* queue.ts:203-207), unless a sync was turned away for want of a token and none
\* has started since.
THEOREM NothingIsLeftWaiting == Spec => []NothingWaitsUnasked
<1> DEFINE Inv == IInv /\ Flags /\ Asked
<1>1. Init => Inv
  <2>1. Init => Flags /\ Asked
    BY DEF Init, NoRows, Flags, Asked
  <2> QED
    BY <2>1, InitHolds
<1>2. Inv /\ [Next]_vars => Inv'
  BY InvariantStep, FlagsStep, AskedStep DEF IInv
<1>3. Inv => NothingWaitsUnasked
  BY DEF Asked, Wanted, InHand, Waiting, NothingWaitsUnasked
<1> QED
  BY <1>1, <1>2, <1>3, PTL DEF Spec

\* When loads do not overlap and nothing is captured before the first is through,
\* the mirror is the store, crashes and outages included, so that a sync reaches
\* every unsent row of it; and no two actions of the store share a number (queue.ts:141-152).
THEOREM OneLoadKeepsOrder ==
  ASSUME OneLoad
  PROVE  Spec => [](MirrorCoversStore /\ NumberedOnce /\ (loaded => mirror = disk))
<1> DEFINE Inv == IInv /\ Numbers /\ Settled
<1>1. Init => Inv
  <2> SUFFICES ASSUME Init PROVE Settled
    BY InitHolds, NumbersAtFirst
  <2>1. \A l \in Loads : load[l].at = "idle"
    BY DEF Init, IdleLoad
  <2>2. Held = {} /\ enqueuing = {} /\ pass.at = "idle"
    BY DEF Init, NoRows, IdlePass, Held
  <2> QED
    BY <2>1, <2>2 DEF Init, Settled, Kept, PassWithin
<1>2. Inv /\ [Next]_vars => Inv'
  BY InvariantStep, NumbersStep, SettledStep DEF IInv
<1>3. Inv => MirrorCoversStore /\ NumberedOnce /\ (loaded => mirror = disk)
  <2> SUFFICES ASSUME Inv PROVE MirrorCoversStore /\ NumberedOnce /\ (loaded => mirror = disk)
    OBVIOUS
  <2>1. loaded => mirror = disk
    BY DEF Settled
  <2>2. NumberedOnce
    BY DEF Settled, Kept, NumberedOnce
  <2>3. MirrorCoversStore
    BY <2>1 DEF MirrorCoversStore
  <2> QED
    BY <2>1, <2>2, <2>3
<1> QED
  BY <1>1, <1>2, <1>3, PTL DEF Spec
=============================================================================

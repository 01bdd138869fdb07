----------------------------- MODULE FieldQueue -----------------------------
(***************************************************************************)
(* The store-and-forward queue of the field app                            *)
(* (apps/web/src/lib/field/queue.ts, db.ts, types.ts): one browser tab,    *)
(* its IndexedDB store, and the API it drains to.                          *)
(*                                                                         *)
(* JavaScript runs to completion between two awaits, so a step here is the *)
(* code between one await of an IndexedDB or network operation and the     *)
(* next: an operation is issued by one step and its effect on the store,   *)
(* with the continuation that follows it, is a later step.  Everything     *)
(* else - a second load, a capture, connectivity, the tab dying - may come *)
(* in between.                                                             *)
(***************************************************************************)
EXTENDS Naturals, FiniteSets, FiniteSetsExt

CONSTANTS
  Captures,      \* ids of the actions this device may record
  Reads,         \* those that are meter reads; the others are skips
  WithPhoto,     \* those that carry a photograph
  Refusable,     \* those the server may refuse (the stop changed hands, ...)
  Loads,         \* load() calls that may overlap: one per mounted component
  EarlyCapture,  \* may a reader capture before the first load has finished?
  MaxFaults      \* bound on crashes, outages and failed calls together

ASSUME FieldQueueAssumption ==
  /\ IsFiniteSet(Captures)
  /\ Reads \subseteq Captures
  /\ WithPhoto \subseteq Captures
  /\ Refusable \subseteq Captures
  /\ EarlyCapture \in BOOLEAN
  /\ MaxFaults \in Nat

VARIABLES
  disk,        \* the IndexedDB row of each action: its state, or "absent"
  seq,         \* the sequence number an action was given, 0 before
  mirror,      \* the in-memory copy of the rows
  loaded,      \* has a load() of this session finished?
  seqCounter,  \* the last sequence number handed out
  load,        \* progress of each load() call
  enqueuing,   \* captures whose first putAction is outstanding
  pass,        \* the traversal in flight
  resync,      \* was a sync requested while one was running?
  declined,    \* history: was a sync turned away for want of a token while
               \* connected, with none started since?
  online,      \* connected (navigator.onLine)
  token,       \* signed in: is there a token or a development user to send?
  wire,        \* requests that left the device and are not yet processed
  rows,        \* how many times the server recorded each action
  photos,      \* photographs in the object store
  faults       \* faults so far

device == <<disk, seq, mirror, loaded, seqCounter, load, enqueuing>>
draining == <<pass, resync, declined>>
server == <<wire, rows, photos>>
vars == <<device, draining, server, online, token, faults>>

States == {"pending", "syncing", "synced", "failed"}
Rows == [Captures -> States \cup {"absent"}]

NoRows == [c \in Captures |-> "absent"]
IdleLoad == [at |-> "idle", all |-> NoRows, top |-> 0]
IdlePass == [at |-> "idle", id |-> "none", left |-> {}, outcome |-> "none"]

TypeOK ==
  /\ disk \in Rows /\ mirror \in Rows
  /\ seq \in [Captures -> 0..Cardinality(Captures)]
  /\ loaded \in BOOLEAN /\ resync \in BOOLEAN /\ declined \in BOOLEAN
  /\ online \in BOOLEAN /\ token \in BOOLEAN
  /\ seqCounter \in 0..Cardinality(Captures)
  /\ load \in [Loads -> [at : {"idle", "reading", "working"}, all : Rows,
                         top : 0..Cardinality(Captures)]]
  /\ enqueuing \subseteq Captures
  /\ pass \in [at : {"idle", "marking", "evidence", "sent", "landing", "photo"},
               id : Captures \cup {"none"}, left : SUBSET Captures,
               outcome : States \cup {"none"}]
  /\ wire \subseteq Captures /\ photos \subseteq Captures
  /\ rows \in [Captures -> 0..2]
  /\ faults \in 0..MaxFaults

Init ==
  /\ disk = NoRows /\ mirror = NoRows
  /\ seq = [c \in Captures |-> 0]
  /\ loaded = FALSE /\ seqCounter = 0
  /\ load = [l \in Loads |-> IdleLoad]
  /\ enqueuing = {}
  /\ pass = IdlePass /\ resync = FALSE /\ declined = FALSE
  /\ online = TRUE /\ token = TRUE
  /\ wire = {} /\ photos = {}
  /\ rows = [c \in Captures |-> 0]
  /\ faults = 0

-----------------------------------------------------------------------------
(* Sync.                                                                   *)

\* What a pass would send from a mirror.
Syncable(m) == {c \in Captures : m[c] \in {"pending", "failed"}}

\* The passes that may start from the set S of actions: lowest sequence
\* number first; a pass over nothing ends without an await.
Passes(S) ==
  IF S = {} THEN {IdlePass}
  ELSE {[at |-> "marking", id |-> c, left |-> S \ {c}, outcome |-> "none"] :
          c \in {d \in S : \A e \in S : seq[d] <= seq[e]}}

\* drain(): turned away without a connection or a token; the headers it starts
\* with serve every round of it.
Drain(connected) ==
  IF connected /\ token
  THEN pass' \in Passes(Syncable(mirror')) /\ resync' = FALSE /\ declined' = FALSE
  ELSE declined' = (declined \/ connected) /\ UNCHANGED <<pass, resync>>

\* A sync that leaves the pass in flight alone and does not ask for another.
SyncIgnored(connected) ==
  IF pass.at # "idle" THEN UNCHANGED draining ELSE Drain(connected)

\* sync(): join the pass in flight and ask it for another round, or start one.
Sync(connected) ==
  IF pass.at # "idle" THEN resync' = TRUE /\ UNCHANGED <<pass, declined>>
  ELSE Drain(connected)

\* The end of one action's turn: the next of this pass, or another pass if one
\* was requested, or the end of the drain.
Advance ==
  /\ IF pass.left # {} THEN pass' \in Passes(pass.left) /\ UNCHANGED resync
     ELSE IF resync THEN pass' \in Passes(Syncable(mirror')) /\ resync' = FALSE
     ELSE pass' = IdlePass /\ UNCHANGED resync
  /\ UNCHANGED declined

\* The effect of persist() once its write is done: the store, then the mirror.
Persist(c, state) ==
  /\ disk' = [disk EXCEPT ![c] = state]
  /\ mirror' = [mirror EXCEPT ![c] = state]

Fault == faults < MaxFaults /\ faults' = faults + 1

\* A skip that carries a photograph uploads it before it is posted.
EvidenceNever(c) == FALSE
NeedsEvidence(c) == c \in WithPhoto \ Reads

\* The row is marked `syncing`; then the request leaves, or for a skip with a
\* photograph the upload starts.
MarkSyncing ==
  /\ pass.at = "marking"
  /\ Persist(pass.id, "syncing")
  /\ IF NeedsEvidence(pass.id)
     THEN pass' = [pass EXCEPT !.at = "evidence"] /\ UNCHANGED wire
     ELSE pass' = [pass EXCEPT !.at = "sent"] /\ wire' = wire \cup {pass.id}
  /\ UNCHANGED <<seq, loaded, seqCounter, load, enqueuing, resync, declined,
                 online, token, rows, photos, faults>>

\* The photograph of a skip is up: only now is the skip itself posted.
EvidenceUploaded ==
  /\ pass.at = "evidence"
  /\ photos' = photos \cup {pass.id}
  /\ wire' = wire \cup {pass.id}
  /\ pass' = [pass EXCEPT !.at = "sent"]
  /\ UNCHANGED <<device, resync, declined, online, token, rows, faults>>

EvidenceFails ==
  /\ pass.at = "evidence"
  /\ Fault
  /\ pass' = [pass EXCEPT !.at = "landing", !.outcome = "failed"]
  /\ UNCHANGED <<device, resync, declined, online, token, server>>

\* The form that takes every status it does not know for success.
StateUnlessRejected(status) == IF status = "rejected" THEN "failed" ELSE "synced"

\* Only `accepted` and `duplicate` mean that the server holds the action.
StateFromIngest(status) ==
  IF status \in {"accepted", "duplicate"} THEN "synced" ELSE "failed"

\* The response of the request in flight, if the tab still waits for it.
Answer(c, status) ==
  IF pass.at = "sent" /\ pass.id = c
  THEN pass' = [pass EXCEPT !.at = "landing", !.outcome = StateFromIngest(status)]
  ELSE UNCHANGED pass

\* An insert that does not look at the key.
RecordAgain(c) == rows' = [rows EXCEPT ![c] = IF @ < 2 THEN @ + 1 ELSE @]

\* The row the server writes for an action, once per id: a replay finds it.
Record(c) == rows' = [rows EXCEPT ![c] = IF @ = 0 THEN 1 ELSE @]

\* The server records an action, or finds it recorded, and says which.
ServerStores(c) ==
  /\ c \in wire
  /\ wire' = wire \ {c}
  /\ Record(c)
  /\ Answer(c, IF rows[c] = 0 THEN "accepted" ELSE "duplicate")
  /\ UNCHANGED <<device, resync, declined, online, token, photos, faults>>

\* The server answers without recording the action: it refuses it, or reports
\* that processing this one event failed.
ServerRefuses(c) ==
  /\ c \in wire \cap Refusable
  /\ rows[c] = 0
  /\ wire' = wire \ {c}
  /\ \E status \in {"rejected", "failed"} : Answer(c, status)
  /\ UNCHANGED <<device, resync, declined, online, token, rows, photos, faults>>

\* The call fails: no connection, a 5xx, or a response that never arrives.
\* The request may still be processed afterwards.
CallFails ==
  /\ pass.at = "sent"
  /\ Fault
  /\ \/ UNCHANGED <<wire, rows>>
     \/ wire' = wire \ {pass.id} /\ UNCHANGED rows
     \/ /\ pass.id \in wire
        /\ wire' = wire \ {pass.id}
        /\ Record(pass.id)
  /\ pass' = [pass EXCEPT !.at = "landing", !.outcome = "failed"]
  /\ UNCHANGED <<device, resync, declined, online, token, photos>>

\* The outcome is written down; a read that landed with a photograph uploads
\* it next.
PersistOutcome ==
  /\ pass.at = "landing"
  /\ Persist(pass.id, pass.outcome)
  /\ IF pass.outcome = "synced" /\ pass.id \in Reads \cap WithPhoto
     THEN pass' = [pass EXCEPT !.at = "photo"] /\ UNCHANGED <<resync, declined>>
     ELSE Advance
  /\ UNCHANGED <<seq, loaded, seqCounter, load, enqueuing, online, token, server, faults>>

\* A read's photograph goes up after the read, best effort.
PhotoUploaded ==
  /\ pass.at = "photo"
  /\ photos' = photos \cup {pass.id}
  /\ Persist(pass.id, "synced")
  /\ Advance
  /\ UNCHANGED <<seq, loaded, seqCounter, load, enqueuing, online, token, wire, rows,
                 faults>>

PhotoFails ==
  /\ pass.at = "photo"
  /\ Fault
  /\ UNCHANGED device
  /\ Advance
  /\ UNCHANGED <<online, token, server>>

-----------------------------------------------------------------------------
(* Capture and load.                                                       *)

NextSeqTwice == seqCounter + 2
NextSeq == seqCounter + 1

\* enqueueRead / enqueueSkip up to their first await.
Capture(c) ==
  /\ seq[c] = 0
  /\ EarlyCapture \/ loaded
  /\ seqCounter' = NextSeq
  /\ seq' = [seq EXCEPT ![c] = seqCounter']
  /\ enqueuing' = enqueuing \cup {c}
  /\ UNCHANGED <<disk, mirror, loaded, load, draining, server, online, token,
                 faults>>

\* ... the row is written, shown in the mirror, and a sync is requested.
CaptureStored(c) ==
  /\ c \in enqueuing
  /\ enqueuing' = enqueuing \ {c}
  /\ Persist(c, "pending")
  /\ Sync(online)
  /\ UNCHANGED <<seq, loaded, seqCounter, load, server, online, token, faults>>

\* A component mounts and calls load(); every call made before one of them has
\* finished goes through the whole of it.
LoadStart(l) ==
  /\ ~loaded
  /\ load[l].at = "idle"
  /\ load' = [load EXCEPT ![l].at = "reading"]
  /\ UNCHANGED <<disk, seq, mirror, loaded, seqCounter, enqueuing, draining,
                 server, online, token, faults>>

\* The highest number in the store, rows about to be pruned included.
TopUnseeded == 0
TopOfStore == Max({0} \cup {seq[c] : c \in {d \in Captures : disk[d] # "absent"}})

\* allActions() answers with the rows as they are.
LoadRead(l) ==
  /\ load[l].at = "reading"
  /\ load' = [load EXCEPT ![l] =
       [at |-> "working", all |-> disk, top |-> TopOfStore]]
  /\ UNCHANGED <<disk, seq, mirror, loaded, seqCounter, enqueuing, draining,
                 server, online, token, faults>>

StrandedNone(l) == {}
FinishedOrFailed(l) == {c \in Captures : load[l].all[c] \in {"synced", "failed"}}

Stranded(l) == {c \in Captures : load[l].all[c] = "syncing"}
Finished(l) == {c \in Captures : load[l].all[c] = "synced"}

\* A row stranded in `syncing` is rewound, one write after another.
LoadRewind(l) ==
  /\ load[l].at = "working"
  /\ \E c \in Stranded(l) :
       /\ load' = [load EXCEPT ![l].all[c] = "pending"]
       /\ disk' = [disk EXCEPT ![c] = "pending"]
  /\ UNCHANGED <<seq, mirror, loaded, seqCounter, enqueuing, draining, server,
                 online, token, faults>>

\* A row synced in an earlier session is deleted.
LoadPrune(l) ==
  /\ load[l].at = "working" /\ Stranded(l) = {}
  /\ \E c \in Finished(l) :
       /\ load' = [load EXCEPT ![l].all[c] = "absent"]
       /\ disk' = [disk EXCEPT ![c] = "absent"]
  /\ UNCHANGED <<seq, mirror, loaded, seqCounter, enqueuing, draining, server,
                 online, token, faults>>

\* What becomes of the mirror when a load is through.
ReloadedPending(l) ==
  [c \in Captures |-> IF load[l].all[c] = "pending" THEN "pending" ELSE "absent"]
Reloaded(l) == load[l].all

\* The mirror and the counter are replaced by what was read, and a sync starts.
LoadFinish(l) ==
  /\ load[l].at = "working" /\ Stranded(l) = {} /\ Finished(l) = {}
  /\ mirror' = Reloaded(l)
  /\ seqCounter' = load[l].top
  /\ loaded' = TRUE
  /\ load' = [load EXCEPT ![l] = IdleLoad]
  /\ Sync(online)
  /\ UNCHANGED <<disk, seq, enqueuing, server, online, token, faults>>

-----------------------------------------------------------------------------
(* The environment.                                                        *)

\* The sync indicator is pressed; it looks at the connection, not at the token.
ManualSync ==
  /\ online
  /\ pass.at # "idle" \/ Syncable(mirror) # {}
  /\ UNCHANGED device
  /\ Sync(online)
  /\ UNCHANGED <<server, online, token, faults>>

GoOffline ==
  /\ online /\ Fault
  /\ online' = FALSE
  /\ UNCHANGED <<device, draining, server, token>>

\* The session ends, or its token runs out and is cleared.
LoseToken ==
  /\ token /\ Fault
  /\ token' = FALSE
  /\ UNCHANGED <<device, draining, server, online>>

\* Signed in again.  The queue is not told: load() returns at once when it has
\* loaded, and nothing calls sync().
RegainToken ==
  /\ ~token
  /\ token' = TRUE
  /\ UNCHANGED <<device, draining, server, online, faults>>

\* The browser's `online` event calls sync().
GoOnline ==
  /\ ~online
  /\ online' = TRUE
  /\ UNCHANGED device
  /\ Sync(TRUE)
  /\ UNCHANGED <<server, token, faults>>

\* Writes that are outstanding when the tab dies may or may not reach the store.
Outstanding ==
  {[id |-> c, state |-> "pending"] : c \in enqueuing} \cup
  (IF pass.at = "marking" THEN {[id |-> pass.id, state |-> "syncing"]} ELSE {}) \cup
  (IF pass.at = "landing" THEN {[id |-> pass.id, state |-> pass.outcome]} ELSE {})

\* The tab dies; the next one starts with nothing but the store.
Crash ==
  /\ Fault
  /\ \E written \in SUBSET Outstanding :
       disk' = [c \in Captures |->
                  IF \E w \in written : w.id = c
                  THEN (CHOOSE w \in written : w.id = c).state ELSE disk[c]]
  /\ mirror' = NoRows /\ loaded' = FALSE /\ seqCounter' = 0
  /\ load' = [l \in Loads |-> IdleLoad] /\ enqueuing' = {}
  /\ pass' = IdlePass /\ resync' = FALSE /\ declined' = FALSE
  /\ UNCHANGED <<seq, server, online, token>>

PassStep ==
  \/ MarkSyncing \/ EvidenceUploaded \/ PersistOutcome \/ PhotoUploaded
LoadStep(l) ==
  \/ LoadStart(l) \/ LoadRead(l) \/ LoadRewind(l) \/ LoadPrune(l) \/ LoadFinish(l)
Disturbance == EvidenceFails \/ CallFails \/ PhotoFails \/ GoOffline \/ LoseToken \/ Crash

Next ==
  \/ \E c \in Captures : Capture(c) \/ CaptureStored(c)
  \/ \E c \in Captures : ServerStores(c) \/ ServerRefuses(c)
  \/ \E l \in Loads : LoadStep(l)
  \/ PassStep \/ ManualSync \/ GoOnline \/ RegainToken \/ Disturbance

\* The tab's own work and the server's go on; the app is opened, the device
\* comes back online, the person signs in again, and somebody signed in presses
\* sync while something is unsent.
\* Captures and faults happen or not.
Fairness ==
  /\ WF_vars(PassStep) /\ WF_vars(pass.at = "idle" /\ token /\ ManualSync)
  /\ WF_vars(GoOnline) /\ WF_vars(RegainToken)
  /\ \A c \in Captures : WF_vars(CaptureStored(c))
  /\ \A c \in Captures : WF_vars(ServerStores(c))
  /\ \A l \in Loads : WF_vars(LoadStep(l))

Spec == Init /\ [][Next]_vars /\ Fairness

-----------------------------------------------------------------------------
(* Properties.                                                             *)

\* However often a capture is sent - retried, replayed after a crash, sent
\* twice by overlapping loads - the server records it at most once (ADR-008).
LandsAtMostOnce == \A c \in Captures : rows[c] <= 1

\* A row shown or stored as `synced` is one the server holds: nothing else may
\* be pruned (types.ts:46-57).
SyncedIsStored ==
  \A c \in Captures : "synced" \in {disk[c], mirror[c]} => rows[c] > 0

\* A skip that carries a photograph is never recorded before its evidence is in
\* the object store (queue.ts:293-299).
EvidenceFirst ==
  \A c \in WithPhoto \ Reads : rows[c] > 0 => c \in photos

Waiting == {c \in Captures : mirror[c] \in {"pending", "syncing"}}

\* No capture waits for a trigger that may not come: while the device is
\* connected and no pass runs, nothing in the mirror is `pending` or left marked
\* `syncing`, unless a sync was turned away for want of a token and none has
\* started since (the join described at queue.ts:203-207).
NothingWaitsUnasked ==
  online /\ pass.at = "idle" /\ ~declined => Waiting = {}

\* Refuted: connected and signed in, with no pass running, nothing waits.  What
\* was captured without a token still does after signing in again, until the next
\* capture, press, `online` event or reload: no code syncs when a token comes
\* (queue.ts:221-223, 332-334).
NothingWaitsOnceSignedIn ==
  online /\ token /\ pass.at = "idle" => Waiting = {}

\* Once a load has finished, every unsent row of the store is in the mirror, so
\* a sync reaches it without a restart.
MirrorCoversStore ==
  loaded => \A c \in Captures :
              disk[c] \in {"pending", "syncing", "failed"} => mirror[c] # "absent"

Held == {c \in Captures : disk[c] # "absent"}
Stored == {c \in Captures : rows[c] > 0}

\* Two actions in the store never share a sequence number, the key they are
\* replayed in (queue.ts:141-152).
NumberedOnce ==
  \A c, d \in Held : c # d => seq[c] # seq[d]

Delivery == INSTANCE CaptureDelivery WITH held <- Held, stored <- Stored

\* The queue keeps the promise: what is written down leaves the device only
\* after the server has it, and only what was written down is ever stored.
KeepsCaptures == Delivery!Safety

\* ... and with fairness, everything written down that the server will take is
\* stored in the end.
DeliversCaptures ==
  \A c \in Captures \ Refusable : c \in Held ~> c \in Stored
=============================================================================

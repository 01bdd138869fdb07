---------------------------- MODULE FieldScreens ----------------------------
(***************************************************************************)
(* The screens of a reader (apps/web/src/app/field): the run with its map  *)
(* and list, the reread tasks, and the page of a stop, where a reading is  *)
(* typed, kept as a draft in localStorage, and handed to the offline queue *)
(* (modelled in FieldQueue) or the stop is skipped.                        *)
(*                                                                         *)
(* The router mounts a page anew for every stop.  A step is what runs      *)
(* between two awaits, or between two renders.  A value stands for the     *)
(* text of the reading and of its note, 0 for neither.  Which readings ask *)
(* for a photograph is in MeterReads.                                      *)
(***************************************************************************)
EXTENDS Integers, FiniteSets

CONSTANTS
  Stops,
  MaxValue,   \* different texts a person types
  MaxSaves    \* saves under way at a time

VARIABLES
  draft,   \* localStorage: the draft of each stop
  tab,     \* the page that is open and its state
  saves,   \* enqueueRead and enqueueSkip calls that have not returned
  queued,  \* the queue: whether a capture of the stop waits to be sent
  status,  \* the API: whether the stop is done, read or skipped
  typed,   \* history: what was typed last for a stop and not submitted since
  wiped,   \* history: stops whose draft went with an earlier reading of theirs
  cut      \* history: a page was stopped between its first two renders

vars == <<draft, tab, saves, queued, status, typed, wiped, cut>>

\* A page: the stop, whether it has the run, the value in the form, the draft
\* that was read and is not in the form yet.
Page == [at : {"closed", "run", "stop"}, stop : Stops,
         run : {"asked", "shown", "error", "stuck"},
         stopStatus : {"pending", "done"},
         value : 0..MaxValue, read : 0..MaxValue,
         recapture : BOOLEAN, reread : BOOLEAN, skipping : BOOLEAN, busy : BOOLEAN]

Blank == [at |-> "run", stop |-> CHOOSE s \in Stops : TRUE, run |-> "asked",
          stopStatus |-> "pending", value |-> 0, read |-> 0, recapture |-> FALSE,
          reread |-> FALSE, skipping |-> FALSE, busy |-> FALSE]

Init ==
  /\ draft = [s \in Stops |-> 0] /\ typed = draft
  /\ tab = Blank
  /\ saves = {}
  /\ queued = [s \in Stops |-> FALSE]
  /\ status \in [Stops -> {"pending", "done"}]
  /\ wiped = {} /\ cut = FALSE

-----------------------------------------------------------------------------
(* Pages come and go.                                                      *)

\* Saves outlive the page that started them.
Orphaned == {[v EXCEPT !.here = FALSE] : v \in saves}
Between == tab.at = "stop" /\ tab.read # 0

\* A page of a stop mounts.  Its first effect reads the draft; the second, in
\* the same commit, still sees an empty form and removes it.
Mount(s, reread) ==
  /\ tab' = [Blank EXCEPT !.at = "stop", !.stop = s, !.reread = reread, !.read = draft[s]]
  /\ draft' = [draft EXCEPT ![s] = 0]
  /\ saves' = Orphaned
  /\ cut' = (cut \/ Between)
  /\ UNCHANGED <<queued, status, typed, wiped>>

\* From the list, a marker of the map, the banner of a failed capture, or a
\* reread task.
OpenStop == tab.at = "run" /\ \E s \in Stops, reread \in BOOLEAN : Mount(s, reread)

\* Prev and Next, once the run is known.  The task is not carried along.
Step ==
  /\ tab.at = "stop" /\ tab.run = "shown"
  /\ \E s \in Stops \ {tab.stop} : Mount(s, FALSE)

\* The next render has the draft in the form, and writes it back.
Rerender ==
  /\ Between
  /\ tab' = [tab EXCEPT !.value = tab.read, !.read = 0]
  /\ draft' = [draft EXCEPT ![tab.stop] = tab.read]
  /\ UNCHANGED <<saves, queued, status, typed, wiped, cut>>

\* The run and the reader arrive.  A run that fails says so; without the reader
\* the page goes on loading.
Fetched ==
  /\ tab.at = "stop" /\ tab.run = "asked" /\ ~Between
  /\ \E answer \in {"shown", "error", "stuck"} :
       tab' = [tab EXCEPT !.run = answer,
                 !.stopStatus = IF answer = "shown" THEN status[tab.stop] ELSE @]
  /\ UNCHANGED <<draft, saves, queued, status, typed, wiped, cut>>

Leave(at) ==
  /\ tab' = [Blank EXCEPT !.at = at]
  /\ cut' = (cut \/ Between)

Back ==
  /\ tab.at = "stop"
  /\ Leave("run") /\ saves' = Orphaned
  /\ UNCHANGED <<draft, queued, status, typed, wiped>>

\* The tab is killed with what it awaits, and opened again.
Die ==
  /\ tab.at # "closed"
  /\ Leave("closed") /\ saves' = {}
  /\ UNCHANGED <<draft, queued, status, typed, wiped>>

Reopen ==
  /\ tab.at = "closed"
  /\ tab' = Blank
  /\ UNCHANGED <<draft, saves, queued, status, typed, wiped, cut>>

-----------------------------------------------------------------------------
(* The form.                                                               *)

Ready == tab.at = "stop" /\ tab.run = "shown"

\* A stop that is done shows its reading; the form comes with "Re-capture" or
\* with a reread task.
Done == tab.stopStatus # "pending" /\ ~tab.recapture /\ ~tab.reread

FormShown == Ready /\ ~tab.skipping /\ ~Done

\* The effect stores what is typed, or removes the draft of an emptied form.  The
\* form stays open while its reading is saved.
Type ==
  /\ FormShown
  /\ \E v \in 0..MaxValue \ {tab.value} :
       /\ tab' = [tab EXCEPT !.value = v]
       /\ draft' = [draft EXCEPT ![tab.stop] = v]
       /\ typed' = [typed EXCEPT ![tab.stop] = v]
  /\ saves' = {[w EXCEPT !.over = @ \/ w.stop = tab.stop] : w \in saves}
  /\ wiped' = wiped \ {tab.stop}
  /\ UNCHANGED <<queued, status, cut>>

Press(field, to) ==
  /\ tab' = [tab EXCEPT ![field] = to]
  /\ UNCHANGED <<draft, saves, queued, status, typed, wiped, cut>>

Recapture == Ready /\ ~tab.skipping /\ Done /\ Press("recapture", TRUE)
SkipThisStop == FormShown /\ Press("skipping", TRUE)
CancelSkip == Ready /\ tab.skipping /\ Press("skipping", FALSE)

\* The button waits and the write to IndexedDB begins; `over` says whether other text
\* has been typed at the stop since.
Save(kind) ==
  /\ ~tab.busy /\ Cardinality(saves) < MaxSaves
  /\ tab' = [tab EXCEPT !.busy = TRUE]
  /\ saves' = saves \cup {[stop |-> tab.stop, kind |-> kind, at |-> "writing", here |-> TRUE,
                              over |-> FALSE]}
  /\ UNCHANGED <<draft, queued, status, typed, wiped, cut>>

submitRead == FormShown /\ tab.value # 0 /\ Save("read")
submitSkip == Ready /\ tab.skipping /\ Save("skip")

\* The capture is in the store of the queue.
Written ==
  \E v \in saves :
    /\ v.at = "writing"
    /\ queued' = [queued EXCEPT ![v.stop] = TRUE]
    /\ saves' = (saves \ {v}) \cup {[v EXCEPT !.at = "written"]}
    /\ UNCHANGED <<draft, tab, status, typed, wiped, cut>>

\* After a reading is saved the draft of its stop is removed, with what was typed
\* there since, and wherever the reader has gone, the run's page opens.
DraftKeptOn(s) == draft
DraftRemoved(s) == [draft EXCEPT ![s] = 0]
Saved ==
  \E v \in saves :
    /\ v.at = "written"
    /\ IF v.kind = "read"
       THEN /\ draft' = DraftRemoved(v.stop)
            /\ typed' = IF v.over THEN typed ELSE [typed EXCEPT ![v.stop] = 0]
            /\ wiped' = IF v.over THEN wiped \cup {v.stop} ELSE wiped \ {v.stop}
       ELSE UNCHANGED <<draft, typed, wiped>>
    /\ Leave("run")
    /\ saves' = {[w EXCEPT !.here = FALSE] : w \in saves \ {v}}
    /\ UNCHANGED <<queued, status>>

\* The write fails: the form can be used again, if it is still there.
SaveFails ==
  \E v \in saves :
    /\ v.at = "writing"
    /\ tab' = IF v.here THEN [tab EXCEPT !.busy = FALSE] ELSE tab
    /\ saves' = saves \ {v}
    /\ UNCHANGED <<draft, queued, status, typed, wiped, cut>>

\* The queue sends what waits, and the API takes it or refuses it.
Sent ==
  \E s \in Stops :
    /\ queued[s]
    /\ queued' = [queued EXCEPT ![s] = FALSE]
    /\ \/ status' = [status EXCEPT ![s] = "done"]
       \/ UNCHANGED status
    /\ UNCHANGED <<draft, tab, saves, typed, wiped, cut>>

Next ==
  \/ OpenStop \/ Step \/ Rerender \/ Fetched \/ Back \/ Die \/ Reopen
  \/ Type \/ Recapture \/ SkipThisStop \/ CancelSkip \/ submitRead \/ submitSkip
  \/ Written \/ Saved \/ SaveFails \/ Sent

Spec == Init /\ [][Next]_vars

-----------------------------------------------------------------------------
(* Properties.                                                             *)

TypeOK ==
  /\ draft \in [Stops -> 0..MaxValue] /\ typed \in [Stops -> 0..MaxValue]
  /\ tab \in Page
  /\ saves \subseteq [stop : Stops, kind : {"read", "skip"}, at : {"writing", "written"},
                      here : BOOLEAN, over : BOOLEAN]
  /\ wiped \subseteq Stops
  /\ queued \in [Stops -> BOOLEAN]
  /\ status \in [Stops -> {"pending", "done"}]

Drafted(s) == IF Between /\ tab.stop = s THEN tab.read ELSE draft[s]

\* "A half-typed reading survives leaving the screen" and "is cleared on submit"
\* (stops/[stopId]/page.tsx:75-82): each stop's draft is what was last typed and
\* not submitted, whatever was saved, left or killed meanwhile, unless it was typed
\* while an earlier reading of the stop was being saved, or a page was stopped before
\* its second render.
DraftIsWhatWasTyped == ~cut => \A s \in Stops \ wiped : typed[s] = Drafted(s)

\* The same for text typed while an earlier reading is being saved.
\* Refuted: the draft is removed after the write, whatever it has become.
RetypedSurvives == ~cut => \A s \in Stops : typed[s] = Drafted(s)

\* The same for a page stopped between its first two renders.
\* Refuted: its draft was removed by the first and would be written by the second.
DraftSurvives == \A s \in Stops \ wiped : typed[s] = Drafted(s)

\* Capturing a stop again "has to be deliberate" (stops/[stopId]/page.tsx:55-62),
\* of a stop whose capture still waits on the device too.
QueuedIsDeliberate ==
  [][Cardinality(saves') > Cardinality(saves) /\ queued[tab.stop]
       => tab.recapture \/ tab.reread]_vars
=============================================================================

---------------------------- MODULE ScreensProofs ----------------------------
(***************************************************************************)
(* What holds of the screens for any stops, clients, routes and bounds.    *)
(***************************************************************************)
EXTENDS MCScreens, FiniteSetTheorems, WellFoundedInduction, TLAPS

\* A step of the screens is a step of the one that is open; the others stand still.
LEMMA Parts ==
  ASSUME [Next]_vars
  PROVE  [C!Next]_console /\ [F!Next]_field /\ [M!Next]_offline
BY DEF Next, vars

\* Sums of numbers are numbers.
LEMMA Sums == \A a, b \in Nat : a + b \in Nat /\ a + 1 \in Nat
OBVIOUS

-----------------------------------------------------------------------------
(* FieldScreens.                                                           *)

Saves == [stop : Stops, kind : {"read", "skip"}, at : {"writing", "written"},
          here : BOOLEAN, over : BOOLEAN]

\* What DraftIsWhatWasTyped needs of the variables.  A page has its run only after
\* its second render, so that nothing is typed before.
FieldShapes ==
  /\ draft \in [Stops -> 0..MaxValue] /\ typed \in [Stops -> 0..MaxValue]
  /\ status \in [Stops -> {"pending", "done"}] /\ queued \in [Stops -> BOOLEAN]
  /\ tab \in F!Page /\ saves \subseteq Saves /\ wiped \subseteq Stops
  /\ F!Between => tab.run = "asked"

\* A fresh page is a page.
LEMMA BlankPage == F!Blank \in F!Page /\ F!Blank.at = "run" /\ F!Blank.read = 0
<1>1. (CHOOSE s \in Stops : TRUE) \in Stops
  BY ScreensAssumption
<1>2. 0 \in 0..MaxValue
  BY ScreensAssumption
<1> QED
  BY <1>1, <1>2 DEF F!Blank, F!Page

\* Saves whose page has gone are saves.
LEMMA Gone ==
  ASSUME NEW vs \in SUBSET Saves
  PROVE  {[v EXCEPT !.here = FALSE] : v \in vs} \subseteq Saves
BY DEF Saves

\* The page stays open at its stop, with what it has read; until its second
\* render it has no run.
Stays ==
  /\ tab'.at = tab.at /\ tab'.stop = tab.stop /\ tab'.read = tab.read
  /\ F!Between => tab'.run = tab.run

\* A page leaves for one that is not a stop's.
Leaves == tab'.at # "stop" /\ (cut' <=> cut \/ F!Between)

\* The steps, by what they do to drafts: a page mounts, its second render comes,
\* the reader types, a save of a reading returns (of the last that was typed at the
\* stop, or not), a page is left, or none.
Drafts ==
  \/ \E s \in Stops, reread \in BOOLEAN : F!Mount(s, reread)
  \/ F!Rerender
  \/ F!Type
  \/ \E s \in Stops :
       /\ Leaves /\ draft' = F!DraftRemoved(s)
       /\ \/ typed' = [typed EXCEPT ![s] = 0] /\ wiped' = wiped \ {s}
          \/ UNCHANGED typed /\ wiped' = wiped \cup {s}
  \/ Leaves /\ UNCHANGED <<draft, typed, wiped>>
  \/ Stays /\ UNCHANGED <<draft, typed, wiped, cut>>

\* Every step is one of these, and keeps the shapes.
LEMMA StepDrafts ==
  ASSUME FieldShapes, [F!Next]_field
  PROVE  FieldShapes' /\ Drafts
<1> DEFINE Goal == FieldShapes' /\ Drafts
<1>0. tab \in F!Page /\ F!Blank \in F!Page
  BY BlankPage DEF FieldShapes
<1>14. tab.stop \in Stops /\ tab.read \in 0..MaxValue /\ tab.value \in 0..MaxValue
  BY <1>0 DEF F!Page
<1>15. status' \in [Stops -> {"pending", "done"}] /\ queued' \in [Stops -> BOOLEAN]
  <2>1. \/ UNCHANGED <<status, queued>>
        \/ \E v \in saves : queued' = [queued EXCEPT ![v.stop] = TRUE] /\ UNCHANGED status
        \/ /\ UNCHANGED status \/ \E s \in Stops : status' = [status EXCEPT ![s] = "done"]
           /\ \E s \in Stops : queued' = [queued EXCEPT ![s] = FALSE]
    BY DEF F!Next, field, F!OpenStop, F!Step, F!Mount, F!Rerender, F!Fetched, F!Back, F!Die, F!Reopen, F!Type,
           F!Recapture, F!SkipThisStop, F!CancelSkip, F!Press, F!submitRead, F!submitSkip, F!Save,
           F!Written, F!Saved, F!SaveFails, F!Sent
  <2> QED
    BY <2>1 DEF FieldShapes
<1>1. ASSUME NEW s \in Stops, NEW reread \in BOOLEAN, F!Mount(s, reread) PROVE Goal
  <2>1. draft[s] \in 0..MaxValue
    BY DEF FieldShapes
  <2>4. tab' \in F!Page /\ tab'.run = "asked"
    BY <1>0, <1>1, <2>1 DEF F!Mount, F!Page, F!Blank
  <2>2. saves' \subseteq Saves
    BY <1>1, Gone DEF F!Mount, F!Orphaned, FieldShapes
  <2>3. draft' \in [Stops -> 0..MaxValue] /\ typed' \in [Stops -> 0..MaxValue]
    BY <1>1, ScreensAssumption DEF F!Mount, FieldShapes
  <2> QED
    BY <1>15, <1>1, <2>2, <2>3, <2>4 DEF Drafts, FieldShapes, F!Mount
<1>2. CASE F!Rerender
  <2> DEFINE filled == [tab EXCEPT !.value = tab.read]
  <2>3. filled \in F!Page
    BY <1>0, <1>14 DEF F!Page
  <2>4. tab' = [filled EXCEPT !.read = 0]
    BY <1>2 DEF F!Rerender
  <2>5. 0 \in 0..MaxValue
    BY ScreensAssumption
  <2> HIDE DEF filled
  <2>1. tab' \in F!Page /\ tab'.read = 0
    BY <2>3, <2>4, <2>5 DEF F!Page
  <2>2. draft' \in [Stops -> 0..MaxValue]
    BY <1>2, <1>14 DEF F!Rerender, FieldShapes
  <2> QED
    BY <1>15, <1>2, <2>1, <2>2 DEF Drafts, FieldShapes, F!Rerender, F!Between
<1>3. CASE F!Type
  <2>1. tab' \in F!Page /\ ~F!Between'
    BY <1>0, <1>3 DEF F!Type, F!Page, F!FormShown, F!Ready, F!Between, FieldShapes
  <2>2. draft' \in [Stops -> 0..MaxValue] /\ typed' \in [Stops -> 0..MaxValue]
    BY <1>0, <1>3 DEF F!Type, F!Page, FieldShapes
  <2>3. saves' \subseteq Saves
    <3>1. saves' = {[w EXCEPT !.over = @ \/ w.stop = tab.stop] : w \in saves}
      BY <1>3 DEF F!Type
    <3>2. \A w \in Saves : [w EXCEPT !.over = @ \/ w.stop = tab.stop] \in Saves
      BY DEF Saves
    <3> QED
      BY <3>1, <3>2 DEF FieldShapes
  <2>4. wiped' \subseteq Stops
    BY <1>3 DEF F!Type, FieldShapes
  <2> QED
    BY <1>15, <1>3, <2>1, <2>2, <2>3, <2>4 DEF Drafts, FieldShapes
<1>4. ASSUME NEW at \in {"run", "closed"}, F!Leave(at)
      PROVE  tab' \in F!Page /\ Leaves
  BY <1>0, <1>4 DEF F!Leave, Leaves, F!Page
<1>5. CASE F!Saved
  <2> PICK v \in saves :
        /\ v.at = "written"
        /\ IF v.kind = "read"
           THEN /\ draft' = F!DraftRemoved(v.stop)
                /\ typed' = IF v.over THEN typed ELSE [typed EXCEPT ![v.stop] = 0]
                /\ wiped' = IF v.over THEN wiped \cup {v.stop} ELSE wiped \ {v.stop}
           ELSE UNCHANGED <<draft, typed, wiped>>
        /\ F!Leave("run")
        /\ saves' = {[w EXCEPT !.here = FALSE] : w \in saves \ {v}}
    BY <1>5 DEF F!Saved
  <2>1. v \in Saves /\ v.stop \in Stops /\ v.over \in BOOLEAN
    BY DEF FieldShapes, Saves
  <2>2. saves' \subseteq Saves
    BY Gone DEF FieldShapes
  <2>3. draft' \in [Stops -> 0..MaxValue] /\ typed' \in [Stops -> 0..MaxValue]
    BY <2>1, ScreensAssumption DEF FieldShapes, F!DraftRemoved
  <2>4. tab' \in F!Page /\ Leaves
    BY <1>4
  <2>8. wiped' \subseteq Stops
    BY <2>1 DEF FieldShapes
  <2>5. FieldShapes'
    BY <1>15, <2>2, <2>3, <2>4, <2>8 DEF FieldShapes, Leaves, F!Between
  <2>6. CASE v.kind = "read"
    <3>1. \/ typed' = [typed EXCEPT ![v.stop] = 0] /\ wiped' = wiped \ {v.stop}
          \/ typed' = typed /\ wiped' = wiped \cup {v.stop}
      BY <2>1, <2>6
    <3>2. draft' = F!DraftRemoved(v.stop)
      BY <2>6
    <3> QED
      BY <2>1, <2>4, <2>5, <3>1, <3>2 DEF Drafts
  <2>7. CASE v.kind # "read"
    BY <2>4, <2>5, <2>7 DEF Drafts
  <2> QED
    BY <2>6, <2>7
<1>6. CASE F!Back \/ F!Die
  <2>1. saves' \subseteq Saves /\ tab' \in F!Page /\ Leaves /\ UNCHANGED <<draft, typed, wiped>>
    BY <1>4, <1>6, Gone DEF F!Back, F!Die, F!Orphaned, FieldShapes
  <2> QED
    BY <1>15, <2>1 DEF Drafts, FieldShapes, Leaves, F!Between
<1>7. CASE F!Reopen
  <2>1. ~F!Between /\ tab' = F!Blank /\ UNCHANGED <<draft, typed, wiped, saves, cut>>
    BY <1>7 DEF F!Reopen, F!Between
  <2> QED
    BY <1>15, <1>0, <2>1, BlankPage DEF Drafts, Leaves, FieldShapes, F!Between
<1>8. ASSUME Stays, tab' \in F!Page, saves' \subseteq Saves,
             UNCHANGED <<draft, typed, wiped, cut>>
      PROVE  Goal
  BY <1>15, <1>8 DEF Drafts, FieldShapes, Stays, F!Between
<1>9. CASE F!Fetched
  <2> PICK answer \in {"shown", "error", "stuck"} :
        tab' = [tab EXCEPT !.run = answer,
                  !.stopStatus = IF answer = "shown" THEN status[tab.stop] ELSE @]
    BY <1>9 DEF F!Fetched
  <2>1. status[tab.stop] \in {"pending", "done"}
    BY <1>0 DEF FieldShapes, F!Page
  <2>2. Stays /\ tab' \in F!Page
    BY <1>0, <1>9, <2>1 DEF F!Fetched, Stays, F!Page
  <2> QED
    BY <1>8, <1>9, <2>2 DEF F!Fetched, FieldShapes
<1>13. CASE F!Recapture \/ F!SkipThisStop \/ F!CancelSkip
  <2>1. \/ tab' = [tab EXCEPT !["recapture"] = TRUE]
        \/ tab' = [tab EXCEPT !["skipping"] = TRUE]
        \/ tab' = [tab EXCEPT !["skipping"] = FALSE]
    BY <1>13 DEF F!Recapture, F!SkipThisStop, F!CancelSkip, F!Press
  <2>2. Stays /\ tab' \in F!Page
    BY <1>0, <2>1 DEF Stays, F!Page
  <2>3. UNCHANGED <<draft, saves, typed, wiped, cut>>
    BY <1>13 DEF F!Recapture, F!SkipThisStop, F!CancelSkip, F!Press
  <2> QED
    BY <1>8, <2>2, <2>3 DEF FieldShapes
<1>10. ASSUME NEW kind \in {"read", "skip"}, F!Save(kind) PROVE Goal
  <2>1. Stays /\ tab' \in F!Page
    BY <1>0, <1>10 DEF F!Save, Stays, F!Page
  <2>3. [stop |-> tab.stop, kind |-> kind, at |-> "writing", here |-> TRUE,
        over |-> FALSE] \in Saves
    BY <1>10, <1>14 DEF Saves
  <2>2. saves' \subseteq Saves
    BY <1>10, <2>3 DEF F!Save, FieldShapes
  <2> QED
    BY <1>8, <1>10, <2>1, <2>2 DEF F!Save
<1>11. CASE F!Written \/ F!SaveFails
  <2>1. Stays /\ tab' \in F!Page
    BY <1>0, <1>11 DEF F!Written, F!SaveFails, Stays, F!Page
  <2>2. \A v \in saves : v \in Saves /\ [v EXCEPT !.at = "written"] \in Saves
    BY DEF FieldShapes, Saves
  <2>3. saves' \subseteq Saves
    <3>1. \A v \in saves : saves \ {v} \subseteq Saves
      BY <2>2
    <3>2. CASE F!Written
      BY <2>2, <3>1, <3>2 DEF F!Written
    <3>3. CASE F!SaveFails
      BY <3>1, <3>3 DEF F!SaveFails
    <3> QED
      BY <1>11, <3>2, <3>3
  <2> QED
    BY <1>8, <1>11, <2>1, <2>3 DEF F!Written, F!SaveFails
<1>12. CASE F!Sent \/ UNCHANGED field
  BY <1>8, <1>12, <1>0 DEF F!Sent, field, Stays, FieldShapes
<1> QED
  BY <1>1, <1>2, <1>3, <1>5, <1>6, <1>7, <1>9, <1>10, <1>11, <1>12, <1>13
     DEF F!Next, F!OpenStop, F!Step, F!submitRead, F!submitSkip

\* Each of these ways keeps the draft of every stop what was typed there.
LEMMA DraftsKept ==
  ASSUME FieldShapes, FieldShapes', Drafts, F!DraftIsWhatWasTyped
  PROVE  F!DraftIsWhatWasTyped'
<1> SUFFICES ASSUME ~cut', NEW s \in Stops, s \notin wiped'
             PROVE  typed'[s] = IF F!Between' /\ tab'.stop = s THEN tab'.read ELSE draft'[s]
  BY DEF F!DraftIsWhatWasTyped, F!Drafted
<1>0. ~cut /\ s \notin wiped =>
        typed[s] = IF F!Between /\ tab.stop = s THEN tab.read ELSE draft[s]
  BY DEF F!DraftIsWhatWasTyped, F!Drafted
<1>1. CASE \E t \in Stops, reread \in BOOLEAN : F!Mount(t, reread)
  <2> PICK t \in Stops, reread \in BOOLEAN : F!Mount(t, reread)
    BY <1>1
  <2>1. ~cut /\ ~F!Between /\ s \notin wiped
    BY DEF F!Mount
  <2>2. typed[s] = draft[s]
    BY <1>0, <2>1
  <2>3. tab'.at = "stop" /\ tab'.stop = t /\ tab'.read = draft[t]
    BY DEF F!Mount, F!Blank
  <2>4. typed'[s] = draft[s] /\ draft'[s] = IF s = t THEN 0 ELSE draft[s]
    BY <2>2 DEF F!Mount, FieldShapes
  <2> QED
    BY <2>3, <2>4 DEF F!Between
<1>2. CASE F!Rerender
  <2>1. tab \in F!Page /\ tab'.at = "stop" /\ tab'.stop = tab.stop /\ tab'.read = 0
    BY <1>2 DEF F!Rerender, FieldShapes, F!Page, F!Between
  <2>2. typed[s] = IF tab.stop = s THEN tab.read ELSE draft[s]
    BY <1>0, <1>2 DEF F!Rerender, F!Between
  <2>3. typed'[s] = typed[s] /\ draft'[s] = IF s = tab.stop THEN tab.read ELSE draft[s]
    BY <1>2, <2>1 DEF F!Rerender, FieldShapes
  <2> QED
    BY <2>1, <2>2, <2>3 DEF F!Between
<1>3. CASE F!Type
  <2> PICK v \in 0..MaxValue \ {tab.value} :
        /\ tab' = [tab EXCEPT !.value = v]
        /\ draft' = [draft EXCEPT ![tab.stop] = v]
        /\ typed' = [typed EXCEPT ![tab.stop] = v]
    BY <1>3 DEF F!Type
  <2>1. tab \in F!Page /\ tab'.at = tab.at /\ tab'.stop = tab.stop /\ tab'.read = tab.read /\ cut' = cut
    BY <1>3 DEF F!Type, FieldShapes, F!Page
  <2>2. ~F!Between
    BY <1>3 DEF F!Type, F!FormShown, F!Ready, FieldShapes
  <2>3. ~F!Between' /\ wiped' = wiped \ {tab.stop}
    BY <1>3, <2>1, <2>2 DEF F!Type, F!Between
  <2>4. DOMAIN draft = Stops /\ DOMAIN typed = Stops
    BY DEF FieldShapes
  <2>5. CASE s = tab.stop
    BY <2>3, <2>4, <2>5
  <2>6. CASE s # tab.stop
    <3>1. typed[s] = draft[s]
      BY <1>0, <2>1, <2>2, <2>3, <2>6
    <3>2. typed'[s] = typed[s] /\ draft'[s] = draft[s]
      BY <2>4, <2>6
    <3> QED
      BY <2>3, <3>1, <3>2
  <2> QED
    BY <2>5, <2>6
<1>4. ASSUME NEW t \in Stops, Leaves, draft' = F!DraftRemoved(t),
             \/ typed' = [typed EXCEPT ![t] = 0] /\ wiped' = wiped \ {t}
             \/ UNCHANGED typed /\ wiped' = wiped \cup {t}
      PROVE  typed'[s] = draft'[s] /\ ~F!Between'
  <2>1. ~F!Between' /\ ~F!Between /\ ~cut
    BY <1>4 DEF Leaves, F!Between
  <2>2. draft'[s] = IF s = t THEN 0 ELSE draft[s]
    BY <1>4 DEF F!DraftRemoved, FieldShapes
  <2>3. CASE s = t
    <3>1. typed' = [typed EXCEPT ![t] = 0]
      BY <1>4, <2>3
    <3> QED
      BY <2>1, <2>2, <2>3, <3>1 DEF FieldShapes
  <2>4. CASE s # t
    <3>1. s \notin wiped /\ typed'[s] = typed[s]
      BY <1>4, <2>4 DEF FieldShapes
    <3> QED
      BY <1>0, <2>1, <2>2, <2>4, <3>1
  <2> QED
    BY <2>3, <2>4
<1>5. CASE Leaves /\ UNCHANGED <<draft, typed, wiped>>
  BY <1>0, <1>5 DEF Leaves, F!Between
<1>6. CASE Stays /\ UNCHANGED <<draft, typed, wiped, cut>>
  BY <1>0, <1>6 DEF Stays, F!Between
<1> QED
  BY <1>1, <1>2, <1>3, <1>4, <1>5, <1>6 DEF Drafts

\* The pages of the reader, their drafts and saves are of their types.
LEMMA FieldInit ==
  ASSUME F!Init
  PROVE  FieldShapes /\ F!DraftIsWhatWasTyped
<1>1. 0 \in 0..MaxValue
  BY ScreensAssumption
<1>2. ~F!Between
  BY BlankPage DEF F!Init, F!Between
<1> QED
  BY <1>1, <1>2, BlankPage DEF F!Init, FieldShapes, F!DraftIsWhatWasTyped, F!Drafted

-----------------------------------------------------------------------------
(* Consoles.                                                               *)

\* The requests that change something, that a button waits for, and whose answers
\* are put on the screen although nothing was done.
Changes == {"reassign", "split", "action", "assign", "generate", "mutate", "create"}
Waited == {"reassign", "split", "action", "assign", "generate", "mutate", "reload"}
Loads == {"load", "reload", "listed"}

\* The requests each page makes.
Makes ==
  [p \in {"none"} \cup C!Fixed \cup C!Lists \cup {"exports", "assign"} |->
     CASE p = "none" -> {}
       [] p = "run" -> {"load", "reassign", "split"}
       [] p = "exception" -> {"load", "action"}
       [] p = "staff" -> {"load", "mutate", "reload", "create", "listed"}
       [] p \in C!Lists -> {"load"}
       [] p = "exports" -> {"load", "cycles", "generate", "reload"}
       [] p = "assign" -> {"load", "assign"}]

Calls ==
  [kind : Changes \cup Loads \cup {"cycles"}, key : C!Keys, n : Nat \ {0},
   at : {"asked", "answered", "refused"}, ver : Nat, open : BOOLEAN]

\* The variables of a console.  Requests are numbered apart, those of one subject
\* on a page with one, and a button waits for one request at a time.
ConsoleShapes ==
  /\ page \in DOMAIN Makes
  /\ subjects \in [C!Keys -> [ver : Nat, open : BOOLEAN]]
  /\ key \in C!Keys /\ picked \in Clients \cup {"none"}
  /\ {busy, adding, loadError, strayed} \subseteq BOOLEAN
  /\ issued \in Nat /\ newest \in 0..issued /\ own \in Nat
  /\ clicks \in 0..MaxClicks /\ changes \in 0..MaxChanges
  /\ shown = C!Nothing \/ shown \in [key : C!Keys, ver : Nat, open : BOOLEAN, n : 1..newest]
  /\ calls \subseteq Calls /\ IsFiniteSet(calls)

Numbered == \A c, d \in calls : c.n <= issued /\ (c.n = d.n => c = d)

OnePage ==
  /\ \A c \in calls : c.kind \in Makes[page]
  /\ page \in C!Fixed \cup {"none"} => key = Home /\ \A c \in calls : c.key = Home
  /\ page = "none" => issued = 0 /\ newest = 0 /\ own = 0 /\ shown = C!Nothing

OneWait == \A c \in calls : c.kind \in Waited => busy /\ \A d \in calls : d.kind \in Waited => d = c

\* Every change of a subject was a click that is no longer pending, or somebody
\* else's.
Pending == {c \in calls : c.at = "asked" /\ c.kind \in Changes}
Counted == \A k \in C!Keys : subjects[k].ver + Cardinality(Pending) <= clicks + changes

\* Everything asked since m is of the selection, and so is what is shown of it; the
\* request m itself has come to an end or will.  Without a cycle nothing is asked for.
Since(m) == newest >= m \/ \E c \in calls : c.n = m /\ c.kind \in Loads
Selected ==
  page # "none" /\ ~strayed =>
    /\ \A c \in calls : c.kind = "generate" => c.key = key
    /\ key.cycle # NoCycle =>
         \E m \in 1..issued :
           /\ \A c \in calls : c.n >= m => c.key = key
           /\ C!IsShown /\ shown.n >= m => shown.key = key
           /\ Since(m)

\* Answers are of versions that were there.
Answers == \A c \in calls : c.at # "asked" => c.ver <= subjects[c.key].ver

\* The person's last change is in an answer on its way, or everything asked since
\* m is answered with it.
Caught ==
  page \in {"run", "staff"} =>
    /\ own <= subjects[Home].ver
    /\ \A c \in calls : c.kind \in {"reassign", "split"} => c.n = issued
    /\ \/ own = 0
       \/ \E c \in calls : c.kind \in {"reassign", "split", "mutate"} /\ c.at = "answered" /\ c.ver >= own
       \/ \E m \in 1..issued :
            /\ \A c \in calls : c.n >= m /\ c.at # "asked" => c.ver >= own
            /\ C!IsShown /\ shown.n >= m => shown.ver >= own
            /\ Since(m)

Tidy == ConsoleShapes /\ Numbered /\ OnePage /\ OneWait /\ Counted /\ Answers
ConsoleInv == Tidy /\ Selected /\ Caught

\* A request is made, in the place of those that are gone.
Asks(gone, kind, k) ==
  /\ calls' = (calls \ gone) \cup {C!Ask(kind, k, issued + 1)}
  /\ issued' = issued + 1

\* The request c has come to an end, with an answer only if it was answered.
Comes(c, end) ==
  /\ c \in calls /\ C!End(c, end)
  /\ end \in {"answered", "refused", "failed"} /\ (end = "answered" => c.at = "answered")

\* Requests end when they are answered or fail.
LEMMA SomeoneComes ==
  ASSUME ConsoleShapes, C!Arrive \/ C!Fail
  PROVE  \E c \in calls, end \in {"answered", "refused", "failed"} : Comes(c, end)
<1>1. ASSUME NEW c \in calls, c.at # "asked", C!End(c, c.at)
      PROVE  Comes(c, c.at) /\ c.at \in {"answered", "refused", "failed"}
  <2>1. c.at \in {"asked", "answered", "refused"}
    BY DEF ConsoleShapes, Calls
  <2> QED
    BY <1>1, <2>1 DEF Comes
<1>2. ASSUME NEW c \in calls, C!End(c, "failed")
      PROVE  Comes(c, "failed")
  BY <1>2 DEF Comes
<1> QED
  BY <1>1, <1>2 DEF C!Arrive, C!Fail

\* What is shown is of its type, nothing included.
LEMMA ShownTyped ==
  ASSUME ConsoleShapes
  PROVE  /\ shown.ver \in Int
         /\ C!IsShown => shown.n \in 1..newest /\ shown.ver \in Nat
         /\ Home \in C!Keys
BY ScreensAssumption DEF ConsoleShapes, C!Nothing, C!IsShown, C!Keys

\* A request is a request.
LEMMA AskTyped ==
  ASSUME ConsoleShapes, NEW kind \in Changes \cup Loads \cup {"cycles"}, NEW k \in C!Keys,
         NEW n \in Nat \ {0}
  PROVE  /\ C!Ask(kind, k, n) \in Calls
         /\ C!Ask(kind, k, n).n = n /\ C!Ask(kind, k, n).key = k
         /\ C!Ask(kind, k, n).kind = kind /\ C!Ask(kind, k, n).at = "asked"
BY DEF Calls, C!Ask

\* After a request there is one more, with a number of its own.
LEMMA AskedApart ==
  ASSUME ConsoleShapes, Numbered, NEW gone \in SUBSET calls,
         NEW kind \in Changes \cup Loads \cup {"cycles"}, NEW k \in C!Keys, Asks(gone, kind, k)
  PROVE  /\ issued' \in Nat /\ calls' \subseteq Calls /\ IsFiniteSet(calls') /\ Numbered'
         /\ C!Ask(kind, k, issued + 1) \in calls'
<1>1. issued \in Nat /\ issued + 1 \in Nat \ {0}
  BY DEF ConsoleShapes
<1>2. C!Ask(kind, k, issued + 1) \in Calls /\ C!Ask(kind, k, issued + 1).n = issued + 1
  BY <1>1, AskTyped
<1>3. \A c \in calls : c.n \in Nat
  BY DEF ConsoleShapes, Calls
<1>4. IsFiniteSet(calls \ gone) 
  BY FS_Difference DEF ConsoleShapes
<1>5. IsFiniteSet((calls \ gone) \cup {C!Ask(kind, k, issued + 1)})
  BY <1>4, FS_AddElement
<1> HIDE DEF C!Ask
<1>6. Numbered'
  BY <1>1, <1>2, <1>3 DEF Numbered, Asks
<1> QED
  BY <1>1, <1>2, <1>5, <1>6 DEF Asks, ConsoleShapes

\* The clicks of the person and the changes of others.
Made == clicks + changes

\* The number of pending changes, as calls come and go.
LEMMA PendingFinite ==
  ASSUME ConsoleShapes
  PROVE  /\ IsFiniteSet(Pending) /\ Cardinality(Pending) \in Nat
         /\ \A c \in Pending : Cardinality(Pending \ {c}) = Cardinality(Pending) - 1
<1>1. IsFiniteSet(Pending) /\ Cardinality(Pending) \in Nat
  BY FS_Subset, FS_CardinalityType DEF ConsoleShapes, Pending
<1> QED
  BY <1>1, FS_RemoveElement

\* A step that makes no change, and asks for none, keeps the count.
LEMMA FewerPending ==
  ASSUME ConsoleShapes, Counted, Pending' \subseteq Pending, Made' >= Made, Made' \in Nat,
         UNCHANGED subjects
  PROVE  Counted'
<1>1. Cardinality(Pending') <= Cardinality(Pending) /\ Cardinality(Pending') \in Nat
  BY PendingFinite, FS_Subset, FS_CardinalityType
<1>2. \A k \in C!Keys : subjects[k].ver \in Nat
  BY DEF ConsoleShapes
<1>3. Made \in Nat
  BY ScreensAssumption DEF ConsoleShapes, Made
<1> QED
  BY <1>1, <1>2, <1>3, PendingFinite DEF Counted, Made

\* A click adds one pending change and one to what was made.
LEMMA OneMorePending ==
  ASSUME ConsoleShapes, Counted, NEW c, Pending' \subseteq Pending \cup {c}, Made' = Made + 1,
         UNCHANGED subjects
  PROVE  Counted'
<1>1. IsFiniteSet(Pending \cup {c}) /\ Cardinality(Pending \cup {c}) <= Cardinality(Pending) + 1
  <2>1. CASE c \in Pending
    <3>1. Pending \cup {c} = Pending
      BY <2>1
    <3> QED
      BY <3>1, PendingFinite
  <2>2. CASE c \notin Pending
    BY <2>2, PendingFinite, FS_AddElement
  <2> QED
    BY <2>1, <2>2
<1>2. Cardinality(Pending') <= Cardinality(Pending \cup {c}) /\ Cardinality(Pending') \in Nat
  BY <1>1, FS_Subset, FS_CardinalityType
<1>3. Cardinality(Pending \cup {c}) \in Nat
  BY <1>1, FS_CardinalityType
<1>4. \A k \in C!Keys : subjects[k].ver \in Nat
  BY DEF ConsoleShapes
<1>5. Made \in Nat
  BY ScreensAssumption DEF ConsoleShapes, Made
<1> QED
  BY <1>1, <1>2, <1>3, <1>4, <1>5, PendingFinite DEF Counted, Made

\* What is in flight after a request is what was, and the request.
LEMMA AskedCalls ==
  ASSUME ConsoleShapes, NEW gone \in SUBSET calls,
         NEW kind \in Changes \cup Loads \cup {"cycles"}, NEW k \in C!Keys, Asks(gone, kind, k)
  PROVE  \A c \in calls' :
           \/ c \in calls /\ c \notin gone /\ c.n \in Nat
           \/ c.n = issued + 1 /\ c.key = k /\ c.kind = kind /\ c.at = "asked"
<1>1. issued + 1 \in Nat \ {0}
  BY DEF ConsoleShapes
<1>2. \A c \in calls : c.n \in Nat
  BY DEF ConsoleShapes, Calls
<1> QED
  BY <1>1, <1>2, AskTyped DEF Asks

\* The actions that ask for another selection: a click, or the cycles of a client
\* that have come.
Reselects(gone) ==
  /\ page \in C!Lists \cup {"exports", "assign"}
  /\ \A c \in gone : c.kind = "cycles" /\ page = "exports"
  /\ key' \in C!Keys /\ shown' \in {shown, C!Nothing}
  /\ Asks(gone, "load", key')
  /\ Made' >= Made /\ clicks' \in 0..MaxClicks /\ picked' \in Clients \cup {"none"}
  /\ strayed' = (strayed \/ (page = "exports" /\ busy)) /\ loadError' \in BOOLEAN
  /\ UNCHANGED <<page, subjects, busy, adding, newest, own, changes>>

\* The clicks that send an action.
Sends(kind) ==
  /\ kind \in Makes[page] \cap Changes
  /\ kind \in Waited => ~busy
  /\ C!IsShown
  /\ Asks({}, kind, key)
  /\ kind \in Waited => busy' = TRUE
  /\ kind \notin Waited => busy' = busy
  /\ Made' = Made + 1 /\ clicks' \in 0..MaxClicks
  /\ adding' \in BOOLEAN /\ loadError' \in BOOLEAN
  /\ UNCHANGED <<page, subjects, key, shown, picked, newest, strayed, own, changes>>

\* Which actions reselect, and which send.
LEMMA Clicks ==
  ASSUME ConsoleShapes
  PROVE  /\ C!FilterRuns \/ C!FilterQueue \/ C!RoutesOf \/ C!ChangeCycle => Reselects({})
         /\ C!doReassign => Sends("reassign")
         /\ C!doSplit => Sends("split")
         /\ C!doAction => Sends("action")
         /\ C!submitAssign => Sends("assign")
         /\ C!onGenerate => Sends("generate")
         /\ C!mutate => Sends("mutate")
         /\ C!submitStaff => Sends("create")
<1>1. /\ clicks \in Nat /\ changes \in Nat
      /\ C!Click => clicks' \in 0..MaxClicks
      /\ C!Click /\ UNCHANGED changes => Made' = Made + 1 /\ Made' >= Made
  BY ScreensAssumption DEF ConsoleShapes, C!Click, Made
<1>11. calls \ {} = calls /\ TRUE \in BOOLEAN /\ FALSE \in BOOLEAN
  OBVIOUS
<1>2. ASSUME C!Filter, page \in C!Lists, loadError' \in BOOLEAN PROVE Reselects({})
  <2> PICK c \in Clients \ {key.client} : C!Select([key EXCEPT !.client = c])
    BY <1>2 DEF C!Filter
  <2>1. [key EXCEPT !.client = c] \in C!Keys
    BY DEF ConsoleShapes, C!Keys
  <2> QED
    BY <1>1, <1>2, <2>1 DEF C!Filter, C!Select, Reselects, Asks, Made, C!Click, ConsoleShapes, C!Lists
<1>3. ASSUME C!RoutesOf PROVE Reselects({})
  <2> PICK c \in Clients \ {key.client} :
        LET k == [key EXCEPT !.client = c]
        IN  /\ key' = k
            /\ calls' = calls \cup {C!Ask("load", k, issued + 1)} /\ issued' = issued + 1
    BY <1>3 DEF C!RoutesOf
  <2>1. [key EXCEPT !.client = c] \in C!Keys
    BY DEF ConsoleShapes, C!Keys
  <2> QED
    BY <1>1, <1>3, <2>1 DEF C!RoutesOf, Reselects, Asks, Made, C!Click, ConsoleShapes
<1>4. ASSUME C!ChangeCycle PROVE Reselects({})
  <2> PICK c \in Cycles \ {key.cycle} : C!Select([key EXCEPT !.cycle = c])
    BY <1>4 DEF C!ChangeCycle
  <2>1. [key EXCEPT !.cycle = c] \in C!Keys
    BY DEF ConsoleShapes, C!Keys
  <2> QED
    BY <1>1, <1>4, <2>1 DEF C!ChangeCycle, C!Select, Reselects, Asks, Made, C!Click, ConsoleShapes
<1>5. ASSUME C!FilterRuns \/ C!FilterQueue PROVE Reselects({})
  BY <1>2, <1>5 DEF C!FilterRuns, C!FilterQueue, C!Lists, ConsoleShapes
<1>6. ASSUME NEW kind \in Changes \cap Waited, C!Send(kind), kind \in Makes[page], loadError' \in BOOLEAN
      PROVE  Sends(kind)
  BY <1>1, <1>6, <1>11, Zenon DEF C!Send, Sends, Asks, ConsoleShapes
<1>7. page \in DOMAIN Makes /\ loadError \in BOOLEAN
  BY DEF ConsoleShapes
<1>8. /\ page = "run" => {"reassign", "split"} \subseteq Makes[page]
      /\ page = "exception" => "action" \in Makes[page]
      /\ page = "assign" => "assign" \in Makes[page]
      /\ page = "exports" => "generate" \in Makes[page]
      /\ page = "staff" => {"mutate", "create"} \subseteq Makes[page]
  BY <1>7 DEF Makes, C!Fixed, C!Lists
<1>9. /\ C!doReassign => Sends("reassign")
      /\ C!doSplit => Sends("split")
      /\ C!doAction => Sends("action")
      /\ C!submitAssign => Sends("assign")
      /\ C!onGenerate => Sends("generate")
      /\ C!mutate => Sends("mutate")
  BY <1>6, <1>7, <1>8 DEF Changes, Waited, C!doReassign, C!doSplit, C!doAction, C!submitAssign, C!onGenerate,
     C!mutate
<1>10. ASSUME C!submitStaff PROVE Sends("create")
  <2>1. "create" \in Makes[page] \cap Changes /\ "create" \notin Waited
    BY <1>8, <1>10 DEF C!submitStaff, Changes, Waited
  <2> QED
    BY <1>1, <1>10, <1>11, <2>1, Zenon DEF C!submitStaff, Sends, Asks, ConsoleShapes
<1> QED
  BY <1>3, <1>4, <1>5, <1>9, <1>10

\* Every page may load, and the pages that may only stay as they are are told from
\* those that select.
LEMMA PageKinds ==
  ASSUME NEW p \in DOMAIN Makes
  PROVE  /\ p # "none" => "load" \in Makes[p]
         /\ p = "none" => Makes[p] = {}
         /\ p \in C!Fixed => p \notin C!Lists \cup {"exports", "assign", "none"}
         /\ "cycles" \in Makes[p] => p = "exports"
         /\ "assign" \in Makes[p] => p = "assign"
         /\ "reload" \in Makes[p] \/ "generate" \in Makes[p] \/ "mutate" \in Makes[p] => "reload" \in Makes[p]
         /\ "create" \in Makes[p] => p = "staff" /\ "listed" \in Makes[p]
         /\ "generate" \in Makes[p] => p = "exports"
         /\ "mutate" \in Makes[p] => p = "staff"
         /\ "reassign" \in Makes[p] \/ "split" \in Makes[p] => p = "run"
         /\ "action" \in Makes[p] => p = "exception"
         /\ p = "run" => Makes[p] \subseteq {"load", "reassign", "split"}
         /\ p = "staff" => Makes[p] \subseteq {"load", "mutate", "reload", "create", "listed"}
BY DEF Makes, C!Fixed, C!Lists

\* After a request nothing waits that did not, unless it is waited for.
LEMMA AskedTidy ==
  ASSUME Tidy, NEW gone \in SUBSET calls, NEW kind \in Makes[page], NEW k \in C!Keys,
         kind \in Changes \cup Loads \cup {"cycles"}, Asks(gone, kind, k),
         page \in C!Fixed \cup {"none"} => k = Home, key' \in C!Keys,
         page \in C!Fixed \cup {"none"} => key' = key, UNCHANGED <<page, subjects>>
  PROVE  /\ calls' \subseteq Calls /\ IsFiniteSet(calls') /\ issued' \in Nat /\ Numbered'
         /\ OnePage' /\ Answers'
<1>1. calls' \subseteq Calls /\ IsFiniteSet(calls') /\ issued' \in Nat /\ Numbered'
  BY AskedApart DEF Tidy
<1>2. \A c \in calls' :
        \/ c \in calls /\ c \notin gone /\ c.n \in Nat
        \/ c.n = issued + 1 /\ c.key = k /\ c.kind = kind /\ c.at = "asked"
  BY AskedCalls DEF Tidy
<1>3. OnePage'
  <2>1. page # "none"
    BY PageKinds DEF Tidy, ConsoleShapes
  <2> QED
    BY <1>2, <2>1 DEF OnePage, Tidy
<1>4. Answers'
  BY <1>2 DEF Answers, Tidy
<1> QED
  BY <1>1, <1>3, <1>4

\* A selection leaves the console tidy.
LEMMA ReselectsTidy ==
  ASSUME Tidy, NEW gone \in SUBSET calls, Reselects(gone)
  PROVE  Tidy'
<1>1. page \in DOMAIN Makes /\ "load" \in Makes[page] /\ "load" \in Loads /\ "load" \notin Waited
  BY PageKinds DEF Tidy, ConsoleShapes, Reselects, Loads, Waited, C!Lists
<1>2. page \notin C!Fixed \cup {"none"}
  BY DEF Reselects, C!Fixed, C!Lists
<1>3. /\ calls' \subseteq Calls /\ IsFiniteSet(calls') /\ issued' \in Nat /\ Numbered'
      /\ OnePage' /\ Answers'
  BY <1>1, <1>2, AskedTidy DEF Reselects
<1>4. \A c \in calls' :
        \/ c \in calls /\ c \notin gone /\ c.n \in Nat
        \/ c.n = issued + 1 /\ c.key = key' /\ c.kind = "load" /\ c.at = "asked"
  BY <1>1, AskedCalls DEF Reselects, Tidy
<1>5. OneWait'
  BY <1>1, <1>4 DEF OneWait, Tidy, Reselects
<1>6. Counted'
  <2>1. Pending' \subseteq Pending
    BY <1>4 DEF Pending, Changes
  <2>2. Made' >= Made /\ Made' \in Nat
    <3>1. clicks' \in 0..MaxClicks /\ changes' = changes /\ Made' >= Made
      BY DEF Reselects
    <3>2. changes \in 0..MaxChanges
      BY DEF Tidy, ConsoleShapes
    <3>3. clicks' \in Nat /\ changes' \in Nat
      BY <3>1, <3>2, ScreensAssumption
    <3>5. Made' \in Nat
      BY <3>3, Sums, Zenon DEF Made
    <3> QED
      BY <3>1, <3>5
  <2> QED
    BY <2>1, <2>2, FewerPending DEF Tidy, Reselects
<1>7. ConsoleShapes'
  <2>1. newest' \in 0..issued'
    BY DEF Tidy, ConsoleShapes, Reselects, Asks
  <2>2. shown' = C!Nothing \/ shown' \in [key : C!Keys, ver : Nat, open : BOOLEAN, n : 1..newest']
    BY DEF Tidy, ConsoleShapes, Reselects
  <2>3. {busy', adding', loadError', strayed'} \subseteq BOOLEAN
    BY DEF Tidy, ConsoleShapes, Reselects
  <2> QED
    BY <1>3, <2>1, <2>2, <2>3 DEF Tidy, ConsoleShapes, Reselects, C!Nothing
<1> QED
  BY <1>3, <1>5, <1>6, <1>7 DEF Tidy

\* An action sent leaves the console tidy.
LEMMA SendsTidy ==
  ASSUME Tidy, NEW kind, Sends(kind)
  PROVE  Tidy'
<1>1. page \in DOMAIN Makes /\ kind \in Makes[page] /\ kind \in Changes
  BY DEF Tidy, ConsoleShapes, Sends
<1>2. key \in C!Keys /\ (page \in C!Fixed \cup {"none"} => key = Home)
  BY DEF Tidy, ConsoleShapes, OnePage
<1>3. /\ calls' \subseteq Calls /\ IsFiniteSet(calls') /\ issued' \in Nat /\ Numbered'
      /\ OnePage' /\ Answers'
  BY <1>1, <1>2, AskedTidy DEF Sends
<1>4. \A c \in calls' :
        \/ c \in calls /\ c.n \in Nat
        \/ c.n = issued + 1 /\ c.key = key /\ c.kind = kind /\ c.at = "asked"
  BY <1>1, <1>2, AskedCalls DEF Sends, Tidy
<1>5. OneWait'
  <2>1. CASE kind \in Waited
    <3>1. \A c \in calls : c.kind \notin Waited
      BY <2>1 DEF OneWait, Tidy, Sends
    <3>2. \A c, d \in calls' : c.n = d.n => c = d
      BY <1>3 DEF Numbered
    <3> QED
      BY <1>4, <2>1, <3>1, <3>2 DEF OneWait, Sends
  <2>2. CASE kind \notin Waited
    BY <1>4, <2>2 DEF OneWait, Tidy, Sends
  <2> QED
    BY <2>1, <2>2
<1>6. Counted'
  <2>1. Pending' \subseteq Pending \cup {C!Ask(kind, key, issued + 1)}
    BY DEF Pending, Sends, Asks
  <2> QED
    BY <2>1, OneMorePending DEF Tidy, Sends
<1>7. ConsoleShapes'
  <2>1. newest' \in 0..issued'
    BY DEF Tidy, ConsoleShapes, Sends, Asks
  <2>3. {busy', adding', loadError', strayed'} \subseteq BOOLEAN
    BY DEF Tidy, ConsoleShapes, Sends
  <2> QED
    BY <1>3, <2>1, <2>3 DEF Tidy, ConsoleShapes, Sends, C!Nothing
<1> QED
  BY <1>3, <1>5, <1>6, <1>7 DEF Tidy

\* A page that is opened is tidy.
LEMMA EnterTidy ==
  ASSUME Tidy, C!Enter
  PROVE  Tidy'
<1>1. page = "none" /\ calls = {} /\ key = Home /\ Home \in C!Keys
  BY PageKinds, ShownTyped DEF Tidy, ConsoleShapes, OnePage, C!Enter
<1>2. page' \in DOMAIN Makes /\ page' # "none" /\ "load" \in Makes[page']
  <2>1. page' \in DOMAIN Makes /\ page' # "none"
    BY DEF C!Enter, Makes, C!Fixed, C!Lists
  <2> QED
    BY <2>1, PageKinds
<1>3. C!Ask("load", Home, 1) \in Calls /\ C!Ask("load", Home, 1).n = 1
      /\ C!Ask("load", Home, 1).key = Home /\ C!Ask("load", Home, 1).kind = "load"
      /\ C!Ask("load", Home, 1).at = "asked"
  BY <1>1, AskTyped DEF Tidy, Loads
<1>4. calls' = {C!Ask("load", Home, 1)} /\ issued' = 1 /\ IsFiniteSet(calls')
  BY FS_Singleton DEF C!Enter
<1> HIDE DEF C!Ask
<1>5. Numbered' /\ OnePage' /\ OneWait' /\ Answers'
  BY <1>1, <1>2, <1>3, <1>4 DEF Numbered, OnePage, OneWait, Answers, Waited, C!Enter
<1>6. Counted'
  <2>1. Pending' \subseteq Pending
    BY <1>3, <1>4 DEF Pending, Changes
  <2>2. Made' >= Made /\ Made' \in Nat
    BY ScreensAssumption DEF C!Enter, Made, Tidy, ConsoleShapes
  <2> QED
    BY <2>1, <2>2, FewerPending DEF Tidy, C!Enter
<1>7. ConsoleShapes'
  <2>1. newest' \in 0..issued'
    BY <1>1, <1>4 DEF OnePage, Tidy, C!Enter
  <2>2. {busy', adding', loadError', strayed'} \subseteq BOOLEAN
    BY DEF Tidy, ConsoleShapes, C!Enter
  <2>3. calls' \subseteq Calls /\ issued' \in Nat
    BY <1>3, <1>4
  <2>4. shown' = C!Nothing
    BY <1>1 DEF OnePage, Tidy, C!Enter
  <2> QED
    BY <1>2, <1>4, <2>1, <2>2, <2>3, <2>4 DEF Tidy, ConsoleShapes, C!Enter, C!Nothing
<1> QED
  BY <1>5, <1>6, <1>7 DEF Tidy

\* A client that is selected while no cycle is has its cycles asked for.
LEMMA ClientAlone ==
  ASSUME Tidy, C!ChangeClient, key.cycle = NoCycle
  PROVE  Tidy' /\ key'.cycle = NoCycle /\ strayed' = (strayed \/ busy)
<1> PICK b \in Clients \ {key.client} :
      LET k == [key EXCEPT !.client = b]
      IN  /\ key' = k /\ shown' = C!Nothing
          /\ IF k.cycle = NoCycle
             THEN /\ calls' = calls \cup {C!Ask("cycles", k, issued + 1)}
                  /\ issued' = issued + 1
             ELSE /\ calls' = calls \cup {C!Ask("cycles", k, issued + 1), C!Ask("load", k, issued + 2)}
                  /\ issued' = issued + 2
  BY DEF C!ChangeClient
<1>1. key' \in C!Keys /\ key'.cycle = NoCycle
  BY DEF Tidy, ConsoleShapes, C!Keys
<1>2. shown' = C!Nothing /\ Asks({}, "cycles", key')
  BY <1>1 DEF Asks
<1>3. /\ page = "exports" /\ page \notin C!Fixed \cup {"none"} /\ "cycles" \in Makes[page]
      /\ "cycles" \in Changes \cup Loads \cup {"cycles"} /\ "cycles" \notin Waited
  BY DEF C!ChangeClient, Makes, C!Fixed, C!Lists, Waited
<1>4. UNCHANGED <<page, subjects, busy, newest, own, changes, adding, picked, loadError>>
  BY DEF C!ChangeClient
<1>5. /\ calls' \subseteq Calls /\ IsFiniteSet(calls') /\ issued' \in Nat /\ Numbered'
      /\ OnePage' /\ Answers'
  BY <1>1, <1>2, <1>3, <1>4, AskedTidy
<1>6. \A d \in calls' :
        \/ d \in calls /\ d \notin {} /\ d.n \in Nat
        \/ d.n = issued + 1 /\ d.key = key' /\ d.kind = "cycles" /\ d.at = "asked"
  BY <1>1, <1>2, <1>3, AskedCalls DEF Tidy
<1>7. OneWait'
  BY <1>3, <1>4, <1>6 DEF OneWait, Tidy
<1>8. Counted'
  <2>1. Pending' \subseteq Pending
    BY <1>6 DEF Pending, Changes
  <2>2. clicks \in 0..MaxClicks /\ changes \in 0..MaxChanges /\ clicks' = clicks + 1 /\ changes' = changes
    BY DEF C!ChangeClient, C!Click, Tidy, ConsoleShapes
  <2>3. Made' >= Made /\ Made' \in Nat
    BY <2>2, ScreensAssumption DEF Made
  <2> QED
    BY <1>4, <2>1, <2>3, FewerPending DEF Tidy
<1>9. ConsoleShapes'
  <2>1. newest' \in 0..issued'
    BY <1>2, <1>4 DEF Tidy, ConsoleShapes, Asks
  <2>2. {busy', adding', loadError', strayed'} \subseteq BOOLEAN
    BY DEF Tidy, ConsoleShapes, C!ChangeClient
  <2>3. clicks' \in 0..MaxClicks
    BY ScreensAssumption DEF C!ChangeClient, C!Click, Tidy, ConsoleShapes
  <2> QED
    BY <1>1, <1>2, <1>4, <1>5, <2>1, <2>2, <2>3 DEF Tidy, ConsoleShapes, C!Nothing
<1>10. strayed' = (strayed \/ busy)
  BY DEF C!ChangeClient
<1> QED
  BY <1>1, <1>5, <1>7, <1>8, <1>9, <1>10 DEF Tidy

\* Otherwise it is asked for twice, for its cycles and for a preview.
LEMMA ClientTidy ==
  ASSUME Tidy, C!ChangeClient, key.cycle # NoCycle
  PROVE  /\ Tidy' /\ key' \in C!Keys /\ shown' = C!Nothing /\ issued' = issued + 2
         /\ strayed' = (strayed \/ busy)
         /\ \A d \in calls' :
              \/ d \in calls
              \/ d.n = issued + 1 /\ d.kind = "cycles" /\ d.at = "asked" /\ d.key = key'
              \/ d.n = issued + 2 /\ d.kind = "load" /\ d.at = "asked" /\ d.key = key'
         /\ calls \subseteq calls' /\ \E d \in calls' : d.n = issued + 2 /\ d.kind = "load"
<1> PICK b \in Clients \ {key.client} :
      LET k == [key EXCEPT !.client = b]
      IN  /\ key' = k /\ shown' = C!Nothing /\ k.cycle = key.cycle
          /\ IF k.cycle = NoCycle
             THEN /\ calls' = calls \cup {C!Ask("cycles", k, issued + 1)}
                  /\ issued' = issued + 1
             ELSE /\ calls' = calls \cup {C!Ask("cycles", k, issued + 1), C!Ask("load", k, issued + 2)}
                  /\ issued' = issued + 2
  <2>1. \A b \in Clients : [key EXCEPT !.client = b].cycle = key.cycle
    BY DEF Tidy, ConsoleShapes, C!Keys
  <2> QED
    BY <2>1 DEF C!ChangeClient
<1> DEFINE first == C!Ask("cycles", key', issued + 1)
           second == C!Ask("load", key', issued + 2)
<1>1. key' \in C!Keys
  BY DEF Tidy, ConsoleShapes, C!Keys
<1>2. issued \in Nat /\ issued + 1 \in Nat \ {0} /\ issued + 2 \in Nat \ {0}
  BY DEF Tidy, ConsoleShapes
<1>3. /\ first \in Calls /\ first.n = issued + 1 /\ first.kind = "cycles" /\ first.at = "asked"
      /\ first.key = key'
  BY <1>1, <1>2, AskTyped DEF Tidy
<1>4. /\ second \in Calls /\ second.n = issued + 2 /\ second.kind = "load" /\ second.at = "asked"
      /\ second.key = key'
  <2>1. "load" \in Changes \cup Loads \cup {"cycles"}
    BY DEF Loads
  <2> QED
    BY <1>1, <1>2, <2>1, AskTyped DEF Tidy
<1>5. calls' = calls \cup {first, second} /\ issued' = issued + 2 /\ shown' = C!Nothing
  OBVIOUS
<1>6. IsFiniteSet(calls')
  <2>1. IsFiniteSet(calls \cup {first})
    BY FS_AddElement DEF Tidy, ConsoleShapes
  <2>2. IsFiniteSet((calls \cup {first}) \cup {second})
    BY <2>1, FS_AddElement
  <2>3. calls' = (calls \cup {first}) \cup {second}
    BY <1>5
  <2> QED
    BY <2>2, <2>3
<1> HIDE DEF first, second
<1>7. \A d \in calls : d.n \in Nat /\ d.n <= issued
  BY DEF Tidy, ConsoleShapes, Calls, Numbered
<1>8. Numbered'
  BY <1>2, <1>3, <1>4, <1>5, <1>7 DEF Numbered, Tidy
<1>9. page = "exports" /\ page' = page /\ {"cycles", "load"} \subseteq Makes[page]
  BY DEF C!ChangeClient, Makes, C!Fixed, C!Lists
<1>10. OnePage' /\ OneWait' /\ Answers'
  BY <1>3, <1>4, <1>5, <1>9 DEF OnePage, OneWait, Answers, Waited, Tidy, C!ChangeClient, C!Fixed
<1>11. Counted'
  <2>1. Pending' \subseteq Pending
    BY <1>3, <1>4, <1>5 DEF Pending, Changes
  <2>2. clicks \in 0..MaxClicks /\ changes \in 0..MaxChanges /\ clicks' = clicks + 1 /\ changes' = changes
    BY DEF C!ChangeClient, C!Click, Tidy, ConsoleShapes
  <2>3. Made' >= Made /\ Made' \in Nat
    BY <2>2, ScreensAssumption DEF Made
  <2> QED
    BY <2>1, <2>3, FewerPending DEF Tidy, C!ChangeClient
<1>12. ConsoleShapes'
  <2>1. newest' \in 0..issued'
    BY <1>5 DEF Tidy, ConsoleShapes, C!ChangeClient
  <2>2. {busy', adding', loadError', strayed'} \subseteq BOOLEAN
    BY DEF Tidy, ConsoleShapes, C!ChangeClient
  <2>3. calls' \subseteq Calls /\ issued' \in Nat
    BY <1>2, <1>3, <1>4, <1>5 DEF Tidy, ConsoleShapes
  <2>4. clicks' \in 0..MaxClicks
    BY ScreensAssumption DEF C!ChangeClient, C!Click, Tidy, ConsoleShapes
  <2> QED
    BY <1>1, <1>5, <1>6, <2>1, <2>2, <2>3, <2>4 DEF Tidy, ConsoleShapes, C!ChangeClient, C!Nothing
<1>13. Tidy'
  BY <1>8, <1>10, <1>11, <1>12 DEF Tidy
<1>14. strayed' = (strayed \/ busy)
  BY DEF C!ChangeClient
<1>15. calls \subseteq calls' /\ first \in calls' /\ second \in calls'
  BY <1>5
<1>16. \E d \in calls' : d.n = issued + 2 /\ d.kind = "load"
  BY <1>4, <1>15
<1>17. \A d \in calls' :
         \/ d \in calls
         \/ d.n = issued + 1 /\ d.kind = "cycles" /\ d.at = "asked" /\ d.key = key'
         \/ d.n = issued + 2 /\ d.kind = "load" /\ d.at = "asked" /\ d.key = key'
  BY <1>3, <1>4, <1>5
<1> QED
  BY <1>1, <1>5, <1>13, <1>14, <1>15, <1>16, <1>17

\* The API answers the request c with d, of the version it then has; it may have
\* moved the subject of c on.
Served(c, d) ==
  /\ c.at = "asked" /\ d \in Calls /\ d.at \in {"answered", "refused"}
  /\ d.n = c.n /\ d.key = c.key /\ d.kind = c.kind
  /\ calls' = (calls \ {c}) \cup {d}
  /\ subjects' \in [C!Keys -> [ver : Nat, open : BOOLEAN]]
  /\ \A k \in C!Keys : subjects'[k].ver >= subjects[k].ver
  /\ d.ver <= subjects'[c.key].ver /\ d.ver >= subjects[c.key].ver
  /\ \/ UNCHANGED subjects
     \/ c.kind \in Changes /\ \A k \in C!Keys : subjects'[k].ver <= subjects[k].ver + 1
  /\ \/ UNCHANGED own
     \/ own' = d.ver /\ d.at = "answered" /\ d.kind \in Changes \ {"create"}
  /\ UNCHANGED <<page, key, shown, issued, busy, adding, picked, loadError, clicks, changes,
                 newest, strayed>>

\* The API serves one call, and every subject keeps or gains versions.
LEMMA ServeServes ==
  ASSUME ConsoleShapes, C!Serve
  PROVE  \E c \in calls, d \in Calls : Served(c, d)
<1> DEFINE Put(c, at, t) == [c EXCEPT !.at = at, !.ver = t.ver, !.open = t.open]
<1> PICK c \in calls :
      /\ c.at = "asked"
      /\ LET s == subjects[c.key]
             Answer(at, t) == calls' = (calls \ {c}) \cup {Put(c, at, t)}
         IN  IF C!Read(c)
             THEN Answer("answered", s) /\ UNCHANGED <<subjects, own>>
             ELSE \E ok \in C!Verdicts(c), still \in BOOLEAN :
                    LET t == [ver |-> s.ver + 1, open |-> still]
                    IN  /\ still # s.open => ok /\ c.kind = "action"
                        /\ subjects' = IF ok THEN [subjects EXCEPT ![c.key] = t] ELSE subjects
                        /\ own' = IF ok /\ c.kind # "create" THEN t.ver ELSE own
                        /\ IF ok THEN Answer("answered", t) ELSE Answer("refused", s)
      /\ UNCHANGED <<page, key, shown, issued, busy, adding, picked, loadError, clicks, changes,
                     newest, strayed, refusal>>
  BY DEF C!Serve
<1> DEFINE s == subjects[c.key]
<1>1. c \in Calls /\ c.key \in C!Keys /\ s \in [ver : Nat, open : BOOLEAN] /\ s.ver \in Nat
  BY DEF ConsoleShapes, Calls
<1>2. ASSUME NEW at \in {"answered", "refused"}, NEW t \in [ver : Nat, open : BOOLEAN]
      PROVE  /\ Put(c, at, t) \in Calls /\ Put(c, at, t).at = at /\ Put(c, at, t).ver = t.ver
             /\ Put(c, at, t).n = c.n /\ Put(c, at, t).key = c.key /\ Put(c, at, t).kind = c.kind
  BY <1>1 DEF Calls
<1>3. \A k \in C!Keys : subjects[k].ver \in Nat
  BY DEF ConsoleShapes
<1>4. ASSUME UNCHANGED <<subjects, own>>, NEW at \in {"answered", "refused"},
             calls' = (calls \ {c}) \cup {Put(c, at, s)}
      PROVE  Served(c, Put(c, at, s))
  <2> HIDE DEF Put
  <2> QED
    BY <1>1, <1>2, <1>3, <1>4 DEF Served, ConsoleShapes
<1>5. CASE C!Read(c)
  <2>1. Served(c, Put(c, "answered", s))
    BY <1>4, <1>5
  <2> QED
    BY <1>1, <1>2, <2>1
<1>6. CASE ~C!Read(c)
  <2>1. c.kind \in Changes
    BY <1>1, <1>6 DEF Calls, C!Read, Loads
  <2> PICK ok \in C!Verdicts(c), still \in BOOLEAN :
        /\ subjects' = IF ok THEN [subjects EXCEPT ![c.key] = [ver |-> s.ver + 1, open |-> still]]
                       ELSE subjects
        /\ own' = IF ok /\ c.kind # "create" THEN s.ver + 1 ELSE own
        /\ IF ok THEN calls' = (calls \ {c}) \cup {Put(c, "answered", [ver |-> s.ver + 1, open |-> still])}
           ELSE calls' = (calls \ {c}) \cup {Put(c, "refused", s)}
    BY <1>6
  <2>2. CASE ~ok
    <3>1. Served(c, Put(c, "refused", s))
      BY <1>4, <2>2
    <3> QED
      BY <1>1, <1>2, <3>1
  <2>3. CASE ok
    <3> DEFINE t == [ver |-> s.ver + 1, open |-> still]
    <3>0. s.ver + 1 \in Nat
      BY <1>1, Sums, Zenon
    <3>1. t \in [ver : Nat, open : BOOLEAN] /\ t.ver = s.ver + 1
      BY <3>0
    <3>2. subjects' = [subjects EXCEPT ![c.key] = t] /\ calls' = (calls \ {c}) \cup {Put(c, "answered", t)}
      BY <2>3
    <3>3. own' = own \/ (own' = s.ver + 1 /\ c.kind # "create")
      BY <2>3
    <3> HIDE DEF Put, t
    <3>4. subjects' \in [C!Keys -> [ver : Nat, open : BOOLEAN]]
      BY <3>1, <3>2 DEF ConsoleShapes
    <3>5. \A k \in C!Keys : subjects'[k].ver = IF k = c.key THEN s.ver + 1 ELSE subjects[k].ver
      BY <3>1, <3>2 DEF ConsoleShapes
    <3>6. Served(c, Put(c, "answered", t))
      BY <1>1, <1>2, <1>3, <2>1, <3>1, <3>2, <3>3, <3>4, <3>5 DEF Served
    <3> QED
      BY <1>2, <3>1, <3>6
  <2> QED
    BY <2>2, <2>3
<1> QED
  BY <1>5, <1>6

\* The answers of the API leave the console tidy.
LEMMA ServedTidy ==
  ASSUME Tidy, NEW c \in calls, NEW d \in Calls, Served(c, d)
  PROVE  Tidy'
<1>1. c \in Calls /\ c.key \in C!Keys
  BY DEF Tidy, ConsoleShapes, Calls
<1>2. calls' \subseteq Calls /\ IsFiniteSet(calls')
  <2>1. IsFiniteSet(calls \ {c})
    BY FS_Difference DEF Tidy, ConsoleShapes
  <2>2. IsFiniteSet((calls \ {c}) \cup {d})
    BY <2>1, FS_AddElement
  <2> QED
    BY <2>2 DEF Served, Tidy, ConsoleShapes
<1>3. ConsoleShapes'
  <2>1. own' \in Nat
    BY <1>1 DEF Served, Tidy, ConsoleShapes, Calls
  <2> QED
    BY <1>2, <2>1 DEF Served, Tidy, ConsoleShapes, C!Nothing
<1>4. Numbered' /\ OnePage' /\ OneWait'
  <2>1. \A e \in calls' : \E f \in calls :
          /\ e.n = f.n /\ e.key = f.key /\ e.kind = f.kind
          /\ f = c => e = d
          /\ f # c => e = f
    BY DEF Served
  <2>2. UNCHANGED <<issued, page, busy, key, newest, shown>> /\ (page = "none" => UNCHANGED own)
    BY PageKinds DEF Served, Tidy, OnePage, ConsoleShapes
  <2>3. Numbered'
    BY <2>1, <2>2 DEF Tidy, Numbered
  <2>4. OnePage'
    BY <2>1, <2>2 DEF Tidy, OnePage, C!Nothing
  <2>5. OneWait'
    BY <2>1, <2>2 DEF Tidy, OneWait
  <2> QED
    BY <2>3, <2>4, <2>5
<1>5. Answers'
  <2> SUFFICES ASSUME NEW e \in calls', e.at # "asked" PROVE e.ver <= subjects'[e.key].ver
    BY DEF Answers
  <2>1. CASE e = d
    BY <1>1, <2>1 DEF Served
  <2>2. CASE e # d
    <3>1. e \in calls /\ e \in Calls /\ e.key \in C!Keys /\ e.ver \in Nat
      BY <2>2 DEF Served, Tidy, ConsoleShapes, Calls
    <3>2. e.ver <= subjects[e.key].ver /\ subjects'[e.key].ver >= subjects[e.key].ver
      BY <3>1 DEF Served, Answers, Tidy
    <3>3. subjects[e.key].ver \in Nat /\ subjects'[e.key].ver \in Nat
      BY <3>1 DEF Served, Tidy, ConsoleShapes
    <3> QED
      BY <3>1, <3>2, <3>3
  <2> QED
    BY <2>1, <2>2
<1>6. Counted'
  <2>1. Made \in Nat /\ Made' = Made
    BY ScreensAssumption DEF Tidy, ConsoleShapes, Made, Served
  <2>2. CASE UNCHANGED subjects
    <3>1. Pending' \subseteq Pending
      BY DEF Pending, Served
    <3> QED
      BY <2>1, <2>2, <3>1, FewerPending DEF Tidy
  <2>3. CASE c.kind \in Changes /\ \A k \in C!Keys : subjects'[k].ver <= subjects[k].ver + 1
    <3>1. c \in Pending /\ Pending' \subseteq Pending \ {c}
      BY <2>3 DEF Pending, Served
    <3>2. Cardinality(Pending') <= Cardinality(Pending \ {c}) /\ Cardinality(Pending') \in Nat
      <4>1. IsFiniteSet(Pending \ {c})
        BY PendingFinite, FS_Difference DEF Tidy
      <4> QED
        BY <3>1, <4>1, FS_Subset, FS_CardinalityType
    <3>3. Cardinality(Pending \ {c}) = Cardinality(Pending) - 1 /\ Cardinality(Pending) \in Nat
      BY <3>1, PendingFinite DEF Tidy
    <3>4. \A k \in C!Keys : subjects[k].ver \in Nat /\ subjects'[k].ver \in Nat
      BY DEF Served, Tidy, ConsoleShapes
    <3>5. \A k \in C!Keys : subjects[k].ver + Cardinality(Pending) <= Made
      BY DEF Counted, Tidy, Made
    <3>6. \A k \in C!Keys : subjects'[k].ver + Cardinality(Pending') <= Made'
      BY <2>1, <2>3, <3>2, <3>3, <3>4, <3>5
    <3> QED
      BY <3>6 DEF Counted, Made
  <2> QED
    BY <2>2, <2>3 DEF Served
<1> QED
  BY <1>3, <1>4, <1>5, <1>6 DEF Tidy

\* What others change leaves it tidy too.
LEMMA OthersTidy ==
  ASSUME Tidy, C!Others
  PROVE  /\ Tidy' /\ \A k \in C!Keys : subjects'[k].ver >= subjects[k].ver
         /\ UNCHANGED <<page, key, shown, calls, issued, busy, newest, strayed, own>>
<1> PICK still \in BOOLEAN : subjects' = [subjects EXCEPT ![Home] = [ver |-> @.ver + 1, open |-> still]]
  BY DEF C!Others
<1>1. Home \in C!Keys
  BY ShownTyped DEF Tidy
<1>2. \A k \in C!Keys : subjects[k] \in [ver : Nat, open : BOOLEAN] /\ subjects[k].ver \in Nat
  BY DEF Tidy, ConsoleShapes
<1>3. subjects[Home].ver + 1 \in Nat
  BY <1>1, <1>2
<1>4. [ver |-> subjects[Home].ver + 1, open |-> still] \in [ver : Nat, open : BOOLEAN]
  BY <1>3
<1>5. subjects' \in [C!Keys -> [ver : Nat, open : BOOLEAN]]
  BY <1>4 DEF Tidy, ConsoleShapes
<1>6. \A k \in C!Keys : subjects'[k].ver = IF k = Home THEN subjects[k].ver + 1 ELSE subjects[k].ver
  BY DEF Tidy, ConsoleShapes
<1>7. \A k \in C!Keys : subjects'[k].ver >= subjects[k].ver /\ subjects'[k].ver <= subjects[k].ver + 1
  BY <1>2, <1>6
<1>8. UNCHANGED <<page, key, shown, calls, issued, busy, adding, picked, loadError, clicks, newest,
                  strayed, own>>
  BY DEF C!Others
<1>9. changes' = changes + 1 /\ changes' \in 0..MaxChanges
  BY ScreensAssumption DEF C!Others, Tidy, ConsoleShapes
<1>10. ConsoleShapes'
  BY <1>5, <1>8, <1>9 DEF Tidy, ConsoleShapes, C!Nothing
<1>11. Numbered' /\ OnePage' /\ OneWait'
  BY <1>8 DEF Tidy, Numbered, OnePage, OneWait
<1>12. Answers'
  <2> SUFFICES ASSUME NEW e \in calls, e.at # "asked" PROVE e.ver <= subjects'[e.key].ver
    BY <1>8 DEF Answers
  <2>1. e.key \in C!Keys /\ e.ver \in Nat
    BY DEF Tidy, ConsoleShapes, Calls
  <2>2. e.ver <= subjects[e.key].ver
    BY DEF Answers, Tidy
  <2> QED
    BY <1>2, <1>6, <2>1, <2>2
<1>13. Counted'
  <2>1. Pending' = Pending /\ clicks' = clicks /\ Cardinality(Pending) \in Nat
    BY <1>8, PendingFinite DEF Pending, Tidy
  <2>2. \A k \in C!Keys : subjects[k].ver + Cardinality(Pending) <= clicks + changes
    BY DEF Counted, Tidy
  <2>3. clicks \in Nat /\ changes \in Nat
    BY ScreensAssumption DEF Tidy, ConsoleShapes
  <2>4. \A k \in C!Keys : subjects'[k].ver + Cardinality(Pending') <= clicks' + changes'
    BY <1>2, <1>6, <1>9, <2>1, <2>2, <2>3
  <2> QED
    BY <2>4 DEF Counted
<1> QED
  BY <1>7, <1>8, <1>10, <1>11, <1>12, <1>13 DEF Tidy

\* What the end of a request does: it is over, and its answer may be shown; ...
Later(n) == IF n > newest THEN n ELSE newest
Shows(c) ==
  /\ c.at = "answered"
  /\ shown' = [key |-> c.key, ver |-> c.ver, open |-> c.open, n |-> c.n] /\ newest' = Later(c.n)
Drops(c) ==
  /\ calls' = calls \ {c} /\ UNCHANGED issued
  /\ Shows(c) \/ (shown' \in {shown, C!Nothing} /\ newest' \in {newest, Later(c.n)})
  /\ c.kind \in Loads => newest' = Later(c.n)
  /\ c.kind \in {"reassign", "split"} => Shows(c)
  /\ c.kind # "mutate"
  /\ c.kind \notin Waited => UNCHANGED busy
  /\ UNCHANGED own \/ (page = "assign" /\ own' = 0)
  /\ UNCHANGED <<page, key, strayed>>

\* ... another takes its place, ...
Follows(c, kind) ==
  /\ c.kind \notin Loads /\ kind \in Makes[page] \cap Loads /\ Asks({c}, kind, c.key)
  /\ kind = "reload" => c.kind \in {"generate", "mutate"} /\ UNCHANGED busy
  /\ c.kind \notin Waited => UNCHANGED busy
  /\ c.kind = "generate" \/ page \in C!Fixed
  /\ UNCHANGED own \/ (own' = c.ver /\ c.kind = "create" /\ c.at = "answered")
  /\ UNCHANGED <<page, key, shown, newest, strayed>>

\* ... nothing is selected, for want of a cycle, ...
Empties(c) ==
  /\ c.kind = "cycles" /\ page = "exports"
  /\ calls' = calls \ {c} /\ UNCHANGED issued
  /\ key' \in C!Keys /\ key'.cycle = NoCycle /\ strayed' = (strayed \/ busy)
  /\ UNCHANGED <<page, shown, newest, busy, own>>

\* ... or the run that was assigned is opened.
Opens ==
  /\ page = "assign" /\ page' = "run" /\ key' = Home /\ shown' = C!Nothing
  /\ Asks(calls, "load", Home)
  /\ busy' = FALSE /\ own' = 0
  /\ UNCHANGED <<newest, strayed>>

Rest ==
  /\ UNCHANGED <<subjects, clicks, changes>>
  /\ {busy', adding', loadError'} \subseteq BOOLEAN /\ picked' \in Clients \cup {"none"}

\* A call that comes to an end is dropped, is followed by another, or brings another
\* selection, none, or another page.
LEMMA ComesHow ==
  ASSUME Tidy, NEW c \in calls, NEW end, Comes(c, end)
  PROVE  /\ Rest
         /\ Drops(c) \/ (\E kind : Follows(c, kind)) \/ Reselects({c}) \/ Empties(c) \/ Opens
<1>1. /\ page \in DOMAIN Makes /\ c.kind \in Makes[page] /\ {busy, adding, loadError, strayed} \subseteq BOOLEAN
      /\ picked \in Clients \cup {"none"} /\ c.key \in C!Keys /\ c.n \in Nat /\ newest \in Nat
      /\ clicks \in 0..MaxClicks /\ changes \in 0..MaxChanges
  BY DEF Tidy, ConsoleShapes, OnePage, Calls
<1>2. end = "answered" => c.at = "answered"
  BY DEF Comes
<1>3. UNCHANGED <<subjects, clicks, changes>>
  BY DEF Comes, C!End
<1>4. CASE C!Loaded(c, end) /\ UNCHANGED page
  <2>1. Rest
    BY <1>1, <1>3, <1>4 DEF C!Loaded, Rest, C!Done
  <2>2. c.kind \in Loads /\ calls' = calls \ {c} /\ UNCHANGED <<issued, own, page, key, strayed>>
    BY <1>4 DEF C!Loaded, Loads, C!Done
  <2>3. Shows(c) \/ (shown' \in {shown, C!Nothing} /\ newest' = Later(c.n))
    BY <1>2, <1>4 DEF C!Loaded, C!Show, Shows, Later
  <2>4. newest' = Later(c.n)
    BY <2>3 DEF Shows
  <2>5. c.kind \notin Waited => UNCHANGED busy
    BY <1>1, <1>4, Zenon DEF C!Loaded, Waited
  <2>6. c.kind \notin {"reassign", "split", "mutate"}
    BY <2>2 DEF Loads
  <2> QED
    BY <2>1, <2>2, <2>3, <2>4, <2>5, <2>6 DEF Drops
<1>5. CASE C!CyclesCame(c, end) /\ UNCHANGED page
  <2>1. Rest
    BY <1>1, <1>3, <1>5 DEF C!CyclesCame, Rest
  <2>2. page = "exports" /\ c.kind = "cycles"
    BY <1>1, <1>5, PageKinds DEF C!CyclesCame
  <2> DEFINE k == [key EXCEPT !.cycle = FirstCycle[c.key.client]]
  <2>3. k \in C!Keys
    BY <1>1, ScreensAssumption DEF Tidy, ConsoleShapes, C!Keys
  <2>6. CASE end = "answered" /\ k # key /\ k.cycle = NoCycle
    <3>1. key' = k /\ calls' = calls \ {c} /\ UNCHANGED <<issued, shown>> /\ strayed' = (strayed \/ busy)
      BY <1>5, <2>6 DEF C!CyclesCame, C!Done
    <3>2. UNCHANGED <<page, busy, newest, own>>
      BY <1>5 DEF C!CyclesCame
    <3>3. key' \in C!Keys /\ key'.cycle = NoCycle
      BY <2>3, <2>6, <3>1
    <3> QED
      BY <2>1, <2>2, <3>1, <3>2, <3>3 DEF Empties
  <2>4. CASE end = "answered" /\ k # key /\ k.cycle # NoCycle
    <3>1. /\ key' = k /\ shown' = C!Nothing
          /\ calls' = (calls \ {c}) \cup {C!Ask("load", k, issued + 1)}
          /\ issued' = issued + 1
          /\ strayed' = (strayed \/ busy)
      BY <1>5, <2>4 DEF C!CyclesCame
    <3>2. Made' >= Made
      BY <1>1, <1>3, ScreensAssumption DEF Made
    <3>3. clicks' \in 0..MaxClicks /\ loadError' \in BOOLEAN /\ picked' \in Clients \cup {"none"}
      BY <1>1, <1>3, <2>1 DEF Rest
    <3>4. UNCHANGED <<page, subjects, busy, adding, newest, own, changes>>
      BY <1>3, <1>5 DEF C!CyclesCame
    <3>5. strayed' = (strayed \/ (page = "exports" /\ busy))
      BY <2>2, <3>1
    <3>6. page \in C!Lists \cup {"exports", "assign"} /\ \A d \in {c} : d.kind = "cycles" /\ page = "exports"
      BY <2>2
    <3>7. Asks({c}, "load", key') /\ key' \in C!Keys /\ shown' \in {shown, C!Nothing}
      BY <2>3, <3>1 DEF Asks
    <3> QED
      BY <2>1, <3>2, <3>3, <3>4, <3>5, <3>6, <3>7 DEF Reselects
  <2>5. CASE ~(end = "answered" /\ k # key)
    <3>1. calls' = calls \ {c} /\ UNCHANGED <<issued, key, shown, strayed>>
      BY <1>5, <2>5 DEF C!CyclesCame, C!Done
    <3>2. UNCHANGED <<page, busy, newest, own>>
      BY <1>5 DEF C!CyclesCame
    <3> QED
      BY <2>1, <2>2, <3>1, <3>2 DEF Drops, Loads
  <2> QED
    BY <2>4, <2>5, <2>6
<1>6. CASE C!Assigned(c, end)
  <2>1. Rest
    BY <1>1, <1>3, <1>6 DEF C!Assigned, Rest
  <2>2. page = "assign" /\ c.kind = "assign" /\ c.kind \in Waited
    BY <1>1, <1>6, PageKinds DEF C!Assigned, Waited
  <2>3. CASE end = "answered"
    <3>1. calls' = (calls \ calls) \cup {C!Ask("load", Home, issued + 1)}
      BY <1>6, <2>3 DEF C!Assigned
    <3>2. Opens
      BY <1>6, <2>2, <2>3, <3>1 DEF C!Assigned, Opens, Asks
    <3> QED
      BY <2>1, <3>2
  <2>4. CASE end # "answered"
    <3>1. calls' = calls \ {c} /\ UNCHANGED <<issued, page, key, shown, newest, strayed>> /\ own' = 0
      BY <1>6, <2>4 DEF C!Assigned, C!Done
    <3> QED
      BY <2>1, <2>2, <3>1 DEF Drops, Loads
  <2> QED
    BY <2>3, <2>4
<1>7. CASE C!RunActed(c, end) /\ UNCHANGED <<page, strayed>>
  <2>1. Rest
    BY <1>1, <1>3, <1>7 DEF C!RunActed, Rest
  <2>2. page = "run" /\ c.kind \in {"reassign", "split"} /\ c.kind \in Waited /\ "load" \in Makes[page]
    BY <1>1, <1>7, PageKinds DEF C!RunActed, Waited
  <2>3. UNCHANGED <<page, strayed, key, own>>
    BY <1>7 DEF C!RunActed
  <2>4. CASE end = "answered"
    <3>1. Shows(c) /\ calls' = calls \ {c} /\ UNCHANGED issued
      BY <1>2, <1>7, <2>4 DEF C!RunActed, C!Show, C!Done, Shows, Later
    <3> QED
      BY <2>1, <2>2, <2>3, <3>1 DEF Drops, Loads
  <2>5. CASE end # "answered"
    <3>1. Asks({c}, "load", c.key) /\ UNCHANGED <<shown, newest>>
      BY <1>7, <2>5 DEF C!RunActed, C!RunRefused, C!Follow, Asks
    <3>2. Follows(c, "load")
      BY <2>2, <2>3, <3>1 DEF Follows, Loads, C!Fixed
    <3> QED
      BY <2>1, <3>2
  <2> QED
    BY <2>4, <2>5
<1>8. CASE C!ExceptionActed(c, end) /\ UNCHANGED <<page, strayed>>
  <2>1. Rest
    BY <1>1, <1>3, <1>8 DEF C!ExceptionActed, Rest
  <2>2. c.kind = "action" /\ calls' = calls \ {c} /\ UNCHANGED <<issued, page, strayed, key, own>>
    BY <1>8 DEF C!ExceptionActed, C!Done
  <2>3. Shows(c) \/ UNCHANGED <<shown, newest>>
    BY <1>2, <1>8 DEF C!ExceptionActed, C!Show, Shows, Later
  <2> QED
    BY <2>1, <2>2, <2>3 DEF Drops, Loads, Waited
<1>9. CASE (C!Generated(c, end) \/ C!Mutated(c, end)) /\ UNCHANGED <<page, strayed>>
  <2>1. Rest
    BY <1>1, <1>3, <1>9 DEF C!Generated, C!Mutated, C!MutatedAnyway, Rest
  <2>2. c.kind \in {"generate", "mutate"} /\ c.kind \in Waited /\ "reload" \in Makes[page]
    BY <1>1, <1>9, PageKinds DEF C!Generated, C!Mutated, Waited
  <2>3. c.kind = "generate" \/ page \in C!Fixed
    BY <1>1, <2>2, PageKinds DEF C!Fixed
  <2>4. UNCHANGED <<page, strayed, key, shown, newest, own>>
    BY <1>9 DEF C!Generated, C!Mutated
  <2>5. \/ Asks({c}, "reload", c.key) /\ UNCHANGED busy
        \/ c.kind = "generate" /\ calls' = calls \ {c} /\ UNCHANGED issued
    BY <1>9 DEF C!Generated, C!Mutated, C!MutatedAnyway, C!Follow, C!Done, Asks
  <2>6. CASE Asks({c}, "reload", c.key) /\ UNCHANGED busy
    <3>1. Follows(c, "reload")
      BY <2>2, <2>3, <2>4, <2>6 DEF Follows, Loads
    <3> QED
      BY <2>1, <3>1
  <2>7. CASE c.kind = "generate" /\ calls' = calls \ {c} /\ UNCHANGED issued
    BY <2>1, <2>2, <2>4, <2>7 DEF Drops, Loads
  <2> QED
    BY <2>5, <2>6, <2>7
<1>10. CASE C!Created(c, end) /\ UNCHANGED <<page, strayed>>
  <2>1. Rest
    BY <1>1, <1>3, <1>10 DEF C!Created, Rest
  <2>2. c.kind = "create" /\ c.kind \notin Waited /\ page = "staff" /\ "listed" \in Makes[page]
    BY <1>1, <1>10, PageKinds DEF C!Created, Waited
  <2>3. UNCHANGED <<page, strayed, key, shown, newest, busy>>
    BY <1>10 DEF C!Created
  <2>4. CASE end = "answered"
    <3>1. Asks({c}, "listed", c.key) /\ own' \in {own, c.ver}
      BY <1>10, <2>4 DEF C!Created, C!Follow, Asks
    <3>2. Follows(c, "listed")
      BY <1>2, <2>2, <2>3, <2>4, <3>1 DEF Follows, Loads, C!Fixed
    <3> QED
      BY <2>1, <3>2
  <2>5. CASE end # "answered"
    <3>1. calls' = calls \ {c} /\ UNCHANGED <<issued, own>>
      BY <1>10, <2>5 DEF C!Created, C!Done
    <3> QED
      BY <2>1, <2>2, <2>3, <3>1 DEF Drops, Loads
  <2> QED
    BY <2>4, <2>5
<1> QED
  BY <1>4, <1>5, <1>6, <1>7, <1>8, <1>9, <1>10 DEF Comes, C!End

\* When a request is over, nothing waits for it any more, and the console is tidy.
LEMMA DropsTidy ==
  ASSUME Tidy, NEW c \in calls, Drops(c), Rest
  PROVE  Tidy'
<1>1. c \in Calls /\ c.n \in 1..issued /\ c.n \in Nat
  BY DEF Tidy, ConsoleShapes, Calls, Numbered
<1>2. /\ calls' = calls \ {c} /\ UNCHANGED <<issued, page, key, strayed, subjects, clicks, changes>>
      /\ page # "none" /\ (c.kind \notin Waited => UNCHANGED busy)
  <2>1. c.kind \in Makes[page] /\ page \in DOMAIN Makes
    BY DEF Tidy, OnePage, ConsoleShapes
  <2> QED
    BY <2>1, PageKinds DEF Drops, Rest
<1>3. Numbered' /\ OnePage' /\ Answers'
  BY <1>2 DEF Numbered, OnePage, Answers, Tidy
<1>4. OneWait'
  BY <1>2 DEF OneWait, Tidy
<1>5. Counted'
  <2>1. Pending' \subseteq Pending
    BY <1>2 DEF Pending
  <2>2. Made' >= Made /\ Made' \in Nat
    BY <1>2, ScreensAssumption DEF Made, Tidy, ConsoleShapes
  <2> QED
    BY <1>2, <2>1, <2>2, FewerPending DEF Tidy
<1>6. ConsoleShapes'
  <2>1. newest \in 0..issued /\ issued \in Nat
    BY DEF Tidy, ConsoleShapes
  <2>2. newest' \in 0..issued /\ newest' >= newest
    BY <1>1, <2>1 DEF Drops, Shows, Later
  <2>3. shown' = C!Nothing \/ shown' \in [key : C!Keys, ver : Nat, open : BOOLEAN, n : 1..newest']
    <3>1. CASE Shows(c)
      <4>1. newest' = Later(c.n) /\ c.n \in 1..newest'
        BY <1>1, <2>1, <3>1 DEF Shows, Later
      <4> QED
        BY <1>1, <3>1, <4>1 DEF Shows, Calls
    <3>2. CASE shown' = C!Nothing
      BY <3>2
    <3>3. CASE shown' = shown
      <4>1. 1..newest \subseteq 1..newest'
        BY <2>1, <2>2
      <4> QED
        BY <3>3, <4>1 DEF Tidy, ConsoleShapes
    <3> QED
      BY <3>1, <3>2, <3>3 DEF Drops
  <2>4. own' \in Nat
    BY DEF Drops, Tidy, ConsoleShapes
  <2>5. IsFiniteSet(calls')
    BY <1>2, FS_Subset DEF Tidy, ConsoleShapes
  <2> QED
    BY <1>2, <2>2, <2>3, <2>4, <2>5 DEF Tidy, ConsoleShapes, Rest, C!Nothing
<1> QED
  BY <1>3, <1>4, <1>5, <1>6 DEF Tidy

\* The loads that follow a request leave it tidy.
LEMMA FollowsTidy ==
  ASSUME Tidy, NEW c \in calls, NEW kind, Follows(c, kind), Rest
  PROVE  Tidy'
<1>1. c \in Calls /\ c.key \in C!Keys /\ c.ver \in Nat /\ page \in DOMAIN Makes /\ key \in C!Keys
  BY DEF Tidy, ConsoleShapes, Calls
<1>2. kind \in Makes[page] /\ kind \in Loads /\ kind \notin Changes /\ (kind \in Waited => kind = "reload")
  BY DEF Follows, Loads, Changes, Waited
<1>3. page \in C!Fixed \cup {"none"} => c.key = Home
  BY DEF Tidy, OnePage
<1>4. /\ calls' \subseteq Calls /\ IsFiniteSet(calls') /\ issued' \in Nat /\ Numbered'
      /\ OnePage' /\ Answers'
  BY <1>1, <1>2, <1>3, AskedTidy DEF Follows, Rest
<1>5. \A d \in calls' :
        \/ d \in calls /\ d # c /\ d.n \in Nat
        \/ d.n = issued + 1 /\ d.key = c.key /\ d.kind = kind /\ d.at = "asked"
  <2>1. \A d \in calls' :
          \/ d \in calls /\ d \notin {c} /\ d.n \in Nat
          \/ d.n = issued + 1 /\ d.key = c.key /\ d.kind = kind /\ d.at = "asked"
    BY <1>1, <1>2, AskedCalls DEF Follows, Tidy
  <2> QED
    BY <2>1
<1>6. OneWait'
  <2>1. CASE kind = "reload"
    <3>1. c.kind \in Waited /\ busy' = busy
      BY <2>1 DEF Follows, Waited
    <3>2. busy /\ \A d \in calls : d # c => d.kind \notin Waited
      BY <3>1 DEF OneWait, Tidy
    <3>3. \A d, e \in calls' : d.n = e.n => d = e
      BY <1>4 DEF Numbered
    <3> QED
      BY <1>5, <3>1, <3>2, <3>3 DEF OneWait
  <2>2. CASE kind # "reload"
    BY <1>2, <1>5, <2>2 DEF OneWait, Tidy, Follows
  <2> QED
    BY <2>1, <2>2
<1>7. Counted'
  <2>1. Pending' \subseteq Pending
    BY <1>2, <1>5 DEF Pending
  <2>2. Made' >= Made /\ Made' \in Nat
    BY ScreensAssumption DEF Made, Tidy, ConsoleShapes, Rest
  <2> QED
    BY <2>1, <2>2, FewerPending DEF Tidy, Rest
<1>8. ConsoleShapes'
  <2>1. newest' \in 0..issued'
    BY DEF Tidy, ConsoleShapes, Follows, Asks
  <2>2. own' \in Nat
    BY <1>1 DEF Follows, Tidy, ConsoleShapes
  <2> QED
    BY <1>4, <2>1, <2>2 DEF Tidy, ConsoleShapes, Rest, Follows, C!Nothing
<1> QED
  BY <1>4, <1>6, <1>7, <1>8 DEF Tidy

\* So does the want of a cycle.
LEMMA EmptiesTidy ==
  ASSUME Tidy, NEW c \in calls, Empties(c), Rest
  PROVE  Tidy'
<1>1. calls' = calls \ {c} /\ UNCHANGED <<issued, page, subjects, clicks, changes, shown, newest, busy, own>>
  BY DEF Empties, Rest
<1>2. page \notin C!Fixed \cup {"none"} /\ key' \in C!Keys /\ strayed' \in BOOLEAN
  BY DEF Empties, C!Fixed, Tidy, ConsoleShapes
<1>3. Numbered' /\ OnePage' /\ Answers' /\ OneWait'
  BY <1>1, <1>2 DEF Numbered, OnePage, Answers, OneWait, Tidy
<1>4. Counted'
  <2>1. Pending' \subseteq Pending
    BY <1>1 DEF Pending
  <2>2. Made' >= Made /\ Made' \in Nat
    BY <1>1, ScreensAssumption DEF Made, Tidy, ConsoleShapes
  <2> QED
    BY <1>1, <2>1, <2>2, FewerPending DEF Tidy
<1>5. ConsoleShapes'
  <2>1. IsFiniteSet(calls')
    BY <1>1, FS_Subset DEF Tidy, ConsoleShapes
  <2> QED
    BY <1>1, <1>2, <2>1 DEF Tidy, ConsoleShapes, Rest, C!Nothing
<1> QED
  BY <1>3, <1>4, <1>5 DEF Tidy

\* So does the page of a run that has just been assigned.
LEMMA OpensTidy ==
  ASSUME Tidy, Opens, Rest
  PROVE  Tidy'
<1>1. Home \in C!Keys /\ "load" \in Changes \cup Loads \cup {"cycles"} /\ "load" \notin Changes \cup Waited
  BY ShownTyped DEF Tidy, Loads, Changes, Waited
<1>2. page' = "run" /\ page' \in DOMAIN Makes /\ "load" \in Makes[page']
  BY DEF Opens, Makes, C!Fixed
<1>3. calls' \subseteq Calls /\ IsFiniteSet(calls') /\ issued' \in Nat /\ Numbered'
  BY <1>1, AskedApart DEF Opens, Tidy
<1>4. \A d \in calls' : d.n = issued + 1 /\ d.key = Home /\ d.kind = "load" /\ d.at = "asked"
  BY <1>1, AskedCalls DEF Opens, Tidy
<1>5. OnePage' /\ OneWait' /\ Answers'
  BY <1>1, <1>2, <1>4 DEF OnePage, OneWait, Answers, Opens
<1>6. Counted'
  <2>1. Pending' \subseteq Pending
    BY <1>1, <1>4 DEF Pending
  <2>2. Made' >= Made /\ Made' \in Nat
    BY ScreensAssumption DEF Made, Tidy, ConsoleShapes, Rest
  <2> QED
    BY <2>1, <2>2, FewerPending DEF Tidy, Rest
<1>7. ConsoleShapes'
  <2>1. newest' \in 0..issued'
    BY DEF Tidy, ConsoleShapes, Opens, Asks
  <2>2. strayed' \in BOOLEAN
    BY DEF Tidy, ConsoleShapes, Opens
  <2> QED
    BY <1>1, <1>2, <1>3, <2>1, <2>2 DEF Tidy, ConsoleShapes, Rest, Opens, C!Nothing
<1> QED
  BY <1>3, <1>5, <1>6, <1>7 DEF Tidy

\* Nothing the invariants speak of moves, but subjects that others change.
Stands ==
  /\ \A k \in C!Keys : subjects'[k].ver >= subjects[k].ver
  /\ UNCHANGED <<page, key, shown, calls, issued, busy, newest, strayed, own>>

\* The steps of a console, by what they do.
Moves ==
  \/ Stands
  \/ C!Enter
  \/ \E gone \in SUBSET calls : Reselects(gone)
  \/ C!ChangeClient
  \/ \E kind : Sends(kind)
  \/ \E c \in calls, d \in Calls : Served(c, d)
  \/ Rest /\ \E c \in calls : Drops(c) \/ Empties(c) \/ \E kind : Follows(c, kind)
  \/ Rest /\ Opens

\* Every step is one of these and leaves the console tidy.
LEMMA ConsoleStep ==
  ASSUME Tidy, [C!Next]_console
  PROVE  Tidy' /\ Moves
<1>1. CASE C!Enter
  BY <1>1, EnterTidy DEF Moves
<1>2. ASSUME NEW gone \in SUBSET calls, Reselects(gone) PROVE Tidy' /\ Moves
  BY <1>2, ReselectsTidy DEF Moves
<1>3. ASSUME NEW kind, Sends(kind) PROVE Tidy' /\ Moves
  BY <1>3, SendsTidy DEF Moves
<1>4. CASE C!FilterRuns \/ C!FilterQueue \/ C!RoutesOf \/ C!ChangeCycle
  <2>1. Reselects({}) /\ {} \in SUBSET calls
    BY <1>4, Clicks DEF Tidy
  <2> QED
    BY <1>2, <2>1
<1>5. CASE C!doReassign \/ C!doSplit \/ C!doAction \/ C!submitAssign \/ C!onGenerate \/ C!mutate \/ C!submitStaff
  <2>1. \E kind : Sends(kind)
    BY <1>5, Clicks DEF Tidy
  <2> QED
    BY <1>3, <2>1
<1>6. CASE C!ChangeClient
  BY <1>6, ClientTidy, ClientAlone DEF Moves
<1>7. CASE C!Serve
  BY <1>7, ServeServes, ServedTidy DEF Moves, Tidy
<1>8. CASE C!Others
  BY <1>8, OthersTidy DEF Moves, Stands
<1>9. CASE C!Arrive \/ C!Fail
  <2> PICK c \in calls, end \in {"answered", "refused", "failed"} : Comes(c, end)
    BY <1>9, SomeoneComes DEF Tidy
  <2>1. Rest /\ (Drops(c) \/ (\E kind : Follows(c, kind)) \/ Reselects({c}) \/ Empties(c) \/ Opens)
    BY ComesHow
  <2>2. CASE Drops(c)
    BY <2>1, <2>2, DropsTidy DEF Moves
  <2>3. CASE \E kind : Follows(c, kind)
    BY <2>1, <2>3, FollowsTidy DEF Moves
  <2>4. CASE Reselects({c})
    BY <1>2, <2>4
  <2>5. CASE Opens
    BY <2>1, <2>5, OpensTidy DEF Moves
  <2>6. CASE Empties(c)
    BY <2>1, <2>6, EmptiesTidy DEF Moves
  <2> QED
    BY <2>1, <2>2, <2>3, <2>4, <2>5, <2>6
<1>10. CASE C!Pick \/ UNCHANGED console
  <2>1. UNCHANGED <<page, subjects, key, shown, calls, issued, busy, adding, loadError, clicks,
                    changes, newest, strayed, own>>
    BY <1>10 DEF C!Pick, console
  <2>2. picked' \in Clients \cup {"none"}
    <3>1. CASE C!Pick
      <4>1. shown \in [key : C!Keys, ver : Nat, open : BOOLEAN, n : 1..newest] /\ picked' = shown.key.client
        BY <3>1 DEF C!Pick, C!IsShown, Tidy, ConsoleShapes
      <4> QED
        BY <4>1 DEF C!Keys
    <3>2. CASE UNCHANGED console
      BY <3>2 DEF console, Tidy, ConsoleShapes
    <3> QED
      BY <1>10, <3>1, <3>2
  <2>3. ConsoleShapes'
    BY <2>1, <2>2 DEF Tidy, ConsoleShapes, C!Nothing
  <2>4. Numbered' /\ OnePage' /\ OneWait' /\ Answers' /\ Counted'
    BY <2>1 DEF Tidy, Numbered, OnePage, OneWait, Answers, Counted, Pending
  <2>5. Stands
    <3>1. \A k \in C!Keys : subjects[k].ver \in Nat
      BY DEF Tidy, ConsoleShapes
    <3> QED
      BY <2>1, <3>1 DEF Stands
  <2> QED
    BY <2>3, <2>4, <2>5 DEF Tidy, Moves
<1> QED
  BY <1>1, <1>4, <1>5, <1>6, <1>7, <1>8, <1>9, <1>10 DEF C!Next

\* A request is numbered after everything that was asked or shown before.
LEMMA NumbersBefore ==
  ASSUME Tidy
  PROVE  /\ issued \in Nat /\ newest \in Nat /\ newest <= issued
         /\ \A c \in calls : c.n \in 1..issued /\ c.kind \in Makes[page]
         /\ C!IsShown => shown.n \in 1..issued
         /\ page \in DOMAIN Makes
<1>1. C!IsShown => shown.n \in 1..newest
  BY ShownTyped DEF Tidy
<1> QED
  BY <1>1 DEF Tidy, ConsoleShapes, Calls, Numbered, OnePage

\* A page goes on resting on its selection, if it was not moved under a button.
LEMMA SelectedKept ==
  ASSUME Tidy, Selected, Moves, Tidy'
  PROVE  Selected'
<1> SUFFICES ASSUME page' # "none", ~strayed'
             PROVE  /\ \A c \in calls' : c.kind = "generate" => c.key = key'
                    /\ key'.cycle # NoCycle =>
                         \E m \in 1..issued' :
                           /\ \A c \in calls' : c.n >= m => c.key = key'
                           /\ C!IsShown' /\ shown'.n >= m => shown'.key = key'
                           /\ Since(m)'
  BY DEF Selected
<1> DEFINE Goal ==
             /\ \A c \in calls' : c.kind = "generate" => c.key = key'
             /\ key'.cycle # NoCycle =>
                  \E m \in 1..issued' :
                    /\ \A c \in calls' : c.n >= m => c.key = key'
                    /\ C!IsShown' /\ shown'.n >= m => shown'.key = key'
                    /\ Since(m)'
<1>0. /\ issued \in Nat /\ newest \in Nat /\ newest <= issued
      /\ \A c \in calls : c.n \in 1..issued /\ c.kind \in Makes[page]
      /\ C!IsShown => shown.n \in 1..issued
      /\ page \in DOMAIN Makes
  BY NumbersBefore
<1>1. CASE Stands
  <2>1. page # "none" /\ ~strayed
    BY <1>1 DEF Stands
  <2> QED
    BY <1>1, <2>1 DEF Stands, Selected, Since, C!IsShown, C!Nothing
<1>2. CASE C!Enter
  <2>1. calls = {} /\ issued = 0
    BY <1>0, <1>2, PageKinds DEF Tidy, OnePage, C!Enter
  <2>2. Home \in C!Keys /\ "load" \in Changes \cup Loads \cup {"cycles"}
    BY ShownTyped DEF Tidy, Loads
  <2>3. Asks(calls, "load", Home) /\ key = Home /\ key' = Home /\ issued' = 1 /\ shown' = C!Nothing
    <3>1. calls' = {C!Ask("load", Home, 1)} /\ issued' = 1 /\ UNCHANGED <<key, shown>>
      BY <1>2 DEF C!Enter
    <3>2. 0 + 1 = 1
      OBVIOUS
    <3> QED
      BY <1>2, <2>1, <3>1, <3>2 DEF Asks, Tidy, OnePage, C!Enter
  <2>4. \A c \in calls' : c.n = 1 /\ c.key = Home /\ c.kind = "load"
    BY <2>1, <2>2, <2>3, AskedCalls DEF Tidy
  <2>5. \E c \in calls' : c.n = 1 /\ c.kind \in Loads
    BY <2>3, <2>4 DEF Asks, Loads
  <2> QED
    BY <2>3, <2>4, <2>5 DEF Since, C!IsShown, C!Nothing
<1>3. ASSUME NEW gone \in SUBSET calls, Reselects(gone) PROVE Goal
  <2>1. "load" \in Changes \cup Loads \cup {"cycles"} /\ "load" \in Loads
    BY DEF Loads
  <2>2. key' \in C!Keys /\ Asks(gone, "load", key') /\ issued' = issued + 1
    BY <1>3 DEF Reselects, Asks
  <2>3. \A c \in calls' :
          \/ c \in calls /\ c \notin gone /\ c.n \in Nat
          \/ c.n = issued + 1 /\ c.key = key' /\ c.kind = "load" /\ c.at = "asked"
    BY <2>1, <2>2, AskedCalls DEF Tidy
  <2>4. \A c \in calls : c.kind # "generate"
    <3> SUFFICES ASSUME NEW c \in calls, c.kind = "generate" PROVE FALSE
      OBVIOUS
    <3>1. page = "exports" /\ busy
      BY <1>0, PageKinds DEF Tidy, OneWait, Waited
    <3> QED
      BY <1>3, <3>1 DEF Reselects
  <2>5. \E c \in calls' : c.n = issued + 1 /\ c.kind \in Loads
    <3>1. C!Ask("load", key', issued + 1) \in calls'
      BY <2>2 DEF Asks
    <3>2. C!Ask("load", key', issued + 1).n = issued + 1 /\ C!Ask("load", key', issued + 1).kind = "load"
      BY <1>0, <2>1, <2>2, AskTyped DEF Tidy
    <3> QED
      BY <2>1, <3>1, <3>2
  <2>6. \A c \in calls' : c.n >= issued + 1 => c.key = key'
    BY <1>0, <2>3
  <2>7. ~(C!IsShown' /\ shown'.n >= issued + 1)
    BY <1>0, <1>3 DEF Reselects, C!IsShown, C!Nothing
  <2>8. issued + 1 \in 1..issued'
    BY <1>0, <2>2
  <2> QED
    BY <2>3, <2>4, <2>5, <2>6, <2>7, <2>8 DEF Since
<1>7. CASE \/ C!ChangeClient /\ key.cycle = NoCycle
           \/ \E c \in calls : Empties(c)
  <2>1. key'.cycle = NoCycle /\ strayed' = (strayed \/ busy)
    BY <1>7, ClientAlone DEF Empties
  <2>2. \A c \in calls : c.kind # "generate"
    <3> SUFFICES ASSUME NEW c \in calls, c.kind = "generate" PROVE FALSE
      OBVIOUS
    <3>1. busy
      BY DEF Tidy, OneWait, Waited
    <3> QED
      BY <2>1, <3>1
  <2>3. \A c \in calls' : c \in calls \/ c.kind = "cycles"
    <3>1. CASE C!ChangeClient /\ key.cycle = NoCycle
      <4>1. \A b \in Clients : [key EXCEPT !.client = b].cycle = NoCycle
        BY <3>1 DEF Tidy, ConsoleShapes, C!Keys
      <4>2. \E k \in C!Keys : calls' = calls \cup {C!Ask("cycles", k, issued + 1)}
        BY <3>1, <4>1 DEF C!ChangeClient, Tidy, ConsoleShapes, C!Keys
      <4> QED
        BY <4>2 DEF C!Ask
    <3>2. CASE \E c \in calls : Empties(c)
      BY <3>2 DEF Empties
    <3> QED
      BY <1>7, <3>1, <3>2
  <2> QED
    BY <2>1, <2>2, <2>3
<1>4. CASE C!ChangeClient /\ key.cycle # NoCycle
  <2>1. /\ key' \in C!Keys /\ shown' = C!Nothing /\ issued' = issued + 2
        /\ strayed' = (strayed \/ busy)
        /\ \A d \in calls' :
             \/ d \in calls
             \/ d.n = issued + 1 /\ d.kind = "cycles" /\ d.at = "asked" /\ d.key = key'
             \/ d.n = issued + 2 /\ d.kind = "load" /\ d.at = "asked" /\ d.key = key'
        /\ \E d \in calls' : d.n = issued + 2 /\ d.kind = "load"
    BY <1>4, ClientTidy
  <2>2. \A c \in calls : c.kind # "generate"
    <3> SUFFICES ASSUME NEW c \in calls, c.kind = "generate" PROVE FALSE
      OBVIOUS
    <3>1. busy
      BY DEF Tidy, OneWait, Waited
    <3> QED
      BY <2>1, <3>1
  <2>3. ~C!IsShown'
    BY <2>1 DEF C!IsShown, C!Nothing
  <2>4. \A c \in calls' : c.n >= issued + 2 => c.key = key'
    BY <1>0, <2>1
  <2>5. \E c \in calls' : c.n = issued + 2 /\ c.kind \in Loads
    BY <2>1 DEF Loads
  <2>6. issued + 2 \in 1..issued'
    BY <1>0, <2>1
  <2> QED
    BY <2>1, <2>2, <2>3, <2>4, <2>5, <2>6 DEF Since
<1>10. CASE \/ \E kind : Sends(kind)
            \/ \E c \in calls : \/ \E d \in Calls : Served(c, d)
                               \/ Drops(c)
                               \/ \E kind : Follows(c, kind)
  <2>0. page # "none" /\ ~strayed
    <3>1. CASE \E kind : Sends(kind)
      BY <1>0, <3>1, PageKinds DEF Sends
    <3>2. CASE \E c \in calls : (\E d \in Calls : Served(c, d)) \/ Drops(c) \/ \E kind : Follows(c, kind)
      BY <1>0, <3>2, PageKinds DEF Served, Drops, Follows
    <3> QED
      BY <1>10, <3>1, <3>2
  <2>1. \A c \in calls : c.kind = "generate" => c.key = key
    BY <2>0 DEF Selected
  <2>7. CASE key.cycle = NoCycle
    <3>1. ASSUME NEW kind, Sends(kind) PROVE \A c \in calls' : c \in calls \/ c.key = key
      <4>1. key \in C!Keys /\ kind \in Changes \cup Loads \cup {"cycles"} /\ Asks({}, kind, key)
        BY <3>1 DEF Sends, Tidy, ConsoleShapes
      <4>2. \A c \in calls' :
              \/ c \in calls /\ c \notin {} /\ c.n \in Nat
              \/ c.n = issued + 1 /\ c.key = key /\ c.kind = kind /\ c.at = "asked"
        BY <4>1, AskedCalls DEF Tidy
      <4> QED
        BY <4>2
    <3>2. ASSUME NEW c \in calls, NEW d \in Calls, Served(c, d)
          PROVE  \A e \in calls' : e.kind = "generate" => e.key = key
      BY <2>1, <3>2 DEF Served
    <3>3. ASSUME NEW c \in calls, Drops(c) PROVE \A e \in calls' : e \in calls
      BY <3>3 DEF Drops
    <3>4. ASSUME NEW c \in calls, NEW kind, Follows(c, kind)
          PROVE  \A e \in calls' : e \in calls \/ e.kind # "generate"
      <4>1. c.key \in C!Keys /\ Asks({c}, kind, c.key) /\ kind \in Loads
        BY <3>4 DEF Follows, Tidy, ConsoleShapes, Calls
      <4>2. \A e \in calls' :
              \/ e \in calls /\ e \notin {c} /\ e.n \in Nat
              \/ e.n = issued + 1 /\ e.key = c.key /\ e.kind = kind /\ e.at = "asked"
        BY <4>1, AskedCalls DEF Tidy
      <4> QED
        BY <4>1, <4>2 DEF Loads
    <3>5. key' = key
      BY <1>10 DEF Sends, Served, Drops, Follows
    <3> QED
      BY <1>10, <2>1, <2>7, <3>1, <3>2, <3>3, <3>4, <3>5
  <2> SUFFICES ASSUME key.cycle # NoCycle PROVE Goal
    BY <2>7
  <2> PICK m \in 1..issued :
        /\ \A c \in calls : c.n >= m => c.key = key
        /\ C!IsShown /\ shown.n >= m => shown.key = key
        /\ Since(m)
    BY <2>0 DEF Selected
  <2>2. m \in Nat /\ m \in 1..issued
    BY <1>0
  <2>3. ASSUME NEW kind, Sends(kind) PROVE Goal
    <3>1. key' = key /\ shown' = shown /\ newest' = newest /\ Asks({}, kind, key) /\ issued' = issued + 1
          /\ kind \in Changes /\ key \in C!Keys
      BY <2>3 DEF Sends, Asks, Tidy, ConsoleShapes
    <3>2. \A c \in calls' :
            \/ c \in calls /\ c \notin {} /\ c.n \in Nat
            \/ c.n = issued + 1 /\ c.key = key /\ c.kind = kind /\ c.at = "asked"
      BY <3>1, AskedCalls DEF Tidy
    <3>3. Since(m)'
      BY <3>1 DEF Since, Asks
    <3>4. m \in 1..issued'
      BY <1>0, <2>2, <3>1
    <3> QED
      BY <2>1, <3>1, <3>2, <3>3, <3>4 DEF C!IsShown, C!Nothing
  <2>4. ASSUME NEW c \in calls, NEW d \in Calls, Served(c, d) PROVE Goal
    <3>1. UNCHANGED <<key, shown, issued, newest>> /\ calls' = (calls \ {c}) \cup {d}
          /\ d.n = c.n /\ d.key = c.key /\ d.kind = c.kind
      BY <2>4 DEF Served
    <3>2. Since(m)'
      BY <3>1 DEF Since
    <3> QED
      BY <2>1, <2>2, <3>1, <3>2 DEF C!IsShown, C!Nothing
  <2>5. ASSUME NEW c \in calls, Drops(c) PROVE Goal
    <3>1. UNCHANGED <<key, issued>> /\ calls' = calls \ {c} /\ c.n \in Nat
      BY <1>0, <2>5 DEF Drops
    <3>2. newest' \in Nat /\ newest' >= newest /\ (c.kind \in Loads => newest' >= c.n)
      BY <1>0, <2>5, <3>1 DEF Drops, Shows, Later
    <3>3. Since(m)'
      <4>1. CASE newest >= m
        BY <1>0, <2>2, <3>2, <4>1 DEF Since
      <4>2. CASE \E e \in calls : e.n = m /\ e.kind \in Loads
        BY <2>2, <3>1, <3>2, <4>2 DEF Since
      <4> QED
        BY <4>1, <4>2 DEF Since
    <3>4. C!IsShown' /\ shown'.n >= m => shown'.key = key
      BY <2>5 DEF Drops, Shows, C!IsShown, C!Nothing
    <3> QED
      BY <2>1, <2>2, <3>1, <3>3, <3>4
  <2>6. ASSUME NEW c \in calls, NEW kind, Follows(c, kind) PROVE Goal
    <3>1. key' = key /\ shown' = shown /\ newest' = newest /\ Asks({c}, kind, c.key) /\ issued' = issued + 1
          /\ kind \in Loads /\ c.key \in C!Keys
      BY <2>6 DEF Follows, Asks, Tidy, ConsoleShapes, Calls
    <3>2. \A e \in calls' :
            \/ e \in calls /\ e \notin {c} /\ e.n \in Nat
            \/ e.n = issued + 1 /\ e.key = c.key /\ e.kind = kind /\ e.at = "asked"
      BY <3>1, AskedCalls DEF Tidy
    <3>3. c.key = key
      BY <2>1, <2>6 DEF Follows, Tidy, OnePage
    <3>4. Since(m)'
      BY <2>6, <3>1 DEF Since, Asks, Follows
    <3>5. kind # "generate"
      BY <3>1 DEF Loads
    <3>6. m \in 1..issued'
      BY <1>0, <2>2, <3>1
    <3> QED
      BY <2>1, <3>1, <3>2, <3>3, <3>4, <3>5, <3>6 DEF C!IsShown, C!Nothing
  <2> QED
    BY <2>3, <2>4, <2>5, <2>6, <1>10
<1>5. CASE Opens
  <2>1. "load" \in Changes \cup Loads \cup {"cycles"} /\ "load" \in Loads /\ Home \in C!Keys
    BY ShownTyped DEF Loads, Tidy
  <2>2. key' = Home /\ shown' = C!Nothing /\ issued' = issued + 1 /\ Asks(calls, "load", Home)
    BY <1>5 DEF Opens, Asks
  <2>3. \A c \in calls' : c.n = issued + 1 /\ c.key = Home /\ c.kind = "load"
    BY <2>1, <2>2, AskedCalls DEF Tidy
  <2>4. \E c \in calls' : c.n = issued + 1 /\ c.kind \in Loads
    BY <2>1, <2>2, <2>3 DEF Asks
  <2>5. issued + 1 \in 1..issued' /\ ~C!IsShown'
    BY <1>0, <2>2 DEF C!IsShown, C!Nothing
  <2> QED
    BY <2>2, <2>3, <2>4, <2>5 DEF Since
<1> QED
  BY <1>1, <1>2, <1>3, <1>4, <1>5, <1>7, <1>10 DEF Moves

\* The person's own change stays caught.
LEMMA CaughtKept ==
  ASSUME Tidy, Caught, Moves, Tidy'
  PROVE  Caught'
<1> DEFINE OwnCall(e, v) == e.kind \in {"reassign", "split", "mutate"} /\ e.at = "answered" /\ e.ver >= v
           AskedSince(m) == /\ \A c \in calls : c.n >= m /\ c.at # "asked" => c.ver >= own
                            /\ C!IsShown /\ shown.n >= m => shown.ver >= own
                            /\ Since(m)
           Goal == /\ own' <= subjects'[Home].ver
                   /\ \A c \in calls' : c.kind \in {"reassign", "split"} => c.n = issued'
                   /\ \/ own' = 0
                      \/ \E e \in calls' : OwnCall(e, own')
                      \/ \E m \in 1..issued' : AskedSince(m)'
<1> SUFFICES ASSUME page' \in {"run", "staff"} PROVE Goal
  BY DEF Caught
<1>0. /\ issued \in Nat /\ newest \in Nat /\ newest <= issued
      /\ \A c \in calls : c.n \in 1..issued /\ c.kind \in Makes[page]
      /\ C!IsShown => shown.n \in 1..issued
      /\ page \in DOMAIN Makes
  BY NumbersBefore
<1>11. /\ Home \in C!Keys /\ subjects[Home].ver \in Nat /\ subjects'[Home].ver \in Nat /\ own \in Nat
       /\ \A c \in calls : c.ver \in Nat
  BY ShownTyped DEF Tidy, ConsoleShapes, Calls
<1>1. CASE Stands
  BY <1>1, <1>11 DEF Stands, Caught, Since, C!IsShown, C!Nothing
<1>2. CASE C!Enter
  <2>1. own' = 0
    BY <1>2 DEF Tidy, OnePage, C!Enter
  <2>2. calls' = {C!Ask("load", Home, 1)} /\ C!Ask("load", Home, 1).kind = "load"
    BY <1>2 DEF C!Enter, C!Ask
  <2> QED
    BY <1>11, <2>1, <2>2
<1>3. CASE Opens
  <2>1. own' = 0 /\ Asks(calls, "load", Home) /\ "load" \in Changes \cup Loads \cup {"cycles"}
    BY <1>3 DEF Opens, Loads
  <2>2. \A c \in calls' : c.kind = "load"
    BY <1>11, <2>1, AskedCalls DEF Tidy
  <2> QED
    BY <1>11, <2>1, <2>2
<1>4. CASE \/ C!ChangeClient
           \/ \E gone \in SUBSET calls : Reselects(gone)
           \/ \E c \in calls : Empties(c)
  <2>1. page \in C!Lists \cup {"exports", "assign"} /\ page' = page
    BY <1>4 DEF C!ChangeClient, Reselects, Empties
  <2> QED
    BY <2>1 DEF C!Lists
<1>5. CASE \/ \E kind : Sends(kind)
           \/ \E c \in calls : \/ \E d \in Calls : Served(c, d)
                               \/ Drops(c) /\ Rest
                               \/ Rest /\ \E kind : Follows(c, kind)
  <2>0. page' = page /\ page \in {"run", "staff"} /\ page \in C!Fixed /\ key = Home
        /\ \A c \in calls : c.key = Home
    <3>1. page' = page
      BY <1>5 DEF Sends, Served, Drops, Follows
    <3> QED
      BY <3>1 DEF C!Fixed, Tidy, OnePage
  <2>1. /\ own <= subjects[Home].ver
        /\ \A c \in calls : c.kind \in {"reassign", "split"} => c.n = issued /\ page = "run"
        /\ \/ own = 0
           \/ \E e \in calls : OwnCall(e, own)
           \/ \E m \in 1..issued : AskedSince(m)
    BY <1>0, <2>0, PageKinds DEF Caught
  <2>2. /\ page = "run" => Makes[page] \subseteq {"load", "reassign", "split"}
        /\ page = "staff" => Makes[page] \subseteq {"load", "mutate", "reload", "create", "listed"}
    BY <1>0, PageKinds
  <2>3. ASSUME NEW kind, Sends(kind) PROVE Goal
    <3>1. /\ UNCHANGED <<shown, newest, own, subjects>> /\ Asks({}, kind, key) /\ issued' = issued + 1
          /\ kind \in Changes /\ key \in C!Keys /\ calls \subseteq calls'
      BY <2>3 DEF Sends, Asks, Tidy, ConsoleShapes
    <3>2. \A c \in calls' :
            \/ c \in calls /\ c \notin {} /\ c.n \in Nat
            \/ c.n = issued + 1 /\ c.key = key /\ c.kind = kind /\ c.at = "asked"
      BY <3>1, AskedCalls DEF Tidy
    <3>3. \A c \in calls : c.kind \notin {"reassign", "split"}
      <4> SUFFICES ASSUME NEW c \in calls, c.kind \in {"reassign", "split"} PROVE FALSE
        OBVIOUS
      <4>1. page = "run" /\ busy
        BY <2>1 DEF Tidy, OneWait, Waited
      <4>2. kind \in Waited
        BY <2>2, <2>3, <4>1 DEF Sends, Changes, Waited
      <4> QED
        BY <2>3, <4>1, <4>2 DEF Sends
    <3>4. ASSUME NEW m \in 1..issued, AskedSince(m) PROVE AskedSince(m)' /\ m \in 1..issued'
      <4>1. Since(m)'
        BY <3>1, <3>4 DEF Since
      <4>2. m \in 1..issued'
        BY <1>0, <3>1
      <4> QED
        BY <3>1, <3>2, <3>4, <4>1, <4>2 DEF C!IsShown, C!Nothing
    <3>5. \A c \in calls' : c.kind \in {"reassign", "split"} => c.n = issued'
      BY <3>1, <3>2, <3>3
    <3> QED
      BY <2>1, <3>1, <3>4, <3>5
  <2>4. ASSUME NEW c \in calls, NEW d \in Calls, Served(c, d) PROVE Goal
    <3>1. UNCHANGED <<key, shown, issued, newest>> /\ calls' = (calls \ {c}) \cup {d} /\ c.at = "asked"
          /\ d.n = c.n /\ d.key = Home /\ d.kind = c.kind /\ d \in calls' /\ c.n \in 1..issued
          /\ d.ver \in Nat
      BY <1>0, <2>0, <2>4 DEF Served, Calls
    <3>2. /\ subjects'[Home].ver >= subjects[Home].ver
          /\ d.ver <= subjects'[Home].ver /\ d.ver >= subjects[Home].ver
      BY <1>11, <2>0, <2>4 DEF Served
    <3>3. \A e \in calls' : e.kind \in {"reassign", "split"} => e.n = issued'
      BY <2>1, <3>1
    <3>4. CASE own' = own
      <4>1. own' <= subjects'[Home].ver /\ d.ver >= own
        BY <1>11, <2>1, <3>1, <3>2, <3>4
      <4>2. ASSUME NEW m \in 1..issued, AskedSince(m) PROVE AskedSince(m)'
        <5>1. Since(m)'
          BY <3>1, <4>2 DEF Since
        <5> QED
          BY <3>1, <3>4, <4>1, <4>2, <5>1 DEF C!IsShown, C!Nothing
      <4>3. ASSUME NEW e \in calls, OwnCall(e, own) PROVE e \in calls' /\ OwnCall(e, own')
        BY <3>1, <3>4, <4>3
      <4> QED
        BY <2>1, <3>1, <3>3, <3>4, <4>1, <4>2, <4>3
    <3>5. CASE own' # own
      <4>1. own' = d.ver /\ d.at = "answered" /\ d.kind \in Changes \ {"create"} /\ d.kind \in Makes[page]
        BY <1>0, <2>4, <3>1, <3>5 DEF Served
      <4>2. d.kind \in {"reassign", "split", "mutate"}
        BY <2>0, <2>2, <4>1 DEF Changes
      <4>3. OwnCall(d, own')
        BY <3>1, <4>1, <4>2
      <4> QED
        BY <3>1, <3>2, <3>3, <4>1, <4>3
    <3> QED
      BY <3>4, <3>5
  <2>5. ASSUME NEW c \in calls, Drops(c), Rest PROVE Goal
    <3>1. UNCHANGED <<key, issued, own, subjects>> /\ calls' = calls \ {c} /\ c.n \in Nat /\ c.n \in 1..issued
      BY <1>0, <2>0, <2>5 DEF Drops, Rest
    <3>2. newest' \in Nat /\ newest' >= newest /\ (c.kind \in Loads => newest' >= c.n)
      BY <1>0, <2>5, <3>1 DEF Drops, Shows, Later
    <3>3. \A e \in calls' : e.kind \in {"reassign", "split"} => e.n = issued'
      BY <2>1, <3>1
    <3>4. ASSUME NEW m \in 1..issued, AskedSince(m) PROVE AskedSince(m)'
      <4>0. m \in Nat
        BY <1>0
      <4>1. Since(m)'
        <5>1. CASE newest >= m
          BY <1>0, <4>0, <3>2, <5>1 DEF Since
        <5>2. CASE \E e \in calls : e.n = m /\ e.kind \in Loads
          BY <4>0, <3>1, <3>2, <5>2 DEF Since
        <5> QED
          BY <3>4, <5>1, <5>2 DEF Since
      <4>2. C!IsShown' /\ shown'.n >= m => shown'.ver >= own
        BY <2>5, <3>4 DEF Drops, Shows, C!IsShown, C!Nothing
      <4> QED
        BY <3>1, <3>4, <4>1, <4>2
    <3>5. ASSUME NEW e \in calls, OwnCall(e, own)
          PROVE  (\E f \in calls' : OwnCall(f, own')) \/ \E m \in 1..issued' : AskedSince(m)'
      <4>1. CASE e # c
        BY <3>1, <3>5, <4>1
      <4>2. CASE e = c
        <5>1. c.kind \in {"reassign", "split"} /\ Shows(c) /\ c.n = issued
          BY <2>1, <2>5, <3>5, <4>2 DEF Drops
        <5>2. \A d \in calls' : ~(d.n >= c.n)
          BY <1>0, <3>1, <5>1 DEF Tidy, Numbered
        <5>3. shown'.ver >= own /\ newest' >= c.n
          BY <1>0, <3>5, <4>2, <5>1 DEF Shows, Later
        <5>4. AskedSince(c.n)' /\ c.n \in 1..issued'
          BY <3>1, <5>2, <5>3 DEF Since
        <5> QED
          BY <5>4
      <4> QED
        BY <4>1, <4>2
    <3> QED
      BY <2>1, <3>1, <3>3, <3>4, <3>5
  <2>6. ASSUME NEW c \in calls, NEW kind, Follows(c, kind), Rest PROVE Goal
    <3>1. /\ UNCHANGED <<shown, newest, subjects>> /\ Asks({c}, kind, c.key) /\ issued' = issued + 1
          /\ kind \in Loads /\ c.key \in C!Keys /\ c.key = Home /\ c.ver \in Nat
      BY <2>0, <2>6 DEF Follows, Rest, Asks, Tidy, ConsoleShapes, Calls
    <3>2. \A e \in calls' :
            \/ e \in calls /\ e \notin {c} /\ e.n \in Nat
            \/ e.n = issued + 1 /\ e.key = c.key /\ e.kind = kind /\ e.at = "asked"
      BY <3>1, AskedCalls DEF Tidy
    <3>3. own' <= subjects'[Home].ver
      BY <1>11, <2>1, <2>6, <3>1 DEF Follows, Tidy, Answers
    <3>4. \A e \in calls' : e.kind \notin {"reassign", "split"}
      <4> SUFFICES ASSUME NEW e \in calls, e # c, e.kind \in {"reassign", "split"} PROVE FALSE
        BY <3>1, <3>2 DEF Loads
      <4>1. c.kind \in {"reassign", "split"}
        BY <1>0, <2>1, <2>2, <2>6 DEF Follows, Loads
      <4> QED
        BY <4>1 DEF Tidy, OneWait, Waited
    <3>5. \E e \in calls' : e.n = issued + 1 /\ e.kind \in Loads
      <4>1. C!Ask(kind, c.key, issued + 1) \in calls'
        BY <3>1 DEF Asks
      <4>2. C!Ask(kind, c.key, issued + 1).n = issued + 1 /\ C!Ask(kind, c.key, issued + 1).kind = kind
        BY <1>0, <3>1, AskTyped DEF Tidy
      <4> QED
        BY <3>1, <4>1, <4>2
    <3>6. PICK m \in 1..issued' : m = issued + 1
      BY <1>0, <3>1
    <3>7. AskedSince(m)'
      <4>1. ~(C!IsShown' /\ shown'.n >= m)
        BY <1>0, <3>1, <3>6 DEF C!IsShown, C!Nothing
      <4>2. \A e \in calls' : e.n >= m => e.at = "asked"
        BY <1>0, <3>2, <3>6
      <4>3. Since(m)'
        BY <3>5, <3>6 DEF Since
      <4> QED
        BY <4>1, <4>2, <4>3
    <3> QED
      BY <3>3, <3>4, <3>7
  <2> QED
    BY <1>5, <2>3, <2>4, <2>5, <2>6
<1> QED
  BY <1>1, <1>2, <1>3, <1>4, <1>5 DEF Moves

\* A console is tidy, on its selection and caught up from the start.
LEMMA ConsoleInit ==
  ASSUME C!Init
  PROVE  ConsoleInv
<1>1. /\ page = "none" /\ calls = {} /\ issued = 0 /\ newest = 0 /\ own = 0 /\ key = Home
      /\ shown = C!Nothing /\ clicks = 0 /\ changes = 0
      /\ {busy, adding, loadError, strayed} \subseteq BOOLEAN /\ picked = "none"
      /\ subjects = [k \in C!Keys |-> [ver |-> 0, open |-> TRUE]]
  BY DEF C!Init
<1>2. "none" \in DOMAIN Makes /\ Home \in C!Keys
  BY ScreensAssumption DEF Makes, C!Keys
<1>3. IsFiniteSet(calls)
  BY <1>1, FS_EmptySet
<1>4. subjects \in [C!Keys -> [ver : Nat, open : BOOLEAN]] /\ \A k \in C!Keys : subjects[k].ver = 0
  BY <1>1
<1>5. 0 \in 0..MaxClicks /\ 0 \in 0..MaxChanges
  BY ScreensAssumption
<1>6. ConsoleShapes
  BY <1>1, <1>2, <1>3, <1>4, <1>5 DEF ConsoleShapes
<1>7. Cardinality(Pending) = 0
  <2>1. Pending = {}
    BY <1>1 DEF Pending
  <2> QED
    BY <2>1, FS_EmptySet
<1>8. Counted
  BY <1>1, <1>4, <1>7 DEF Counted
<1> QED
  BY <1>1, <1>6, <1>8 DEF ConsoleInv, Tidy, Numbered, OnePage, OneWait, Answers, Selected, Caught

\* What a console keeps makes it typed, resting on its selection and showing the
\* person's own change.
LEMMA ConsoleHolds ==
  ASSUME ConsoleInv
  PROVE  C!TypeOK /\ C!RestsOnSelection /\ C!OwnChangeShown
<1>1. Tidy /\ ConsoleShapes /\ Selected /\ Caught
  BY DEF ConsoleInv, Tidy
<1>2. /\ issued \in Nat /\ newest \in Nat /\ newest <= issued
      /\ \A c \in calls : c.n \in 1..issued /\ c.kind \in Makes[page]
      /\ C!IsShown => shown.n \in 1..issued
      /\ page \in DOMAIN Makes
  BY <1>1, NumbersBefore
<1>3. subjects \in [C!Keys -> [ver : 0..C!MaxVer, open : BOOLEAN]]
  <2>1. \A k \in C!Keys : subjects[k] \in [ver : Nat, open : BOOLEAN] /\ subjects[k].ver + Cardinality(Pending) <= clicks + changes
    BY <1>1 DEF Tidy, ConsoleShapes, Counted
  <2>2. Cardinality(Pending) \in Nat
    BY <1>1, PendingFinite
  <2>3. clicks + changes <= C!MaxVer /\ clicks \in Nat /\ changes \in Nat /\ C!MaxVer \in Nat
    BY <1>1, ScreensAssumption DEF ConsoleShapes, C!MaxVer
  <2>4. \A k \in C!Keys : subjects[k].ver \in 0..C!MaxVer
    <3> TAKE k \in C!Keys
    <3>1. subjects[k].ver \in Nat /\ subjects[k].ver + Cardinality(Pending) <= clicks + changes
      BY <2>1
    <3> QED
      BY <2>2, <2>3, <3>1
  <2>5. \A k \in C!Keys : subjects[k] \in [ver : 0..C!MaxVer, open : BOOLEAN]
    BY <2>1, <2>4
  <2> QED
    BY <1>1, <2>5 DEF ConsoleShapes
<1>4. shown = C!Nothing \/ (shown.key \in C!Keys /\ shown.n \in 1..newest)
  BY <1>1 DEF ConsoleShapes
<1>5. C!TypeOK
  BY <1>1, <1>2, <1>3, <1>4 DEF C!TypeOK, Tidy, ConsoleShapes, Numbered
<1>6. C!RestsOnSelection
  <2> SUFFICES ASSUME C!Settled, ~strayed, key.cycle # NoCycle PROVE shown.key = key
    BY DEF C!RestsOnSelection
  <2>1. page # "none"
    BY <1>1 DEF Tidy, OnePage, C!Settled, C!IsShown
  <2> PICK m \in 1..issued : (C!IsShown /\ shown.n >= m => shown.key = key) /\ Since(m)
    BY <1>1, <2>1 DEF Selected
  <2> QED
    BY DEF Since, C!Settled
<1>7. C!OwnChangeShown
  <2> SUFFICES ASSUME C!Settled, page \in {"run", "staff"} PROVE shown.ver >= own
    BY DEF C!OwnChangeShown
  <2>1. shown.ver \in Nat
    BY <1>1, ShownTyped DEF C!Settled
  <2>2. CASE own = 0
    BY <2>1, <2>2
  <2>3. CASE \E m \in 1..issued : (C!IsShown /\ shown.n >= m => shown.ver >= own) /\ Since(m)
    BY <2>3 DEF Since, C!Settled
  <2> QED
    BY <1>1, <2>2, <2>3 DEF Caught, C!Settled
<1> QED
  BY <1>5, <1>6, <1>7

\* What a console keeps it keeps.
LEMMA ConsoleKept ==
  ASSUME ConsoleInv, [C!Next]_console
  PROVE  ConsoleInv'
BY ConsoleStep, SelectedKept, CaughtKept DEF ConsoleInv

-----------------------------------------------------------------------------
(* The tiles of a box.                                                     *)

\* A power of two is a number, and twice the one before: what the library knows of
\* the subsets of an interval.
LEMMA PowersOfTwo ==
  ASSUME NEW n \in Nat
  PROVE  2^n \in Nat \ {0} /\ 2^(n + 1) = 2 * 2^n
<1> DEFINE S == SUBSET (1..n)
           B == {X \cup {n + 1} : X \in S}
           f == [X \in S |-> X \cup {n + 1}]
<1>1. IsFiniteSet(1..n) /\ Cardinality(1..n) = n
  BY FS_Interval
<1>2. IsFiniteSet(1..n + 1) /\ Cardinality(1..n + 1) = n + 1
  BY FS_Interval
<1>3. IsFiniteSet(S) /\ Cardinality(S) = 2^n
  BY <1>1, FS_SUBSET
<1>4. Cardinality(SUBSET (1..n + 1)) = 2^(n + 1)
  BY <1>2, FS_SUBSET
<1>5. Cardinality(S) \in Nat /\ Cardinality(S) # 0
  <2>1. S # {}
    OBVIOUS
  <2> QED
    BY <1>3, <2>1, FS_CardinalityType, FS_EmptySet
<1>6. \A X \in S : n + 1 \notin X
  OBVIOUS
<1>7. f \in Bijection(S, B)
  <2>1. \A X, Y \in S : X \cup {n + 1} = Y \cup {n + 1} => X = Y
    BY <1>6
  <2>2. f \in [S -> B] /\ \A b \in B : \E X \in S : f[X] = b
    OBVIOUS
  <2>3. IsInjective(f)
    BY <2>1 DEF IsInjective
  <2> HIDE DEF f
  <2> QED
    BY <2>2, <2>3 DEF Bijection, Injection, Surjection
<1>8. IsFiniteSet(B) /\ Cardinality(B) = Cardinality(S)
  BY <1>3, <1>7, FS_Bijection DEF ExistsBijection
<1>9. S \cap B = {}
  BY <1>6
<1>10. SUBSET (1..n + 1) = S \cup B
  <2>1. 1..n + 1 = (1..n) \cup {n + 1}
    OBVIOUS
  <2>2. ASSUME NEW X \in SUBSET (1..n + 1) PROVE X \in S \cup B
    <3>1. CASE n + 1 \notin X
      BY <2>1, <3>1
    <3>2. CASE n + 1 \in X
      <4>1. X \ {n + 1} \in S /\ X = (X \ {n + 1}) \cup {n + 1}
        BY <2>1, <3>2
      <4> QED
        BY <4>1
    <3> QED
      BY <3>1, <3>2
  <2>3. S \cup B \subseteq SUBSET (1..n + 1)
    BY <2>1
  <2> QED
    BY <2>2, <2>3
<1>11. Cardinality(S \cup B) = Cardinality(S) + Cardinality(B) - Cardinality(S \cap B)
  BY <1>3, <1>8, FS_Union, Zenon
<1>12. Cardinality(S \cap B) = 0
  BY <1>9, FS_EmptySet, Zenon
<1>13. 2^(n + 1) = 2^n + 2^n - 0
  BY <1>3, <1>4, <1>8, <1>10, <1>11, <1>12, Zenon
<1> QED
  BY <1>3, <1>5, <1>13

\* Cardinality is the same operator in both modules.
LEMMA SameCardinality == \A S : M!Cardinality(S) = Cardinality(S)
BY DEF M!Cardinality, Cardinality

\* The least and the greatest of two numbers.
LEMMA OfTwo ==
  ASSUME NEW a \in Int, NEW b \in Int
  PROVE  /\ M!Max({a, b}) \in {a, b} /\ M!Max({a, b}) >= a /\ M!Max({a, b}) >= b
         /\ M!Min({a, b}) \in {a, b} /\ M!Min({a, b}) <= a /\ M!Min({a, b}) <= b
BY DEF M!Max, M!Min

\* A set of naturals has a least element, and a bounded one a greatest.
LEMMA Extremes ==
  ASSUME NEW S \in SUBSET Nat, S # {}, NEW n \in Nat, \A x \in S : x <= n
  PROVE  M!Min(S) \in S /\ M!Max(S) \in S /\ \A x \in S : M!Max(S) >= x
<1>1. ASSUME NEW T \in SUBSET Nat, T # {}
      PROVE  \E low \in T : \A y \in T : low <= y
  <2>1. PICK low \in T : \A y \in T : ~(<<y, low>> \in OpToRel(<, Nat))
    BY <1>1, WFMin, NatLessThanWellFounded
  <2>2. ASSUME NEW y \in T PROVE low <= y
    <3>1. ~(y < low)
      BY <2>1 DEF OpToRel
    <3> QED
      BY <3>1
  <2> QED
    BY <2>2
<1>2. M!Min(S) \in S
  BY <1>1 DEF M!Min
<1>3. \E top \in S : \A y \in S : top >= y
  <2> DEFINE T == {n - x : x \in S}
  <2>1. T \in SUBSET Nat /\ T # {}
    <3>1. \A x \in S : n - x \in Nat
      OBVIOUS
    <3> QED
      BY <3>1
  <2>2. PICK low \in T : \A y \in T : low <= y
    BY <1>1, <2>1
  <2>3. PICK top \in S : low = n - top
    OBVIOUS
  <2>4. ASSUME NEW y \in S PROVE top >= y
    <3>1. low <= n - y
      BY <2>2
    <3> QED
      BY <2>3, <3>1
  <2> QED
    BY <2>4
<1> QED
  BY <1>2, <1>3 DEF M!Max

World == 0..2^GRID - 1
Boxes == [minLng : Int, maxLng : Int, minLat : Int, maxLat : Int]
Cells == [z : Int, x : Int, y : Int]

\* The bounds of located stops are a box.
LEMMA BoundsAreABox ==
  ASSUME NEW points \in SUBSET [lng : World, lat : World], points # {}
  PROVE  M!boundsOf(points) \in Boxes
<1>1. GRID \in Nat /\ 2^GRID \in Nat \ {0}
  BY ScreensAssumption, PowersOfTwo DEF ScreensAssumption
<1> DEFINE Lngs == {p.lng : p \in points}
           Lats == {p.lat : p \in points}
           top == 2^GRID - 1
<1>2. top \in Nat /\ World \subseteq Nat /\ \A x \in World : x <= top
  BY <1>1 DEF World
<1>3. \A p \in points : p.lng \in World /\ p.lat \in World
  OBVIOUS
<1>4. Lngs \subseteq World /\ Lats \subseteq World /\ Lngs # {} /\ Lats # {}
  BY <1>3
<1> HIDE DEF top, Lngs, Lats
<1>5. M!Min(Lngs) \in Lngs /\ M!Max(Lngs) \in Lngs
  BY <1>2, <1>4, Extremes
<1>6. M!Min(Lats) \in Lats /\ M!Max(Lats) \in Lats
  BY <1>2, <1>4, Extremes
<1>7. Lngs \subseteq Int /\ Lats \subseteq Int
  BY <1>2, <1>4
<1>8. M!Min(Lngs) \in Int /\ M!Max(Lngs) \in Int /\ M!Min(Lats) \in Int /\ M!Max(Lats) \in Int
  BY <1>5, <1>6, <1>7, Zenon
<1> QED
  BY <1>8 DEF M!boundsOf, Boxes, Lngs, Lats

\* A padded box is a box.
LEMMA PaddedIsABox ==
  ASSUME NEW b \in Boxes, NEW den \in Nat \ {0}
  PROVE  M!padBBox(b, den) \in Boxes
<1>1. MIN_PAD \in Int /\ GRID \in Nat /\ 2^GRID \in Int
  BY ScreensAssumption, PowersOfTwo DEF ScreensAssumption
<1>2. b.minLng \in Int /\ b.maxLng \in Int /\ b.minLat \in Int /\ b.maxLat \in Int
  BY DEF Boxes
<1>3. \A span \in Int : M!Max({span \div den, MIN_PAD}) \in Int
  <2> TAKE span \in Int
  <2>1. span \div den \in Int
    OBVIOUS
  <2> QED
    BY <1>1, <2>1, OfTwo
<1> DEFINE lng == M!Max({(b.maxLng - b.minLng) \div den, MIN_PAD})
           lat == M!Max({(b.maxLat - b.minLat) \div den, MIN_PAD})
<1>4. lng \in Int /\ lat \in Int
  <2>1. b.maxLng - b.minLng \in Int /\ b.maxLat - b.minLat \in Int
    BY <1>2
  <2> QED
    BY <1>3, <2>1, Zenon
<1> HIDE DEF lng, lat
<1>5. M!Max({0, b.minLat - lat}) \in Int
  <2>1. b.minLat - lat \in Int /\ 0 \in Int
    BY <1>2, <1>4
  <2>2. M!Max({0, b.minLat - lat}) \in {0, b.minLat - lat}
    BY <2>1, OfTwo, Zenon
  <2> QED
    BY <2>1, <2>2, Zenon
<1>6. M!Min({2^GRID - 1, b.maxLat + lat}) \in Int
  <2>1. b.maxLat + lat \in Int /\ 2^GRID - 1 \in Int
    BY <1>1, <1>2, <1>4
  <2> QED
    BY <2>1, OfTwo
<1>7. b.minLng - lng \in Int /\ b.maxLng + lng \in Int
  BY <1>2, <1>4
<1> QED
  BY <1>5, <1>6, <1>7 DEF M!padBBox, Boxes, lng, lat

\* A tile's column or row is half of what it is a zoom closer.
LEMMA HalfATile ==
  ASSUME NEW c \in Int, NEW z \in 1..GRID
  PROVE  /\ M!ToTile(c, z) \in Int /\ M!ToTile(c, z - 1) \in Int
         /\ M!ToTile(c, z - 1) = M!ToTile(c, z) \div 2
<1>1. GRID \in Nat
  BY ScreensAssumption DEF ScreensAssumption
<1>2. GRID - z \in Nat /\ GRID - (z - 1) = (GRID - z) + 1
  BY <1>1
<1> DEFINE n == 2^(GRID - z)
<1>3. n \in Nat \ {0} /\ 2^(GRID - (z - 1)) = 2 * n
  BY <1>2, PowersOfTwo
<1>4. M!ToTile(c, z) = c \div n /\ M!ToTile(c, z - 1) = c \div (2 * n)
  BY <1>3 DEF M!ToTile
<1> HIDE DEF n
<1>5. c \div n \in Int /\ c \div (2 * n) \in Int /\ c \div (2 * n) = (c \div n) \div 2
  BY <1>3
<1> QED
  BY <1>4, <1>5

Within(i, low, high, z) ==
  0 <= i /\ M!ToTile(low, z) <= i /\ i <= 2^z - 1 /\ i <= M!ToTile(high, z)

IsTileOf(t, b, z) ==
  \E x, y \in Int : /\ t = [z |-> z, x |-> x, y |-> y]
                    /\ Within(x, b.minLng, b.maxLng, z) /\ Within(y, b.minLat, b.maxLat, z)

\* The tiles of a box at a zoom, and that they are finitely many.
LEMMA TilesOfABox ==
  ASSUME NEW b \in Boxes, NEW z \in 0..GRID
  PROVE  /\ IsFiniteSet(M!TilesAt(b, z)) /\ M!TilesAt(b, z) \subseteq Cells
         /\ \A t \in M!TilesAt(b, z) : t.z = z
         /\ \A t : t \in M!TilesAt(b, z) <=> IsTileOf(t, b, z)
<1> DEFINE From(c) == M!Max({0, M!ToTile(c, z)})
           To(c) == M!Min({2^z - 1, M!ToTile(c, z)})
           X == From(b.minLng)..To(b.maxLng)
           Y == From(b.minLat)..To(b.maxLat)
           f == [p \in X \X Y |-> [z |-> z, x |-> p[1], y |-> p[2]]]
<1>1. GRID \in Nat /\ z \in Nat /\ z \in Int /\ 2^z \in Int
  BY ScreensAssumption, PowersOfTwo DEF ScreensAssumption
<1>2. M!TilesAt(b, z) = {[z |-> z, x |-> x, y |-> y] : x \in X, y \in Y}
  BY DEF M!TilesAt
<1>3. \A c \in Int : M!ToTile(c, z) \in Int
  <2> TAKE c \in Int
  <2>1. GRID - z \in Nat
    BY <1>1
  <2>2. 2^(GRID - z) \in Nat \ {0}
    BY <2>1, PowersOfTwo
  <2> QED
    BY <2>2 DEF M!ToTile
<1>4. ASSUME NEW c \in Int
      PROVE  /\ From(c) \in Int /\ \A i \in Int : From(c) <= i <=> 0 <= i /\ M!ToTile(c, z) <= i
             /\ To(c) \in Int /\ \A i \in Int : i <= To(c) <=> i <= 2^z - 1 /\ i <= M!ToTile(c, z)
  <2> DEFINE m == M!ToTile(c, z)
             e == 2^z - 1
  <2>1. m \in Int /\ e \in Int
    BY <1>1, <1>3
  <2> HIDE DEF m, e
  <2>2. PICK zero \in Int : zero = 0
    OBVIOUS
  <2>3. M!Max({zero, m}) \in {zero, m} /\ M!Max({zero, m}) >= zero /\ M!Max({zero, m}) >= m
    BY <2>1, <2>2, OfTwo
  <2>4. M!Min({e, m}) \in {e, m} /\ M!Min({e, m}) <= e /\ M!Min({e, m}) <= m
    BY <2>1, OfTwo
  <2>5. M!Max({zero, m}) \in Int /\ \A i \in Int : M!Max({zero, m}) <= i <=> zero <= i /\ m <= i
    BY <2>1, <2>3
  <2>6. M!Min({e, m}) \in Int /\ \A i \in Int : i <= M!Min({e, m}) <=> i <= e /\ i <= m
    BY <2>1, <2>4
  <2> QED
    BY <2>2, <2>5, <2>6, Zenon DEF m, e
<1>5. b.minLng \in Int /\ b.maxLng \in Int /\ b.minLat \in Int /\ b.maxLat \in Int
  BY DEF Boxes
<1> HIDE DEF From, To
<1>a. ASSUME NEW low \in Int, NEW high \in Int
      PROVE  /\ IsFiniteSet(From(low)..To(high)) /\ From(low)..To(high) \subseteq Int
             /\ \A i \in Int : i \in From(low)..To(high) <=> Within(i, low, high, z)
  <2>1. From(low) \in Int /\ To(high) \in Int
    BY <1>4
  <2>2. ASSUME NEW i \in Int PROVE i \in From(low)..To(high) <=> Within(i, low, high, z)
    <3>1. /\ From(low) <= i <=> 0 <= i /\ M!ToTile(low, z) <= i
          /\ i <= To(high) <=> i <= 2^z - 1 /\ i <= M!ToTile(high, z)
      BY <1>4, Zenon
    <3>2. i \in From(low)..To(high) <=> From(low) <= i /\ i <= To(high)
      BY <2>1
    <3> QED
      BY <3>1, <3>2, Zenon DEF Within
  <2> QED
    BY <2>1, <2>2, FS_Interval
<1>6. \A i \in Int : /\ i \in X <=> Within(i, b.minLng, b.maxLng, z)
                     /\ i \in Y <=> Within(i, b.minLat, b.maxLat, z)
  BY <1>5, <1>a, Zenon
<1>7. IsFiniteSet(X) /\ IsFiniteSet(Y) /\ X \subseteq Int /\ Y \subseteq Int
  BY <1>5, <1>a, Zenon
<1> HIDE DEF X, Y
<1>8. IsFiniteSet(M!TilesAt(b, z))
  <2>1. IsFiniteSet(X \X Y)
    BY <1>7, FS_Product
  <2>2. f \in [X \X Y -> M!TilesAt(b, z)]
    BY <1>2
  <2>3. ASSUME NEW t \in M!TilesAt(b, z) PROVE \E p \in X \X Y : f[p] = t
    <3>1. PICK x \in X, y \in Y : t = [z |-> z, x |-> x, y |-> y]
      BY <1>2
    <3>2. <<x, y>> \in X \X Y /\ f[<<x, y>>] = t
      BY <3>1
    <3> QED
      BY <3>2
  <2> HIDE DEF f
  <2>4. f \in Surjection(X \X Y, M!TilesAt(b, z))
    BY <2>2, <2>3 DEF Surjection
  <2> QED
    BY <2>1, <2>4, FS_Surjection
<1>9. M!TilesAt(b, z) \subseteq Cells
  BY <1>1, <1>2, <1>7 DEF Cells
<1>10. ASSUME NEW t
       PROVE  t \in M!TilesAt(b, z) <=> IsTileOf(t, b, z)
  <2>1. t \in M!TilesAt(b, z) <=> \E x \in X, y \in Y : t = [z |-> z, x |-> x, y |-> y]
    BY <1>2
  <2> QED
    BY <1>6, <1>7, <2>1, Zenon DEF IsTileOf
<1>11. \A t \in M!TilesAt(b, z) : t.z = z
  BY <1>2
<1> QED
  BY <1>8, <1>9, <1>10, <1>11

\* The tile above a tile of a box is a tile of the box.
LEMMA TileAbove ==
  ASSUME NEW b \in Boxes, NEW z \in 1..GRID, NEW t \in M!TilesAt(b, z)
  PROVE  [z |-> t.z - 1, x |-> t.x \div 2, y |-> t.y \div 2] \in M!TilesAt(b, z - 1)
<1>1. GRID \in Nat /\ z - 1 \in Nat /\ z - 1 \in 0..GRID /\ z \in 0..GRID
  BY ScreensAssumption DEF ScreensAssumption
<1>2. PICK x, y \in Int : /\ t = [z |-> z, x |-> x, y |-> y]
                          /\ Within(x, b.minLng, b.maxLng, z)
                          /\ Within(y, b.minLat, b.maxLat, z)
  <2>1. IsTileOf(t, b, z)
    BY <1>1, TilesOfABox
  <2> QED
    BY <2>1, Zenon DEF IsTileOf
<1>3. ASSUME NEW i \in Int, NEW low \in Int, NEW high \in Int, Within(i, low, high, z)
      PROVE  i \div 2 \in Int /\ Within(i \div 2, low, high, z - 1)
  <2> DEFINE l == M!ToTile(low, z)
             h == M!ToTile(high, z)
             n == 2^(z - 1)
  <2>1. l \in Int /\ h \in Int /\ M!ToTile(low, z - 1) = l \div 2 /\ M!ToTile(high, z - 1) = h \div 2
    BY HalfATile
  <2>2. n \in Nat \ {0} /\ 2^z = 2 * n
    <3>1. (z - 1) + 1 = z
      OBVIOUS
    <3> QED
      BY <1>1, <3>1, PowersOfTwo
  <2>3. 0 <= i /\ l <= i /\ i <= 2 * n - 1 /\ i <= h
    BY <1>3, <2>2 DEF Within
  <2> HIDE DEF l, h, n
  <2>4. 0 <= i \div 2 /\ l \div 2 <= i \div 2 /\ i \div 2 <= n - 1 /\ i \div 2 <= h \div 2
    BY <2>1, <2>2, <2>3
  <2> QED
    BY <2>1, <2>4 DEF Within, n
<1>4. b.minLng \in Int /\ b.maxLng \in Int /\ b.minLat \in Int /\ b.maxLat \in Int
  BY DEF Boxes
<1>5. /\ x \div 2 \in Int /\ Within(x \div 2, b.minLng, b.maxLng, z - 1)
      /\ y \div 2 \in Int /\ Within(y \div 2, b.minLat, b.maxLat, z - 1)
  BY <1>2, <1>3, <1>4
<1>6. t.z = z /\ t.x = x /\ t.y = y
  BY <1>2
<1>7. [z |-> z - 1, x |-> x \div 2, y |-> y \div 2] \in M!TilesAt(b, z - 1)
  <2>1. IsTileOf([z |-> z - 1, x |-> x \div 2, y |-> y \div 2], b, z - 1)
    BY <1>5, Zenon DEF IsTileOf
  <2> QED
    BY <1>1, <2>1, TilesOfABox
<1> QED
  BY <1>6, <1>7

\* The order of the loops is a strict total order on tiles.
LEMMA OrderOfTiles ==
  /\ \A s \in Cells : ~M!Before(s, s)
  /\ \A s, t \in Cells : s = t \/ M!Before(s, t) \/ M!Before(t, s)
  /\ \A s, t, u \in Cells : M!Before(s, t) /\ M!Before(t, u) => M!Before(s, u)
<1>1. \A s \in Cells : /\ s.z \in Int /\ s.x \in Int /\ s.y \in Int
                       /\ s = [z |-> s.z, x |-> s.x, y |-> s.y]
  BY DEF Cells
<1>2. ASSUME NEW s \in Cells PROVE ~M!Before(s, s)
  BY <1>1 DEF M!Before
<1>3. ASSUME NEW s \in Cells, NEW t \in Cells
      PROVE  s = t \/ M!Before(s, t) \/ M!Before(t, s)
  <2>1. (s.z = t.z /\ s.x = t.x /\ s.y = t.y) \/ M!Before(s, t) \/ M!Before(t, s)
    BY <1>1 DEF M!Before
  <2> QED
    BY <1>1, <2>1, Zenon
<1>4. ASSUME NEW s \in Cells, NEW t \in Cells, NEW u \in Cells, M!Before(s, t), M!Before(t, u)
      PROVE  M!Before(s, u)
  BY <1>1, <1>4 DEF M!Before
<1> QED
  BY <1>2, <1>3, <1>4

Preceding(all, t) == {s \in all : M!Before(s, t)}
Capped(all, cap) == {t \in all : Cardinality(Preceding(all, t)) < cap}

\* How many tiles precede one, and that a tile is preceded by more than those before it.
LEMMA PrecedingGrows ==
  ASSUME NEW all \in SUBSET Cells, IsFiniteSet(all), NEW s \in all, NEW t \in all, M!Before(s, t)
  PROVE  /\ Cardinality(Preceding(all, s)) \in Nat /\ Cardinality(Preceding(all, t)) \in Nat
         /\ Cardinality(Preceding(all, s)) < Cardinality(Preceding(all, t))
<1> DEFINE P == Preceding(all, s)
           Q == Preceding(all, t)
<1>1. P \cup {s} \subseteq Q /\ s \notin P /\ P \subseteq all /\ Q \subseteq all
  BY OrderOfTiles DEF Preceding
<1> HIDE DEF P, Q
<1>2. IsFiniteSet(P) /\ IsFiniteSet(Q)
  BY <1>1, FS_Subset
<1>3. Cardinality(P \cup {s}) = Cardinality(P) + 1
  BY <1>1, <1>2, FS_AddElement
<1>4. Cardinality(P \cup {s}) <= Cardinality(Q)
  BY <1>1, <1>2, FS_Subset
<1>5. Cardinality(P) \in Nat /\ Cardinality(Q) \in Nat
  BY <1>2, FS_CardinalityType
<1> QED
  BY <1>3, <1>4, <1>5 DEF P, Q

\* The cap keeps no more than it says.
LEMMA CapHolds ==
  ASSUME NEW all \in SUBSET Cells, IsFiniteSet(all), NEW cap \in Nat
  PROVE  IsFiniteSet(Capped(all, cap)) /\ Cardinality(Capped(all, cap)) <= cap
<1> DEFINE K == Capped(all, cap)
           N(t) == Cardinality(Preceding(all, t))
           Counts == {N(t) : t \in K}
<1>1. K \subseteq all /\ \A t \in K : N(t) < cap
  BY DEF Capped
<1>2. IsFiniteSet(K)
  BY <1>1, FS_Subset
<1>3. \A t \in all : IsFiniteSet(Preceding(all, t)) /\ N(t) \in Nat
  <2> TAKE t \in all
  <2>1. Preceding(all, t) \in SUBSET all
    BY DEF Preceding
  <2> QED
    BY <2>1, FS_Subset, FS_CardinalityType
<1>4. CASE K = {}
  BY <1>2, <1>4, FS_EmptySet
<1>5. CASE K # {}
  <2> HIDE DEF K
  <2>1. Counts \in SUBSET Nat /\ Counts # {}
    <3> HIDE DEF N
    <3> QED
      BY <1>1, <1>3, <1>5
  <2>2. \A n \in Counts : n <= cap
    BY <1>1, <1>3
  <2>3. PICK last \in K : \A t \in K : N(t) <= N(last)
    <3>1. M!Max(Counts) \in Counts /\ \A n \in Counts : M!Max(Counts) >= n
      BY <2>1, <2>2, Extremes
    <3> QED
      BY <1>1, <1>3, <3>1
  <2>4. ASSUME NEW s \in K, s # last PROVE s \in Preceding(all, last)
    <3>1. ~M!Before(last, s)
      <4>1. SUFFICES ASSUME M!Before(last, s) PROVE FALSE
        OBVIOUS
      <4>2. N(last) < N(s)
        BY <1>1, <4>1, PrecedingGrows
      <4> QED
        BY <1>1, <1>3, <2>3, <4>2
    <3> QED
      BY <1>1, <2>4, <3>1, OrderOfTiles DEF Preceding
  <2>5. K \in SUBSET (Preceding(all, last) \cup {last})
    BY <2>4
  <2>6. last \notin Preceding(all, last)
    BY <1>1, OrderOfTiles DEF Preceding
  <2>7. IsFiniteSet(Preceding(all, last)) /\ N(last) \in Nat /\ N(last) < cap
    BY <1>1, <1>3
  <2>8. /\ IsFiniteSet(Preceding(all, last) \cup {last})
        /\ Cardinality(Preceding(all, last) \cup {last}) = N(last) + 1
    BY <2>6, <2>7, FS_AddElement
  <2>9. Cardinality(K) <= N(last) + 1 /\ Cardinality(K) \in Nat
    BY <1>2, <2>5, <2>8, FS_Subset, FS_CardinalityType
  <2>10. Cardinality(K) <= cap
    <3> HIDE DEF N
    <3> QED
      BY <2>7, <2>9
  <2> QED
    BY <1>2, <2>10 DEF K
<1> QED
  BY <1>4, <1>5

\* What a prefetch lists for a box: no more than the cap, and with each tile the one
\* above it.
LEMMA ListedFromAbove ==
  ASSUME NEW b \in Boxes, NEW cap \in Nat
  PROVE  LET list == M!tilesForBBox(b, MIN_ZOOM, MAX_ZOOM, cap)
         IN  IsFiniteSet(list) /\ Cardinality(list) <= cap /\ M!FromAbove(list)
<1> DEFINE zooms == MIN_ZOOM..MAX_ZOOM
           all == UNION {M!TilesAt(b, z) : z \in zooms}
           list == M!tilesForBBox(b, MIN_ZOOM, MAX_ZOOM, cap)
<1>1. MIN_ZOOM \in Nat /\ MAX_ZOOM \in Nat /\ GRID \in Nat /\ zooms \subseteq 0..GRID
  BY ScreensAssumption DEF ScreensAssumption
<1>2. \A z \in zooms : IsFiniteSet(M!TilesAt(b, z)) /\ M!TilesAt(b, z) \subseteq Cells
  BY <1>1, TilesOfABox
<1>3. IsFiniteSet(all) /\ all \in SUBSET Cells
  <2> DEFINE f == [z \in zooms |-> M!TilesAt(b, z)]
             T == {M!TilesAt(b, z) : z \in zooms}
  <2>1. IsFiniteSet(zooms)
    BY <1>1, FS_Interval
  <2>2. f \in Surjection(zooms, T)
    <3>1. f \in [zooms -> T] /\ \A t \in T : \E z \in zooms : f[z] = t
      OBVIOUS
    <3> HIDE DEF f, T
    <3> QED
      BY <3>1 DEF Surjection
  <2>3. IsFiniteSet(T)
    BY <2>1, <2>2, FS_Surjection
  <2>4. \A t \in T : IsFiniteSet(t) /\ t \subseteq Cells
    BY <1>2
  <2> QED
    BY <2>3, <2>4, FS_UNION
<1>4. list = Capped(all, cap)
  BY SameCardinality DEF M!tilesForBBox, Capped, Preceding
<1>5. IsFiniteSet(list) /\ Cardinality(list) <= cap
  BY <1>3, <1>4, CapHolds
<1>6. ASSUME NEW t \in list, t.z > MIN_ZOOM
      PROVE  [z |-> t.z - 1, x |-> t.x \div 2, y |-> t.y \div 2] \in list
  <2> DEFINE p == [z |-> t.z - 1, x |-> t.x \div 2, y |-> t.y \div 2]
  <2>1. t \in all /\ Cardinality(Preceding(all, t)) < cap
    BY <1>4 DEF Capped
  <2>2. PICK z \in zooms : t \in M!TilesAt(b, z)
    BY <2>1
  <2>3. t.z = z
    BY <1>1, <2>2, TilesOfABox
  <2>4. z \in 1..GRID /\ z - 1 \in zooms
    BY <1>1, <1>6, <2>3
  <2>5. p \in M!TilesAt(b, z - 1)
    BY <2>2, <2>4, TileAbove
  <2>6. p \in all
    BY <2>4, <2>5
  <2>7. M!Before(p, t)
    BY <2>3, <2>4 DEF M!Before
  <2> HIDE DEF p, all
  <2>8. /\ Cardinality(Preceding(all, p)) \in Nat /\ Cardinality(Preceding(all, t)) \in Nat
        /\ Cardinality(Preceding(all, p)) < Cardinality(Preceding(all, t))
    BY <1>3, <2>1, <2>6, <2>7, PrecedingGrows
  <2>9. Cardinality(Preceding(all, p)) < cap
    BY <2>1, <2>8
  <2> QED
    BY <1>4, <2>6, <2>9 DEF Capped, p
<1>7. M!FromAbove(list)
  BY <1>6 DEF M!FromAbove
<1> QED
  BY <1>5, <1>7

\* So it is for the boxes the prefetch is checked on.
LEMMA BoxesFromAbove == M!EveryBoxFromAbove
<1> SUFFICES ASSUME NEW a \in Corners, NEW b \in Corners, NEW cap \in 1..4 * MAX_TILES
             PROVE  M!FromAbove(M!tilesForBBox(M!padBBox(M!boundsOf({a, b}), 5),
                                               MIN_ZOOM, MAX_ZOOM, cap))
  BY DEF M!EveryBoxFromAbove
<1>1. {a, b} \in SUBSET [lng : World, lat : World] /\ {a, b} # {} /\ cap \in Nat
  BY ScreensAssumption DEF ScreensAssumption, World
<1>2. 5 \in Nat \ {0}
  OBVIOUS
<1>3. M!padBBox(M!boundsOf({a, b}), 5) \in Boxes
  BY <1>1, <1>2, BoundsAreABox, PaddedIsABox
<1> QED
  BY <1>1, <1>3, ListedFromAbove

\* And for the route of a page, whose list is a cap's worth of tiles and the labels.
LEMMA RouteFromAbove ==
  ASSUME NEW stops \in Routes
  PROVE  /\ Cardinality(M!WarmList(stops)) <= MAX_TILES + 1
         /\ M!FromAbove(M!WarmList(stops) \ {M!Label})
<1> DEFINE list == M!tilesForBBox(M!padBBox(M!boundsOf(stops), 5), MIN_ZOOM, MAX_ZOOM, MAX_TILES)
<1>1. stops \in SUBSET [lng : World, lat : World] /\ stops # {} /\ MAX_TILES \in Nat
  BY ScreensAssumption DEF ScreensAssumption, World
<1>2. 5 \in Nat \ {0}
  OBVIOUS
<1>3. M!padBBox(M!boundsOf(stops), 5) \in Boxes
  BY <1>1, <1>2, BoundsAreABox, PaddedIsABox
<1>4. IsFiniteSet(list) /\ Cardinality(list) <= MAX_TILES /\ M!FromAbove(list)
  BY <1>1, <1>3, ListedFromAbove
<1>5. M!WarmList(stops) = list \cup {M!Label}
  BY DEF M!WarmList
<1> HIDE DEF list
<1>6. Cardinality(M!WarmList(stops)) <= MAX_TILES + 1
  <2>1. Cardinality(list) \in Nat
    BY <1>4, FS_CardinalityType
  <2>2. Cardinality(list \cup {M!Label}) = IF M!Label \in list THEN Cardinality(list)
                                           ELSE Cardinality(list) + 1
    BY <1>4, FS_AddElement
  <2> QED
    BY <1>1, <1>4, <1>5, <2>1, <2>2
<1>7. ASSUME NEW t \in list \ {M!Label}, t.z > MIN_ZOOM
      PROVE  [z |-> t.z - 1, x |-> t.x \div 2, y |-> t.y \div 2] \in list \ {M!Label}
  <2>1. [z |-> t.z - 1, x |-> t.x \div 2, y |-> t.y \div 2] \in list
    BY <1>4, <1>7 DEF M!FromAbove
  <2>2. [z |-> t.z - 1, x |-> t.x \div 2, y |-> t.y \div 2] # M!Label
    BY DEF M!Label
  <2> QED
    BY <2>1, <2>2
<1> QED
  BY <1>5, <1>6, <1>7 DEF M!FromAbove

-----------------------------------------------------------------------------
(* OfflineMap.                                                             *)

\* What a URL of a tile and one of an asset may be kept as, or be on its way to be kept
\* as, and what may be kept of a route whose pack is there or not.
CacheKeeps ==
  /\ {tiles[M!Style], tiles[M!Label]} \subseteq {"none", "full"}
  /\ \A u \in M!URLs : M!IsTile(u) /\ tiles[u] \in {"full", "failed"} => net.region
  /\ \A p \in keeping :
       /\ p.url \in {M!Style, M!Label} => p.answer = "full"
       /\ M!IsTile(p.url) /\ p.answer # "vacant" => net.region

\* The URL is on the device or on its way there, unless a put of it came to nothing.
Secured(u) ==
  \/ M!Drawable(u)
  \/ \E p \in keeping : p.url = u /\ p.answer # "vacant"
  \/ u \in spoiled

\* While nothing has failed, what a prefetch is done with is kept.
DoneOf(w) ==
  w.at = "fetching" /\ w.good =>
    \A u \in {M!Style} \cup (route.warmed \ (w.queue \cup w.flight)) : Secured(u)
DoneIsKept == \A n \in M!Openings : DoneOf(warm[n])

Nets == [online : BOOLEAN, region : BOOLEAN, failures : Int]
Workers == [at : {"none", "installing", "active"}, controls : BOOLEAN]
Requests == [url : M!URLs, by : {M!Nobody, M!TheMap} \cup M!Openings, caught : BOOLEAN]
Puts == [url : M!URLs, answer : {"full", "vacant", "failed"}]
Warms ==
  [at : {"idle", "style", "fetching"}, queue : SUBSET route.warmed,
   flight : SUBSET route.warmed, good : BOOLEAN]
Maps ==
  [at : {"closed", "importing", "styling", "loading", "ready", "fallback"},
   left : SUBSET M!URLs, props : Int, drawn : Int, redraw : BOOLEAN]

MapShapes ==
  /\ M!Label \in route.warmed \cap route.needed
  /\ net \in Nets /\ worker \in Workers /\ warm \in [M!Openings -> Warms] /\ map \in Maps
  /\ tiles \in [M!URLs -> {"none", "full", "vacant", "failed"}] /\ keeping \subseteq Puts
  /\ asked \subseteq Requests /\ assured \in BOOLEAN /\ opens \in Nat

\* The page is of one of the routes, and its workers fetch a URL each.
OfARoute == \E stops \in Routes : route = [warmed |-> M!WarmList(stops), needed |-> M!Needs(stops)]
InPool(w) == IsFiniteSet(w.flight) /\ Cardinality(w.flight) <= CONCURRENCY
PoolBounded == \A n \in M!Openings : InPool(warm[n])

MapInv ==
  MapShapes /\ OfARoute /\ PoolBounded /\ CacheKeeps /\ DoneIsKept /\ M!PrefetchIsKept

\* No prefetch is one.
LEMMA NoWarmIsOne ==
  /\ M!NoWarm \in Warms /\ M!NoWarm.at = "idle" /\ M!NoWarm.flight = {}
  /\ InPool(M!NoWarm) /\ DoneOf(M!NoWarm)
<1>1. M!NoWarm \in Warms /\ M!NoWarm.at = "idle" /\ M!NoWarm.flight = {}
  BY DEF M!NoWarm, Warms
<1>2. CONCURRENCY \in Nat
  BY ScreensAssumption
<1> QED
  BY <1>1, <1>2, FS_EmptySet DEF InPool, DoneOf

\* At the start nothing is kept, asked for or fetched.
LEMMA MapInit == M!Init => MapInv
<1> SUFFICES ASSUME M!Init PROVE MapInv
  OBVIOUS
<1> USE DEF M!Init
<1>1. M!Label \in route.warmed \cap route.needed
  BY DEF M!WarmList, M!Needs
<1>6. \A n \in M!Openings : warm[n] = M!NoWarm
  OBVIOUS
<1>2. MapShapes
  <2>1. net \in Nets
    <3>1. PICK o \in {TRUE}, b \in BOOLEAN, f \in {0} :
            net = [online |-> o, region |-> b, failures |-> f]
      OBVIOUS
    <3> QED
      BY <3>1 DEF Nets
  <2>5. worker \in Workers
    BY DEF Workers
  <2>2. warm \in [M!Openings -> Warms]
    BY NoWarmIsOne
  <2>3. map \in Maps
    BY DEF M!NoMap, Maps
  <2>4. tiles \in [M!URLs -> {"none", "full", "vacant", "failed"}] /\ keeping = {} /\ opens \in Nat
    OBVIOUS
  <2> QED
    BY <1>1, <2>1, <2>2, <2>3, <2>4, <2>5 DEF MapShapes
<1>3. {M!Style, M!Label} \subseteq M!URLs
  BY DEF M!URLs, M!First
<1>4. OfARoute
  BY Zenon DEF OfARoute
<1>5. PoolBounded /\ DoneIsKept
  BY <1>6, NoWarmIsOne DEF PoolBounded, DoneIsKept
<1> QED
  BY <1>2, <1>3, <1>4, <1>5 DEF MapInv, CacheKeeps, M!PrefetchIsKept

\* What a step does with an answer, or with a request that fails.
Ends(q, answer) ==
  /\ asked' = asked \ {q} /\ M!WarmAfter(q, answer) /\ M!MapAfter(q, answer)
  /\ UNCHANGED <<worker, assured, tiles, spoiled, opens>>

\* The route of a page and the URLs it needs stay.
LEMMA RouteStays ==
  ASSUME [M!Next]_offline
  PROVE  /\ route' = route /\ M!URLs' = M!URLs /\ Requests' = Requests /\ Warms' = Warms /\ Maps' = Maps
         /\ Puts' = Puts
<1>1. route' = route
  BY DEF M!Next, offline, M!Register, M!Install, M!Open, M!WarmTake, M!WarmEnds, M!Imported, M!Styled,
         M!Load, M!Render, M!Redraw, M!ContextLost, M!Leave, M!Quit, M!Answered, M!Kept, M!NotKept,
         M!Lost, M!Signal, M!Publish
<1> QED
  BY <1>1 DEF M!URLs, Requests, Warms, Maps, Puts

\* The actions are a few kinds of steps.
LEMMA MapSteps ==
  ASSUME [M!Next]_offline
  PROVE  \/ M!Register \/ M!Install \/ M!Open \/ M!WarmTake \/ M!WarmEnds
         \/ M!Imported \/ M!Styled \/ M!Leave \/ M!Quit \/ M!Signal \/ M!Publish
         \/ M!Load \/ M!Render \/ M!Redraw \/ M!ContextLost \/ M!Kept \/ M!NotKept
         \/ \E q \in asked, down \in BOOLEAN :
              /\ net' = [net EXCEPT !.failures = @ + (IF down THEN 1 ELSE 0)]
              /\ M!PutIfOk(q, M!Answer(q.url, down)) /\ Ends(q, M!Answer(q.url, down))
         \/ \E q \in asked : net' = net /\ keeping' = keeping /\ Ends(q, "none")
         \/ UNCHANGED offline
<1>1. CASE M!Answered
  BY <1>1 DEF M!Answered, Ends
<1>2. CASE M!Lost
  BY <1>2 DEF M!Lost, Ends
<1> QED
  BY <1>1, <1>2 DEF M!Next

\* The signal and the worker stay what they are, and openings are counted.
LEMMA WorldShapes ==
  ASSUME MapShapes, [M!Next]_offline
  PROVE  net' \in Nets /\ worker' \in Workers /\ opens' \in Nat
<1> USE DEF MapShapes, Nets, Workers
<1>1. CASE M!Install
  BY <1>1 DEF M!Install
<1>2. CASE M!Register
  BY <1>2 DEF M!Register
<1>3. CASE M!Signal \/ M!Publish
  BY <1>3 DEF M!Signal, M!Publish
<1>4. CASE \E q \in asked, down \in BOOLEAN :
             /\ net' = [net EXCEPT !.failures = @ + (IF down THEN 1 ELSE 0)]
             /\ M!PutIfOk(q, M!Answer(q.url, down)) /\ Ends(q, M!Answer(q.url, down))
  BY <1>4 DEF Ends
<1>6. CASE M!NotKept
  BY <1>6 DEF M!NotKept
<1>7. CASE M!Open
  BY <1>7 DEF M!Open
<1>5. CASE net' = net /\ worker' = worker /\ opens' = opens
  BY <1>5
<1> QED
  BY MapSteps, <1>1, <1>2, <1>3, <1>4, <1>5, <1>6, <1>7
  DEF M!WarmTake, M!WarmEnds, M!Imported, M!Styled, M!Leave, M!Quit, M!Load, M!Render, M!Redraw,
      M!ContextLost, M!Kept, Ends, offline

\* The map waits for URLs it needs.
LEMMA ViewShapes ==
  ASSUME MapShapes, [M!Next]_offline
  PROVE  map' \in Maps
<1>0. map \in Maps
  BY DEF MapShapes
<1> USE <1>0 DEF Maps
<1>10. M!First \subseteq M!URLs /\ M!Style \in M!URLs
  BY DEF M!URLs
<1>2. M!NoMap \in Maps /\ [M!NoMap EXCEPT !.at = "importing"] \in Maps /\ M!Fallback \in Maps
  <2>1. 0 \in Int
    OBVIOUS
  <2>2. PICK zero \in Int : M!NoMap = [at |-> "closed", left |-> {}, props |-> zero,
                                     drawn |-> zero, redraw |-> FALSE]
    BY <2>1, Zenon DEF M!NoMap
  <2> QED
    BY <2>2 DEF M!Fallback
<1>11. CASE M!Open \/ M!Leave \/ M!Quit
  BY <1>2, <1>11 DEF M!Open, M!Leave, M!Quit
<1>3. CASE M!Imported
  <2>1. CASE map' = M!Fallback
    BY <1>2, <2>1
  <2>2. CASE map' = [map EXCEPT !.at = "styling", !.left = IF M!Held(M!Style) THEN {} ELSE {M!Style}]
    BY <1>10, <2>2
  <2> QED
    BY <1>3, <2>1, <2>2 DEF M!Imported
<1>4. CASE M!Styled
  <2> DEFINE missing == {u \in M!First : ~M!Held(u)}
  <2>1. missing \subseteq M!URLs /\ map' = [map EXCEPT !.at = "loading", !.left = missing]
    BY <1>4, <1>10 DEF M!Styled
  <2> HIDE DEF missing
  <2> QED
    BY <2>1
<1>5. CASE M!Load \/ M!Redraw
  <2>1. \/ map' = [map EXCEPT !.at = "ready", !.drawn = 0]
        \/ map' = [map EXCEPT !.redraw = FALSE, !.drawn = map.props]
    BY <1>5 DEF M!Load, M!Redraw
  <2>2. PICK drawn \in Int : \/ map' = [map EXCEPT !.at = "ready", !.drawn = drawn]
                              \/ map' = [map EXCEPT !.redraw = FALSE, !.drawn = drawn]
    <3>1. 0 \in Int /\ map.props \in Int
      OBVIOUS
    <3> QED
      BY <2>1, <3>1, Zenon
  <2> QED
    BY <2>2
<1>6. CASE M!Render
  <2>1. map.props + 1 \in Int
    OBVIOUS
  <2>2. PICK props \in Int, again \in BOOLEAN : map' = [map EXCEPT !.props = props, !.redraw = again]
    BY <1>6, <2>1, Zenon DEF M!Render, M!RedrawWhen
  <2> QED
    BY <2>2
<1>7. CASE M!ContextLost
  BY <1>2, <1>7 DEF M!ContextLost
<1>8. ASSUME NEW q, NEW answer, M!MapAfter(q, answer)
      PROVE  map' \in Maps
  BY <1>2, <1>8 DEF M!MapAfter, M!OnError
<1>9. CASE map' = map
  BY <1>9
<1> QED
  BY MapSteps, <1>11, <1>3, <1>4, <1>5, <1>6, <1>7, <1>8, <1>9
  DEF M!Register, M!Install, M!WarmTake, M!WarmEnds, M!Kept, M!NotKept, M!Signal, M!Publish, Ends, offline

\* What is asked for is a URL of the page.
LEMMA AskShapes ==
  ASSUME MapShapes, [M!Next]_offline
  PROVE  asked' \subseteq Requests
<1> USE DEF MapShapes
<1>1. /\ M!Style \in M!URLs /\ M!First \subseteq M!URLs
      /\ route.warmed \subseteq M!URLs /\ route.needed \subseteq M!URLs
  BY DEF M!URLs
<1>2. ASSUME NEW client \in {M!TheMap} \cup M!Openings, NEW us \in SUBSET M!URLs, M!Request(client, us)
      PROVE  asked' \subseteq Requests
  BY <1>2 DEF M!Request, Requests, Workers
<1>3. CASE M!Open
  <2>1. opens + 1 \in M!Openings
    BY <1>3, ScreensAssumption DEF M!Open, M!Openings
  <2>2. asked' = asked \/ M!Request(opens + 1, {M!Style})
    BY <1>3 DEF M!Open
  <2> QED
    BY <1>1, <1>2, <2>1, <2>2
<1>4. CASE M!WarmTake
  <2> PICK n \in M!Openings :
        \E u \in warm[n].queue : M!Request(n, IF M!Held(u) THEN {} ELSE {u})
    BY <1>4 DEF M!WarmTake
  <2>1. PICK u \in warm[n].queue : M!Request(n, IF M!Held(u) THEN {} ELSE {u})
    OBVIOUS
  <2>2. {u} \subseteq M!URLs
    BY <1>1 DEF Warms
  <2> QED
    BY <1>2, <2>1, <2>2
<1>5. CASE M!Imported
  BY <1>1, <1>2, <1>5 DEF M!Imported
<1>6. CASE M!Styled
  <2>1. {u \in M!First : ~M!Held(u)} \in SUBSET M!URLs
    BY <1>1
  <2>2. M!Request(M!TheMap, {u \in M!First : ~M!Held(u)})
    BY <1>6 DEF M!Styled
  <2> QED
    BY <1>2, <2>1, <2>2
<1>9. CASE M!Load
  <2>1. {u \in route.needed : ~M!Held(u)} \in SUBSET M!URLs
    BY <1>1
  <2>2. M!Request(M!TheMap, {u \in route.needed : ~M!Held(u)})
    BY <1>9 DEF M!Load
  <2> QED
    BY <1>2, <2>1, <2>2
<1>7. CASE M!Leave \/ M!Quit
  <2>1. PICK gone \in SUBSET asked : M!Unheard(gone)
    BY <1>7 DEF M!Leave, M!Quit
  <2>2. \A q \in asked : [q EXCEPT !.by = M!Nobody] \in Requests
    BY DEF Requests
  <2> QED
    BY <2>1, <2>2 DEF M!Unheard
<1>8. CASE asked' \subseteq asked
  BY <1>8
<1> QED
  BY MapSteps, <1>3, <1>4, <1>5, <1>6, <1>7, <1>8, <1>9
  DEF M!Register, M!Install, M!WarmEnds, M!Render, M!Redraw, M!ContextLost, M!Kept, M!NotKept,
      M!Signal, M!Publish, Ends, offline

\* The routes answer an asset with itself or not at all, and a tile of a published
\* route with itself or with a failure.
LEMMA RoutesAnswer ==
  ASSUME NEW u, NEW down \in BOOLEAN
  PROVE  LET answer == M!Answer(u, down)
         IN  /\ u \in {M!Style, M!Label} => answer \in {"full", "refused"}
             /\ M!IsTile(u) => (net.region <=> answer \in {"full", "failed"})
             /\ M!IsTile(u) => answer \in {"full", "failed", "vacant"}
BY DEF M!Answer, M!IsTile, M!GetTile, M!GetLabel, M!GetStyle

\* What a step does to the cache: an answer of a route is on its way, is put, or is not.
Putting ==
  /\ tiles' = tiles /\ spoiled' = spoiled /\ keeping \subseteq keeping'
  /\ \A p \in keeping' \ keeping :
       /\ p \in Puts /\ net'.region = net.region
       /\ p.url \in {M!Style, M!Label} => p.answer = "full"
       /\ M!IsTile(p.url) => (net.region <=> p.answer # "vacant")
Puts1(p) ==
  /\ keeping' = keeping \ {p} /\ tiles' = [tiles EXCEPT ![p.url] = p.answer]
  /\ spoiled' = IF p.answer = "vacant" /\ net.region THEN spoiled \cup {p.url} ELSE spoiled
  /\ net' = net
Loses(p) ==
  /\ keeping' = keeping \ {p} /\ tiles' = tiles /\ spoiled' = spoiled \cup {p.url}
  /\ net'.region = net.region

LEMMA CacheMoves ==
  ASSUME MapShapes, [M!Next]_offline
  PROVE  /\ net.region => net'.region
         /\ Putting \/ \E p \in keeping : Puts1(p) \/ Loses(p)
<1>0. net \in Nets /\ asked \subseteq Requests
  BY DEF MapShapes
<1>1. CASE M!Install
  BY <1>1 DEF M!Install, M!KeptTiles, Putting
<1>2. CASE M!Signal \/ M!Publish
  BY <1>0, <1>2 DEF M!Signal, M!Publish, Nets, Putting
<1>3. ASSUME NEW q \in asked, NEW down \in BOOLEAN,
             net' = [net EXCEPT !.failures = @ + (IF down THEN 1 ELSE 0)],
             M!PutIfOk(q, M!Answer(q.url, down)), Ends(q, M!Answer(q.url, down))
      PROVE  net'.region = net.region /\ Putting
  <2> DEFINE answer == M!Answer(q.url, down)
             put == [url |-> q.url, answer |-> answer]
  <2>1. net'.region = net.region
    BY <1>0, <1>3 DEF Nets
  <2>2. q.url \in M!URLs
    BY <1>0 DEF Requests
  <2>3. keeping' = keeping \/ (M!Ok(answer) /\ keeping' = keeping \cup {put})
    BY <1>3, Zenon DEF M!PutIfOk
  <2>4. M!Ok(answer) =>
          /\ answer \in {"full", "vacant", "failed"}
          /\ q.url \in {M!Style, M!Label} => answer = "full"
          /\ M!IsTile(q.url) => (net.region <=> answer # "vacant")
    BY RoutesAnswer DEF M!Ok
  <2>5. put.url = q.url /\ put.answer = answer
    OBVIOUS
  <2> HIDE DEF answer
  <2>6. M!Ok(answer) => put \in Puts
    BY <2>2, <2>4 DEF Puts
  <2> HIDE DEF put
  <2>7. tiles' = tiles /\ spoiled' = spoiled
    BY <1>3 DEF Ends
  <2> QED
    BY <2>1, <2>3, <2>4, <2>5, <2>6, <2>7 DEF Putting
<1>4. CASE M!Kept
  BY <1>4 DEF M!Kept, Puts1
<1>5. CASE M!NotKept
  BY <1>0, <1>5 DEF M!NotKept, Loses, Nets
<1>6. CASE tiles' = tiles /\ spoiled' = spoiled /\ keeping' = keeping /\ net' = net
  BY <1>6 DEF Putting
<1> QED
  BY MapSteps, <1>1, <1>2, <1>3, <1>4, <1>5, <1>6
  DEF M!Register, M!Open, M!WarmTake, M!WarmEnds, M!Imported, M!Styled, M!Load, M!Render, M!Redraw,
      M!ContextLost, M!Leave, M!Quit, Ends, offline

\* The cache holds answers of the routes, each as it may be kept.
LEMMA CacheKept ==
  ASSUME MapShapes, CacheKeeps, [M!Next]_offline
  PROVE  /\ tiles' \in [M!URLs -> {"none", "full", "vacant", "failed"}] /\ keeping' \subseteq Puts
         /\ CacheKeeps'
<1>0. /\ tiles \in [M!URLs -> {"none", "full", "vacant", "failed"}] /\ keeping \subseteq Puts
      /\ net \in Nets
  BY DEF MapShapes
<1>1. M!URLs' = M!URLs /\ {M!Style, M!Label} \subseteq M!URLs
  BY RouteStays DEF M!URLs, M!First
<1>2. net.region \in BOOLEAN /\ (net.region => net'.region)
  BY <1>0, CacheMoves DEF Nets
<1>3. CASE Putting
  <2>1. keeping' \subseteq Puts
    BY <1>0, <1>3 DEF Putting
  <2>2. \A p \in keeping' :
          /\ p.url \in {M!Style, M!Label} => p.answer = "full"
          /\ M!IsTile(p.url) /\ p.answer # "vacant" => net'.region
    BY <1>2, <1>3 DEF Putting, CacheKeeps
  <2>3. /\ {tiles'[M!Style], tiles'[M!Label]} \subseteq {"none", "full"}
        /\ \A u \in M!URLs : M!IsTile(u) /\ tiles'[u] \in {"full", "failed"} => net'.region
    BY <1>2, <1>3 DEF Putting, CacheKeeps
  <2> QED
    BY <1>0, <1>1, <1>3, <2>1, <2>2, <2>3 DEF Putting, CacheKeeps, M!IsTile, M!Style, M!Label
<1>4. ASSUME NEW p \in keeping, Puts1(p) PROVE tiles' \in [M!URLs -> {"none", "full", "vacant", "failed"}]
                                             /\ keeping' \subseteq Puts /\ CacheKeeps'
  <2>1. p.url \in M!URLs /\ p.answer \in {"full", "vacant", "failed"}
    BY <1>0 DEF Puts
  <2>2. /\ p.url \in {M!Style, M!Label} => p.answer = "full"
        /\ M!IsTile(p.url) /\ p.answer # "vacant" => net.region
    BY DEF CacheKeeps
  <2>3. tiles' = [tiles EXCEPT ![p.url] = p.answer] /\ keeping' = keeping \ {p} /\ net' = net
    BY <1>4 DEF Puts1
  <2>4. \A q \in keeping' :
          /\ q.url \in {M!Style, M!Label} => q.answer = "full"
          /\ M!IsTile(q.url) /\ q.answer # "vacant" => net'.region
    BY <2>3 DEF CacheKeeps
  <2>5. \A u \in M!URLs : tiles'[u] = IF u = p.url THEN p.answer ELSE tiles[u]
    BY <1>0, <2>1, <2>3
  <2>6. {tiles'[M!Style], tiles'[M!Label]} \subseteq {"none", "full"}
    BY <1>1, <2>2, <2>5 DEF CacheKeeps
  <2>7. \A u \in M!URLs : M!IsTile(u) /\ tiles'[u] \in {"full", "failed"} => net'.region
    BY <2>2, <2>3, <2>5 DEF CacheKeeps
  <2> QED
    BY <1>0, <1>1, <2>1, <2>3, <2>4, <2>6, <2>7 DEF CacheKeeps, M!IsTile, M!Style, M!Label
<1>5. ASSUME NEW p \in keeping, Loses(p) PROVE tiles' \in [M!URLs -> {"none", "full", "vacant", "failed"}]
                                             /\ keeping' \subseteq Puts /\ CacheKeeps'
  BY <1>0, <1>1, <1>5 DEF Loses, CacheKeeps, M!IsTile, M!Style, M!Label
<1> QED
  BY CacheMoves, <1>3, <1>4, <1>5

\* What is secured stays so.
LEMMA SecuredStays ==
  ASSUME MapShapes, CacheKeeps, [M!Next]_offline, NEW u \in M!URLs, Secured(u)
  PROVE  Secured(u)'
<1>0. /\ tiles \in [M!URLs -> {"none", "full", "vacant", "failed"}] /\ keeping \subseteq Puts
      /\ {M!Style, M!Label} \subseteq M!URLs
  BY DEF MapShapes, M!URLs, M!First
<1>1. u \in spoiled => u \in spoiled'
  BY CacheMoves DEF Putting, Puts1, Loses
<1>2. CASE Putting
  BY <1>1, <1>2 DEF Putting, Secured, M!Drawable
<1>3. ASSUME NEW p \in keeping, Puts1(p) PROVE Secured(u)'
  <2>1. p.url \in M!URLs /\ p.answer \in {"full", "vacant", "failed"}
    BY <1>0 DEF Puts
  <2>2. tiles'[u] = IF u = p.url THEN p.answer ELSE tiles[u]
    BY <1>0, <1>3, <2>1 DEF Puts1
  <2>3. CASE p.url = u /\ p.answer # "vacant"
    BY <2>1, <2>2, <2>3 DEF Secured, M!Drawable
  <2>4. CASE p.url = u /\ p.answer = "vacant"
    <3>1. u \notin {M!Style, M!Label}
      BY <2>4 DEF CacheKeeps
    <3>2. CASE M!Drawable(u)
      <4>1. net.region
        BY <3>1, <3>2 DEF CacheKeeps, M!Drawable, M!IsTile
      <4> QED
        BY <1>3, <2>4, <4>1 DEF Puts1, Secured
    <3>3. CASE \E q \in keeping : q.url = u /\ q.answer # "vacant"
      BY <1>3, <2>4, <3>3 DEF Puts1, Secured
    <3> QED
      BY <1>1, <3>2, <3>3 DEF Secured
  <2>5. CASE p.url # u
    BY <1>1, <1>3, <2>2, <2>5 DEF Puts1, Secured, M!Drawable
  <2> QED
    BY <2>1, <2>3, <2>4, <2>5
<1>4. ASSUME NEW p \in keeping, Loses(p) PROVE Secured(u)'
  BY <1>1, <1>4 DEF Loses, Secured, M!Drawable
<1> QED
  BY CacheMoves, <1>2, <1>3, <1>4

\* What a step may make of a prefetch: nothing, or one that has not begun; one that
\* has its style, secured; one whose worker has taken a URL; or one that has an answer.
Starts(v) ==
  /\ v.at = "fetching" /\ v.flight = {} /\ v.queue = route.warmed
  /\ v.good => Secured(M!Style)'
Takes(w, v, u) ==
  /\ v.at = w.at /\ (v.good => w.good) /\ v.queue = w.queue \ {u}
  /\ \/ v.flight = w.flight /\ (v.good => Secured(u)')
     \/ v.flight = w.flight \cup {u} /\ Cardinality(w.flight) < CONCURRENCY
Hears(w, v, u) ==
  /\ v.at = w.at /\ (v.good => w.good /\ Secured(u)')
  /\ v.queue = w.queue /\ v.flight = w.flight \ {u}
Goes(w, v) ==
  /\ v \in Warms
  /\ \/ v = w
     \/ v.at # "fetching" /\ v.flight = {}
     \/ Starts(v)
     \/ \E u : Takes(w, v, u) \/ Hears(w, v, u)

\* An answer that was caught is secured, and the prefetch that hears of it goes on.
LEMMA OnwardGoes ==
  ASSUME MapShapes, NEW w \in Warms, NEW q \in Requests, NEW answer,
         q.caught /\ answer = "full" => Secured(q.url)'
  PROVE  Goes(w, M!Onward(w, q, answer))
<1>1. q.caught \in BOOLEAN
  BY DEF Requests
<1> DEFINE start == [M!NoWarm EXCEPT !.at = "fetching", !.queue = route.warmed, !.good = q.caught]
           good == w.good /\ q.caught /\ answer = "full"
           heard == [w EXCEPT !.flight = @ \ {q.url}, !.good = good]
<1>2. CASE w.at = "style" /\ q.url = M!Style
  <2>1. /\ start \in Warms /\ start.at = "fetching" /\ start.flight = {} /\ start.queue = route.warmed
        /\ start.good = q.caught
    BY <1>1 DEF M!NoWarm, Warms
  <2> HIDE DEF start
  <2>2. CASE answer = "full"
    <3>1. M!Onward(w, q, answer) = start
      BY <1>2, <2>2 DEF M!Onward, start
    <3>2. Starts(start)
      BY <1>1, <1>2, <2>1, <2>2 DEF Starts
    <3> QED
      BY <2>1, <3>1, <3>2 DEF Goes
  <2>3. CASE answer # "full"
    <3>1. M!Onward(w, q, answer) = M!NoWarm
      BY <1>2, <2>3 DEF M!Onward
    <3>2. M!NoWarm \in Warms /\ M!NoWarm.at # "fetching" /\ M!NoWarm.flight = {}
      BY NoWarmIsOne
    <3> QED
      BY <3>1, <3>2 DEF Goes
  <2> QED
    BY <2>2, <2>3
<1>3. CASE w.at = "fetching" /\ q.url \in w.flight
  <2>1. M!Onward(w, q, answer) = heard
    BY <1>3 DEF M!Onward
  <2>2. good \in BOOLEAN
    BY <1>1 DEF Warms
  <2>3. good => w.good /\ Secured(q.url)'
    OBVIOUS
  <2> HIDE DEF good
  <2>4. heard \in Warms /\ heard.at = w.at /\ heard.good = good /\ heard.queue = w.queue
        /\ heard.flight = w.flight \ {q.url}
    BY <2>2 DEF Warms
  <2> HIDE DEF heard
  <2>5. Hears(w, heard, q.url)
    BY <2>3, <2>4 DEF Hears
  <2> QED
    BY <2>1, <2>4, <2>5 DEF Goes
<1>4. CASE ~(w.at = "style" /\ q.url = M!Style) /\ ~(w.at = "fetching" /\ q.url \in w.flight)
  <2>1. M!Onward(w, q, answer) = w
    BY <1>4 DEF M!Onward
  <2> QED
    BY <2>1 DEF Goes
<1> QED
  BY <1>2, <1>3, <1>4

\* So every prefetch goes in every step.
LEMMA WarmGoes ==
  ASSUME MapShapes, CacheKeeps, [M!Next]_offline
  PROVE  warm' \in [M!Openings -> Warms] /\ \A n \in M!Openings : Goes(warm[n], warm'[n])
<1>0. /\ warm \in [M!Openings -> Warms] /\ asked \subseteq Requests
      /\ M!Style \in M!URLs /\ route.warmed \subseteq M!URLs
  BY DEF MapShapes, M!URLs
<1>1. \A w \in Warms : Goes(w, w) /\ Goes(w, M!NoWarm)
  BY NoWarmIsOne DEF Goes
<1>2. ASSUME NEW m \in M!Openings, NEW v, Goes(warm[m], v), warm' = [warm EXCEPT ![m] = v]
      PROVE  warm' \in [M!Openings -> Warms] /\ \A n \in M!Openings : Goes(warm[n], warm'[n])
  <2>1. v \in Warms
    BY <1>2 DEF Goes
  <2>2. warm' \in [M!Openings -> Warms]
    BY <1>0, <1>2, <2>1
  <2>3. ASSUME NEW n \in M!Openings PROVE Goes(warm[n], warm'[n])
    <3>1. warm[n] \in Warms /\ warm'[n] = IF n = m THEN v ELSE warm[n]
      BY <1>0, <1>2
    <3> QED
      BY <1>1, <1>2, <3>1
  <2> QED
    BY <2>2, <2>3
<1>3. CASE M!Open
  <2>1. opens + 1 \in M!Openings
    BY <1>3, ScreensAssumption DEF M!Open, M!Openings, MapShapes
  <2> DEFINE first == [M!NoWarm EXCEPT !.at = "style"]
             start == [M!NoWarm EXCEPT !.at = "fetching", !.queue = route.warmed]
  <2>2. /\ first \in Warms /\ first.at # "fetching" /\ first.flight = {}
        /\ start \in Warms /\ start.at = "fetching" /\ start.flight = {} /\ start.queue = route.warmed
    BY DEF M!NoWarm, Warms
  <2>3. \/ warm' = [warm EXCEPT ![opens + 1] = first]
        \/ M!Held(M!Style) /\ warm' = [warm EXCEPT ![opens + 1] = start]
    BY <1>3 DEF M!Open
  <2> HIDE DEF first, start
  <2>4. Goes(warm[opens + 1], first)
    BY <2>2 DEF Goes
  <2>5. M!Held(M!Style) => Goes(warm[opens + 1], start)
    <3> SUFFICES ASSUME M!Held(M!Style) PROVE Goes(warm[opens + 1], start)
      OBVIOUS
    <3>1. M!Drawable(M!Style)
      BY DEF M!Held, CacheKeeps, M!Drawable
    <3>2. Secured(M!Style)'
      BY <1>0, <3>1, SecuredStays DEF Secured
    <3> QED
      BY <2>2, <3>2 DEF Goes, Starts
  <2> QED
    BY <1>2, <2>1, <2>3, <2>4, <2>5
<1>4. CASE M!WarmTake
  <2> PICK n \in M!Openings :
        /\ Cardinality(warm[n].flight) < CONCURRENCY
        /\ \E u \in warm[n].queue : warm' = [warm EXCEPT ![n] = M!Take(@, u)]
    BY <1>4, SameCardinality DEF M!WarmTake
  <2>1. PICK u \in warm[n].queue : warm' = [warm EXCEPT ![n] = M!Take(@, u)]
    OBVIOUS
  <2> DEFINE w == warm[n]
             good == w.good /\ tiles[u] = "full"
             held == [w EXCEPT !.queue = @ \ {u}, !.good = good]
             sent == [w EXCEPT !.queue = @ \ {u}, !.flight = @ \cup {u}]
  <2>2. w \in Warms /\ u \in route.warmed /\ good \in BOOLEAN
    BY <1>0 DEF Warms
  <2>3. warm' = [warm EXCEPT ![n] = IF M!Held(u) THEN held ELSE sent]
    BY <2>1 DEF M!Take
  <2>4. good => w.good /\ M!Drawable(u)
    BY DEF M!Drawable
  <2> HIDE DEF w, good
  <2>5. /\ held \in Warms /\ held.at = w.at /\ held.good = good /\ held.queue = w.queue \ {u}
        /\ held.flight = w.flight
    BY <2>2 DEF Warms
  <2>6. /\ sent \in Warms /\ sent.at = w.at /\ sent.good = w.good /\ sent.queue = w.queue \ {u}
        /\ sent.flight = w.flight \cup {u}
    BY <2>2 DEF Warms
  <2> HIDE DEF held, sent
  <2>7. good => Secured(u)'
    BY <1>0, <2>2, <2>4, SecuredStays DEF Secured
  <2>8. Takes(w, held, u)
    BY <2>4, <2>5, <2>7 DEF Takes
  <2>9. Takes(w, sent, u)
    <3>1. Cardinality(w.flight) < CONCURRENCY
      BY DEF w
    <3> QED
      BY <2>6, <3>1 DEF Takes
  <2>10. Goes(w, held) /\ Goes(w, sent)
    BY <2>5, <2>6, <2>8, <2>9 DEF Goes
  <2>11. Goes(warm[n], IF M!Held(u) THEN held ELSE sent)
    BY <2>10 DEF w
  <2> QED
    BY <1>2, <2>3, <2>11
<1>5. CASE M!WarmEnds
  <2>1. PICK n \in M!Openings : warm' = [warm EXCEPT ![n] = M!NoWarm]
    BY <1>5 DEF M!WarmEnds
  <2>2. Goes(warm[n], M!NoWarm)
    BY <1>0, <1>1
  <2> QED
    BY <1>2, <2>1, <2>2
<1>6. CASE M!Quit
  <2>1. warm' = [n \in M!Openings |-> M!NoWarm]
    BY <1>6 DEF M!Quit
  <2> QED
    BY <1>0, <1>1, <2>1, NoWarmIsOne
<1>10. CASE warm' = warm
  BY <1>0, <1>1, <1>10
<1>7. ASSUME NEW q \in asked, NEW answer, M!WarmAfter(q, answer),
             q.caught /\ answer = "full" => Secured(q.url)'
      PROVE  warm' \in [M!Openings -> Warms] /\ \A n \in M!Openings : Goes(warm[n], warm'[n])
  <2>1. CASE q.by \in M!Openings
    <3>1. warm' = [warm EXCEPT ![q.by] = M!Onward(warm[q.by], q, answer)]
      BY <1>7, <2>1 DEF M!WarmAfter
    <3>2. warm[q.by] \in Warms /\ q \in Requests
      BY <1>0, <2>1
    <3>3. Goes(warm[q.by], M!Onward(warm[q.by], q, answer))
      BY <1>7, <3>2, OnwardGoes
    <3> QED
      BY <1>2, <2>1, <3>1, <3>3
  <2>2. CASE q.by \notin M!Openings
    BY <1>7, <1>10, <2>2 DEF M!WarmAfter
  <2> QED
    BY <2>1, <2>2
<1>8. ASSUME NEW q \in asked, NEW down \in BOOLEAN,
             M!PutIfOk(q, M!Answer(q.url, down)), M!WarmAfter(q, M!Answer(q.url, down))
      PROVE  warm' \in [M!Openings -> Warms] /\ \A n \in M!Openings : Goes(warm[n], warm'[n])
  <2>1. ASSUME q.caught, M!Answer(q.url, down) = "full" PROVE Secured(q.url)'
    <3>1. [url |-> q.url, answer |-> "full"] \in keeping'
      BY <1>8, <2>1 DEF M!PutIfOk, M!Ok
    <3> QED
      BY <3>1 DEF Secured
  <2> QED
    BY <1>7, <1>8, <2>1
<1>9. ASSUME NEW q \in asked, M!WarmAfter(q, "none")
      PROVE  warm' \in [M!Openings -> Warms] /\ \A n \in M!Openings : Goes(warm[n], warm'[n])
  BY <1>7, <1>9
<1> QED
  BY MapSteps, <1>3, <1>4, <1>5, <1>6, <1>8, <1>9, <1>10
  DEF M!Register, M!Install, M!Imported, M!Styled, M!Load, M!Render, M!Redraw, M!ContextLost,
      M!Leave, M!Kept, M!NotKept, M!Signal, M!Publish, Ends, offline

\* What a prefetch is done with is kept until it ends, if nothing failed, and no more
\* URLs are fetched at a time than there are workers.
LEMMA DoneStays ==
  ASSUME MapShapes, CacheKeeps, DoneIsKept, PoolBounded, [M!Next]_offline
  PROVE  DoneIsKept' /\ PoolBounded'
<1>0. /\ route' = route /\ route.warmed \subseteq M!URLs /\ M!Style \in M!URLs /\ CONCURRENCY \in Nat
      /\ \A u \in M!URLs : Secured(u) => Secured(u)'
  BY RouteStays, SecuredStays, ScreensAssumption DEF M!URLs
<1>1. ASSUME NEW w \in Warms, NEW v \in Warms, Goes(w, v), DoneOf(w) PROVE DoneOf(v)'
  <2> SUFFICES ASSUME v.at = "fetching", v.good,
                      NEW u \in {M!Style} \cup (route.warmed \ (v.queue \cup v.flight))
               PROVE  Secured(u)'
    BY <1>0 DEF DoneOf
  <2>1. u \in M!URLs
    BY <1>0
  <2>2. w.at = "fetching" /\ w.good /\ u \in {M!Style} \cup (route.warmed \ (w.queue \cup w.flight))
          => Secured(u)'
    BY <1>0, <1>1, <2>1 DEF DoneOf
  <2>3. CASE v = w
    BY <2>2, <2>3
  <2>4. CASE Starts(v)
    BY <2>4 DEF Starts
  <2>5. ASSUME NEW x, Takes(w, v, x) PROVE Secured(u)'
    BY <2>2, <2>5 DEF Takes
  <2>6. ASSUME NEW x, Hears(w, v, x) PROVE Secured(u)'
    BY <2>2, <2>6 DEF Hears
  <2> QED
    BY <1>1, <2>3, <2>4, <2>5, <2>6 DEF Goes
<1>2. ASSUME NEW w \in Warms, NEW v \in Warms, Goes(w, v), InPool(w) PROVE InPool(v)
  <2>0. IsFiniteSet(w.flight) /\ Cardinality(w.flight) <= CONCURRENCY /\ Cardinality(w.flight) \in Nat
    BY <1>2, FS_CardinalityType DEF InPool
  <2>1. CASE v.flight = {}
    BY <1>0, <2>1, FS_EmptySet DEF InPool
  <2>2. CASE v.flight \subseteq w.flight
    <3>1. IsFiniteSet(v.flight) /\ Cardinality(v.flight) <= Cardinality(w.flight)
      BY <2>0, <2>2, FS_Subset
    <3>2. Cardinality(v.flight) \in Nat
      BY <3>1, FS_CardinalityType
    <3> QED
      BY <1>0, <2>0, <3>1, <3>2 DEF InPool
  <2>3. ASSUME NEW u, v.flight = w.flight \cup {u}, Cardinality(w.flight) < CONCURRENCY PROVE InPool(v)
    <3>1. /\ IsFiniteSet(w.flight \cup {u})
          /\ Cardinality(w.flight \cup {u}) \in {Cardinality(w.flight), Cardinality(w.flight) + 1}
      BY <2>0, FS_AddElement
    <3> QED
      BY <1>0, <2>0, <2>3, <3>1 DEF InPool
  <2> QED
    BY <1>2, <2>1, <2>2, <2>3 DEF Goes, Starts, Takes, Hears
<1>3. warm \in [M!Openings -> Warms] /\ warm' \in [M!Openings -> Warms]
      /\ \A n \in M!Openings : Goes(warm[n], warm'[n])
  BY WarmGoes DEF MapShapes
<1>4. ASSUME NEW n \in M!Openings PROVE DoneOf(warm[n])' /\ InPool(warm[n])'
  <2>1. DoneOf(warm[n]) /\ InPool(warm[n]) /\ Goes(warm[n], warm'[n])
    BY <1>3 DEF DoneIsKept, PoolBounded
  <2>2. PICK v \in Warms : v = warm'[n]
    BY <1>3
  <2>3. DoneOf(v)' /\ InPool(v)
    BY <1>1, <1>2, <1>3, <2>1, <2>2
  <2> QED
    BY <2>2, <2>3 DEF DoneOf, InPool
<1> QED
  BY <1>4 DEF DoneIsKept, PoolBounded

\* A route once prefetched without a failure is kept from then on.
LEMMA AssuredStays ==
  ASSUME MapShapes, CacheKeeps, DoneIsKept, M!PrefetchIsKept, [M!Next]_offline
  PROVE  M!PrefetchIsKept' /\ assured' \in BOOLEAN
<1> DEFINE Goal == M!PrefetchIsKept' /\ assured' \in BOOLEAN
<1>1. route' = route /\ {M!Style} \cup route.needed \subseteq M!URLs
  BY RouteStays DEF M!URLs
<1>2. \A u \in {M!Style} \cup route.needed : Secured(u) => Secured(u)'
  BY <1>1, SecuredStays
<1>3. ASSUME assured' => \A u \in {M!Style} \cup route.needed : Secured(u)
      PROVE  M!PrefetchIsKept'
  <2>1. assured' => \A u \in {M!Style} \cup route'.needed : Secured(u)'
    BY <1>1, <1>2, <1>3
  <2> QED
    BY <2>1 DEF M!PrefetchIsKept, Secured, M!Drawable
<1>4. assured => \A u \in {M!Style} \cup route.needed : Secured(u)
  BY DEF M!PrefetchIsKept, Secured
<1>5. CASE M!WarmEnds
  <2>1. PICK n \in M!Openings :
          /\ warm[n].at = "fetching" /\ warm[n].queue = {} /\ warm[n].flight = {}
          /\ assured' = (assured \/ (warm[n].good /\ route.needed \subseteq route.warmed))
    BY <1>5 DEF M!WarmEnds
  <2>2. DoneOf(warm[n])
    BY DEF DoneIsKept
  <2>3. warm[n].good /\ route.needed \subseteq route.warmed =>
          \A u \in {M!Style} \cup route.needed : Secured(u)
    BY <2>1, <2>2 DEF DoneOf
  <2>4. assured' => \A u \in {M!Style} \cup route.needed : Secured(u)
    BY <1>4, <2>1, <2>3
  <2>5. assured' \in BOOLEAN
    BY <2>1
  <2> QED
    BY <1>3, <2>4, <2>5
<1>6. CASE assured' = assured
  BY <1>3, <1>4, <1>6 DEF MapShapes
<1> QED
  BY MapSteps, <1>5, <1>6
  DEF M!Register, M!Install, M!Open, M!WarmTake, M!Imported, M!Styled, M!Leave, M!Quit, M!Load, M!Render,
      M!Redraw, M!ContextLost, M!Kept, M!NotKept, M!Signal, M!Publish, Ends, offline

\* A step keeps the invariant of the map.
LEMMA MapKept ==
  ASSUME MapInv, [M!Next]_offline
  PROVE  MapInv'
<1> USE DEF MapInv
<1>1. MapShapes'
  <2>1. M!Label \in (route.warmed \cap route.needed)'
    BY RouteStays DEF MapShapes
  <2>2. Warms' = Warms /\ Maps' = Maps /\ Requests' = Requests /\ M!URLs' = M!URLs /\ Puts' = Puts
    BY RouteStays
  <2> QED
    BY <2>1, <2>2, WorldShapes, WarmGoes, ViewShapes, AskShapes, CacheKept, AssuredStays DEF MapShapes
<1>2. OfARoute'
  BY RouteStays DEF OfARoute, M!WarmList, M!Needs
<1> QED
  BY <1>1, <1>2, CacheKept, DoneStays, AssuredStays

\* What the invariant says of a map.
LEMMA MapHolds ==
  ASSUME MapInv
  PROVE  M!TypeOK /\ M!PrefetchIsKept /\ M!WarmedFromAbove
<1> USE DEF MapInv
<1>1. PICK stops \in Routes : route = [warmed |-> M!WarmList(stops), needed |-> M!Needs(stops)]
  BY DEF OfARoute
<1>2. route.warmed = M!WarmList(stops)
  BY <1>1
<1>3. M!Cardinality(route.warmed) <= MAX_TILES + 1 /\ M!WarmedFromAbove
  BY <1>2, RouteFromAbove, SameCardinality DEF M!WarmedFromAbove
<1>4. \A n \in M!Openings : M!Cardinality(warm[n].flight) <= CONCURRENCY
  BY SameCardinality DEF PoolBounded, InPool
<1>5. \A n \in M!Openings : warm[n].queue \cup warm[n].flight \subseteq route.warmed
  BY DEF MapShapes, Warms
<1>6. map.left \subseteq M!URLs
  BY DEF MapShapes, Maps
<1> QED
  BY <1>3, <1>4, <1>5, <1>6 DEF M!TypeOK, MapShapes, Requests, Puts

-----------------------------------------------------------------------------
(* The screens together.                                                   *)

\* A half-typed reading survives leaving the screen and is cleared on submit, for
\* every stop and through every order of renders, saves, navigation and deaths of
\* the tab, unless it was typed while an earlier reading of the stop was being saved,
\* or a page was stopped before its second render (stops/[stopId]/page.tsx:75-82,
\* 225-240).
THEOREM DraftsSurvive == Spec => []DraftIsWhatWasTyped
<1>1. Init => FieldShapes /\ F!DraftIsWhatWasTyped
  BY FieldInit DEF Init
<1>2. FieldShapes /\ F!DraftIsWhatWasTyped /\ [Next]_vars => (FieldShapes /\ F!DraftIsWhatWasTyped)'
  BY Parts, StepDrafts, DraftsKept
<1> QED
  BY <1>1, <1>2, PTL DEF Spec, DraftIsWhatWasTyped

\* A page of a console at rest shows what is selected, if a cycle is, for any clients,
\* with cycles or without, and numbers of clicks, although answers are not matched with
\* the selection (exports/page.tsx:58-75, exceptions/page.tsx:50-59, runs/page.tsx:29-39).
THEOREM ConsolesRestOnSelection == Spec => []RestsOnSelection
<1>1. Init => ConsoleInv
  BY ConsoleInit DEF Init
<1>2. ConsoleInv /\ [Next]_vars => ConsoleInv'
  BY Parts, ConsoleKept
<1>3. ConsoleInv => C!RestsOnSelection
  BY ConsoleHolds
<1> QED
  BY <1>1, <1>2, <1>3, PTL DEF Spec, RestsOnSelection

\* On the run and staff pages a change the API made to a run or to somebody on the list
\* ends up on the screen, though its answer be lost and others overtake it, and so does
\* somebody added whose answer came (runs/[id]/page.tsx:84-136, staff/page.tsx:32-50,
\* 176-200).
THEOREM OwnChangesShown == Spec => []OwnChangeShown
<1>1. Init => ConsoleInv
  BY ConsoleInit DEF Init
<1>2. ConsoleInv /\ [Next]_vars => ConsoleInv'
  BY Parts, ConsoleKept
<1>3. ConsoleInv => C!OwnChangeShown
  BY ConsoleHolds
<1> QED
  BY <1>1, <1>2, <1>3, PTL DEF Spec, OwnChangeShown

\* What a prefetch without a failure has fetched for the view of a route is on the
\* device, or on its way into the cache, from then on, through new versions of the
\* worker, failing buckets, later openings and lost signals, unless its put was lost or an
\* empty answer from before its pack was published was put after it; and the cap leaves
\* above each tile it keeps the one above it, for any grid, zooms, cap, padding and stops
\* (sw.js:13-15, mapCache.ts:7-31).
THEOREM PrefetchesAreKept == Spec => []PrefetchIsKept
<1>1. Init => MapInv
  BY MapInit DEF Init
<1>2. MapInv /\ [Next]_vars => MapInv'
  BY Parts, MapKept
<1>3. MapInv => PrefetchIsKept
  BY MapHolds, BoxesFromAbove DEF PrefetchIsKept, KeptFromAbove
<1> QED
  BY <1>1, <1>2, <1>3, PTL DEF Spec

\* The variables of the three keep their shapes: the pool of a prefetch never fetches
\* more than it has workers for, nor a route's list more than its cap, and the numbers
\* of answers on the screen are of requests that were made.
THEOREM TypeCorrect == Spec => []TypeOK
<1> DEFINE Inv == ConsoleInv /\ FieldShapes /\ MapInv
<1>1. Init => Inv
  BY ConsoleInit, FieldInit, MapInit DEF Init
<1>2. Inv /\ [Next]_vars => Inv'
  BY Parts, ConsoleKept, StepDrafts, MapKept
<1>3. Inv => TypeOK
  <2>1. FieldShapes => F!TypeOK
    BY DEF FieldShapes, F!TypeOK, Saves
  <2> QED
    BY <2>1, ConsoleHolds, MapHolds DEF TypeOK
<1> HIDE DEF Inv
<1> QED
  BY <1>1, <1>2, <1>3, PTL DEF Spec
=============================================================================

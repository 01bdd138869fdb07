------------------------------ MODULE Consoles ------------------------------
(***************************************************************************)
(* The console screens of supervisors and admins (apps/web/src/app/        *)
(* supervisor and admin): a page holds the last answer it was given, asks  *)
(* again when its selection changes or an action is refused, and puts      *)
(* every answer on the screen when it arrives, in whatever order.          *)
(*                                                                         *)
(* What a page is about is a subject with a version, and whether the API   *)
(* still takes actions on it.  A subject is a run, an exception, the staff *)
(* list, the result of one filter, the preview of one client and cycle, or *)
(* the routes of one client.                                               *)
(* One tab shows one page; other people change the subjects meanwhile.  The *)
(* messages of refused actions, and the notes typed, are left out.         *)
(***************************************************************************)
EXTENDS Integers, FiniteSets

CONSTANTS
  Clients,      \* the clients of the exports page, and the filters of a list
  Cycles,
  NoCycle,      \* no cycle is selected
  FirstCycle,   \* the newest cycle of each client, NoCycle if it has none
  Home,         \* what a page opens on, [client, cycle]
  MaxClicks,    \* clicks of the person
  MaxChanges    \* changes of the subjects by other people

VARIABLES
  page,     \* the page that is open, "none" at first
  subjects, \* the API: version of each subject and whether it takes actions
  key,      \* the selection: filter, or client and cycle
  shown,    \* the answer on the screen
  calls,    \* requests in flight and answers on their way
  issued,   \* requests made so far
  busy,     \* an action's button waits
  adding,   \* the form that adds staff waits
  picked,   \* stops are picked for a split, or a route: of the client, else "none"
  loadError, \* a load has failed and the page says so
  clicks,
  changes,
  newest,   \* history: the newest request that was shown or failed to load
  strayed,  \* history: the selection has moved while a button waited
  own,      \* history: version made by the person's own last change; somebody added
            \* counts once the form has heard of it
  refusal   \* history: 1 + version an action was refused at, until a load has caught up

vars == <<page, subjects, key, shown, calls, issued, busy, adding, picked, loadError,
          clicks, changes, newest, strayed, own, refusal>>

Fixed == {"run", "exception", "staff"}          \* one subject per mount
Lists == {"runs", "queue"}                      \* one selection at a time
Keys == [client : Clients, cycle : Cycles \cup {NoCycle}]
Nothing == [key |-> Home, ver |-> -1, open |-> FALSE, n |-> 0]
IsShown == shown # Nothing

\* A request, `n` numbering them.
Ask(kind, k, n) ==
  [kind |-> kind, key |-> k, n |-> n, at |-> "asked", ver |-> 0, open |-> FALSE]

Init ==
  /\ page = "none"
  /\ subjects = [k \in Keys |-> [ver |-> 0, open |-> TRUE]]
  /\ key = Home /\ shown = Nothing
  /\ calls = {} /\ issued = 0
  /\ busy = FALSE /\ adding = FALSE /\ picked = "none" /\ loadError = FALSE /\ strayed = FALSE
  /\ clicks = 0 /\ changes = 0 /\ newest = 0 /\ own = 0 /\ refusal = 0

\* A page mounts and asks for what it is about; the exports page has looked for
\* a client with a cycle first, and on the page that assigns a run a client has
\* been chosen.
Enter ==
  /\ page = "none"
  /\ page' \in Fixed \cup Lists \cup {"exports", "assign"}
  /\ calls' = {Ask("load", Home, 1)} /\ issued' = 1
  /\ UNCHANGED <<subjects, key, shown, busy, adding, picked, loadError, clicks, changes,
                 newest, strayed, own, refusal>>

Click == clicks < MaxClicks /\ clicks' = clicks + 1

-----------------------------------------------------------------------------
(* Clicks.                                                                 *)

\* Another selection: what is shown goes and the new selection is asked for.
SelectUnasked(k) == key' = k /\ UNCHANGED <<shown, calls, issued>>
Select(k) ==
  /\ key' = k
  /\ shown' = Nothing
  /\ calls' = calls \cup {Ask("load", k, issued + 1)} /\ issued' = issued + 1

Filter ==
  /\ Click
  /\ \E c \in Clients \ {key.client} : Select([key EXCEPT !.client = c])
  /\ UNCHANGED <<page, subjects, busy, adding, picked, changes, newest, strayed, own, refusal>>

\* Filters of the runs, kept in the page: an earlier failure is forgotten.
FilterRuns == page = "runs" /\ Filter /\ loadError' = FALSE

\* Filters of the exceptions, kept in the URL: an earlier failure stays.
FilterQueue == page = "queue" /\ Filter /\ UNCHANGED loadError

\* Another client on the page that assigns a run: the route picked is dropped,
\* the routes of the client before stay until the answer.
RoutesOf ==
  /\ page = "assign" /\ Click
  /\ \E c \in Clients \ {key.client} :
       LET k == [key EXCEPT !.client = c]
       IN  /\ key' = k
           /\ calls' = calls \cup {Ask("load", k, issued + 1)} /\ issued' = issued + 1
  /\ picked' = "none"
  /\ UNCHANGED <<page, subjects, shown, busy, adding, loadError, changes, newest, strayed, own,
                 refusal>>

\* The exports page moves to another client: its cycles are asked for, and at
\* once the preview of the new client with the old client's cycle, if that had one.
ChangeClient ==
  /\ page = "exports" /\ Click
  /\ \E c \in Clients \ {key.client} :
       LET k == [key EXCEPT !.client = c]
       IN  /\ key' = k /\ shown' = Nothing
           /\ IF k.cycle = NoCycle
              THEN /\ calls' = calls \cup {Ask("cycles", k, issued + 1)}
                   /\ issued' = issued + 1
              ELSE /\ calls' = calls \cup {Ask("cycles", k, issued + 1), Ask("load", k, issued + 2)}
                   /\ issued' = issued + 2
  /\ strayed' = (strayed \/ busy)
  /\ UNCHANGED <<page, subjects, busy, adding, picked, loadError, changes, newest, own, refusal>>

\* Without cycles there is nothing to choose from.
ChangeCycle ==
  /\ page = "exports" /\ key.cycle # NoCycle /\ Click
  /\ \E c \in Cycles \ {key.cycle} : Select([key EXCEPT !.cycle = c])
  /\ strayed' = (strayed \/ busy)
  /\ UNCHANGED <<page, subjects, busy, adding, picked, loadError, changes, newest, own, refusal>>

\* Stops of the run are ticked for a split, or a route is picked.
Pick ==
  /\ page \in {"run", "assign"} /\ IsShown /\ ~loadError /\ picked = "none"
  /\ picked' = shown.key.client
  /\ UNCHANGED <<page, subjects, key, shown, calls, issued, busy, adding, loadError, clicks,
                 changes, newest, strayed, own, refusal>>

\* A button that sends an action and waits for its answer.
Send(kind) ==
  /\ ~busy /\ IsShown /\ Click
  /\ busy' = TRUE
  /\ calls' = calls \cup {Ask(kind, key, issued + 1)} /\ issued' = issued + 1
  /\ UNCHANGED <<page, subjects, key, shown, adding, picked, changes, newest, strayed, own,
                 refusal>>

\* A run may be reassigned or released until it has started, and split as long
\* as stops are picked.
doReassign ==
  page = "run" /\ ~loadError /\ shown.open /\ Send("reassign") /\ UNCHANGED loadError
doSplit ==
  page = "run" /\ ~loadError /\ picked # "none" /\ Send("split") /\ UNCHANGED loadError

\* A reread, a resolution or an override, while the exception shown allows one.
doAction ==
  page = "exception" /\ ~loadError /\ shown.open /\ Send("action") /\ UNCHANGED loadError

\* The run of the route picked, whichever client is selected.
submitAssign == page = "assign" /\ picked # "none" /\ Send("assign") /\ UNCHANGED loadError

onGenerate ==
  page = "exports" /\ key.cycle # NoCycle /\ shown.open /\ Send("generate") /\ loadError' = FALSE
mutate == page = "staff" /\ Send("mutate") /\ loadError' = FALSE

\* The form that adds a person waits on its own.
submitStaff ==
  /\ page = "staff" /\ IsShown /\ ~adding /\ Click
  /\ adding' = TRUE /\ loadError' = FALSE
  /\ calls' = calls \cup {Ask("create", key, issued + 1)} /\ issued' = issued + 1
  /\ UNCHANGED <<page, subjects, key, shown, busy, picked, changes, newest, strayed, own,
                 refusal>>

-----------------------------------------------------------------------------
(* The API.                                                                *)

Read(c) == c.kind \in {"load", "reload", "listed", "cycles"}

\* Whether the API takes an action: a reassignment while the run has not
\* started, an action while the exception allows it; a split, a change of staff
\* and an export may be refused for what the page cannot see, a split also for
\* stops that were picked before the run moved on.
Verdicts(c) ==
  LET s == subjects[c.key]
  IN  CASE c.kind \in {"reassign", "action"} -> {s.open}
        [] OTHER -> BOOLEAN

Serve ==
  \E c \in calls :
    /\ c.at = "asked"
    /\ LET s == subjects[c.key]
           Answer(at, t) == calls' = (calls \ {c}) \cup
                              {[c EXCEPT !.at = at, !.ver = t.ver, !.open = t.open]}
       IN  IF Read(c)
           THEN Answer("answered", s) /\ UNCHANGED <<subjects, own>>
           ELSE \E ok \in Verdicts(c), still \in BOOLEAN :
                  LET t == [ver |-> s.ver + 1, open |-> still]
                  IN  /\ still # s.open => ok /\ c.kind = "action"
                      /\ subjects' = IF ok THEN [subjects EXCEPT ![c.key] = t] ELSE subjects
                      /\ own' = IF ok /\ c.kind # "create" THEN t.ver ELSE own
                      /\ IF ok THEN Answer("answered", t) ELSE Answer("refused", s)
    /\ UNCHANGED <<page, key, shown, issued, busy, adding, picked, loadError, clicks, changes,
                   newest, strayed, refusal>>

\* A reader starts the run, another supervisor acts on it or on the exception,
\* another admin changes the staff.  What others change in a list or a preview
\* makes no difference to the selection.
Others ==
  /\ page \in Fixed
  /\ changes < MaxChanges /\ changes' = changes + 1
  /\ \E open \in BOOLEAN :
       /\ open => subjects[Home].open
       /\ subjects' = [subjects EXCEPT ![Home] = [ver |-> @.ver + 1, open |-> open]]
  /\ UNCHANGED <<page, key, shown, calls, issued, busy, adding, picked, loadError, clicks,
                 newest, strayed, own, refusal>>

-----------------------------------------------------------------------------
(* Answers.  `end` is how a request ended: answered, refused or failed.    *)

\* The answer goes on the screen, whatever was asked since.
Show(c) ==
  /\ shown' = [key |-> c.key, ver |-> c.ver, open |-> c.open, n |-> c.n]
  /\ newest' = IF c.n > newest THEN c.n ELSE newest

\* A request the handler makes on the way, in the place of the one that ended.
Follow(c, kind) ==
  /\ calls' = (calls \ {c}) \cup {Ask(kind, c.key, issued + 1)} /\ issued' = issued + 1

Done(c) == calls' = calls \ {c} /\ UNCHANGED issued

\* Answers of loads; a failure is reported, or leaves no routes.  `reload` is the one
\* a change of staff or an export waits for, `listed` the one the form waits for.
Loaded(c, end) ==
  /\ c.kind \in {"load", "reload", "listed"}
  /\ Done(c)
  /\ IF end = "answered"
     THEN Show(c) /\ UNCHANGED loadError
     ELSE /\ loadError' = (loadError \/ page # "assign")
          /\ shown' = IF page = "assign" THEN Nothing ELSE shown
          /\ newest' = IF c.n > newest THEN c.n ELSE newest
  /\ busy' = (busy /\ c.kind # "reload")
  /\ adding' = (adding /\ c.kind # "listed")
  /\ refusal' = IF end = "answered" /\ c.ver + 1 < refusal THEN refusal ELSE 0
  /\ UNCHANGED <<key, picked, strayed, own>>

\* The cycles of a client, perhaps one that is no longer selected: its first
\* cycle is selected, and previewed if that changes the selection.  If it has none
\* nothing is asked for, and what is shown stays.
CyclesCame(c, end) ==
  /\ c.kind = "cycles"
  /\ LET k == [key EXCEPT !.cycle = FirstCycle[c.key.client]]
     IN  IF end = "answered" /\ k # key
         THEN /\ key' = k
              /\ IF k.cycle = NoCycle
                 THEN Done(c) /\ UNCHANGED shown
                 ELSE /\ shown' = Nothing
                      /\ calls' = (calls \ {c}) \cup {Ask("load", k, issued + 1)}
                      /\ issued' = issued + 1
              /\ strayed' = (strayed \/ busy)
         ELSE Done(c) /\ UNCHANGED <<key, shown, strayed>>
  /\ UNCHANGED <<busy, adding, picked, loadError, newest, own, refusal>>

\* The run's page shows the answer; refused, it asks for the run again without
\* waiting.  A split empties the selection either way.
RunRefusedKept(c) == Done(c)
RunRefused(c) == Follow(c, "load")
RunActed(c, end) ==
  /\ c.kind \in {"reassign", "split"}
  /\ IF end = "answered"
     THEN Show(c) /\ Done(c)
     ELSE RunRefused(c) /\ UNCHANGED <<shown, newest>>
  /\ busy' = FALSE /\ picked' = IF c.kind = "split" THEN "none" ELSE picked
  /\ UNCHANGED <<key, adding, loadError, own>>

\* The exception's page shows the answer, and keeps what it showed otherwise.
ExceptionActed(c, end) ==
  /\ c.kind = "action"
  /\ Done(c)
  /\ IF end = "answered" THEN Show(c) ELSE UNCHANGED <<shown, newest>>
  /\ busy' = FALSE
  /\ UNCHANGED <<key, adding, picked, loadError, own>>

\* An export is followed by its preview, of the client and cycle exported.
Generated(c, end) ==
  /\ c.kind = "generate"
  /\ IF end = "answered"
     THEN Follow(c, "reload") /\ UNCHANGED busy
     ELSE Done(c) /\ busy' = FALSE
  /\ UNCHANGED <<key, shown, adding, picked, loadError, newest, own>>

\* A change of staff is followed by the list, whether it was taken or not.
MutatedIfTaken(c, end) ==
  IF end = "answered" THEN Follow(c, "reload") /\ UNCHANGED busy ELSE Done(c) /\ busy' = FALSE
MutatedAnyway(c, end) == Follow(c, "reload") /\ UNCHANGED busy
Mutated(c, end) ==
  /\ c.kind = "mutate"
  /\ MutatedAnyway(c, end)
  /\ UNCHANGED <<key, shown, adding, picked, loadError, newest, own>>

\* The form asks for the list only when the person was added.
Created(c, end) ==
  /\ c.kind = "create"
  /\ IF end = "answered"
     THEN /\ Follow(c, "listed") /\ own' = (IF c.ver > own THEN c.ver ELSE own)
          /\ UNCHANGED adding
     ELSE Done(c) /\ adding' = FALSE /\ UNCHANGED own
  /\ UNCHANGED <<key, shown, busy, picked, loadError, newest>>

\* Once the run is assigned its page opens, and nothing asked before is heard.
Assigned(c, end) ==
  /\ c.kind = "assign"
  /\ IF end = "answered"
     THEN /\ page' = "run" /\ key' = Home /\ shown' = Nothing /\ picked' = "none"
          /\ calls' = {Ask("load", Home, issued + 1)} /\ issued' = issued + 1
     ELSE Done(c) /\ UNCHANGED <<page, key, shown, picked>>
  /\ busy' = FALSE /\ own' = 0 /\ refusal' = 0
  /\ UNCHANGED <<adding, loadError, newest, strayed>>

End(c, end) ==
  /\ \/ (Loaded(c, end) \/ CyclesCame(c, end)) /\ UNCHANGED page
     \/ Assigned(c, end)
     \/ /\ UNCHANGED page
        /\ \/ RunActed(c, end) \/ ExceptionActed(c, end) \/ Generated(c, end)
           \/ Mutated(c, end) \/ Created(c, end)
        /\ refusal' = IF end = "refused" /\ c.kind # "create" THEN c.ver + 1 ELSE refusal
        /\ UNCHANGED strayed
  /\ UNCHANGED <<subjects, clicks, changes>>

Arrive == \E c \in calls : c.at # "asked" /\ End(c, c.at)

\* The network fails before the API has heard of it, or after.
Fail == \E c \in calls : End(c, "failed")

Next ==
  \/ Enter \/ FilterRuns \/ FilterQueue \/ RoutesOf \/ ChangeClient \/ ChangeCycle \/ Pick
  \/ doReassign \/ doSplit \/ doAction \/ submitAssign \/ onGenerate \/ mutate \/ submitStaff
  \/ Serve \/ Others \/ Arrive \/ Fail

\* A request is served and its answer arrives, or it fails.
Fairness == WF_vars(Serve) /\ WF_vars(Arrive \/ Fail)

Spec == Init /\ [][Next]_vars /\ Fairness

-----------------------------------------------------------------------------
(* Properties.                                                             *)

MaxVer == MaxClicks + MaxChanges

TypeOK ==
  /\ subjects \in [Keys -> [ver : 0..MaxVer, open : BOOLEAN]]
  /\ key \in Keys /\ picked \in Clients \cup {"none"}
  /\ \A c, d \in calls : c.n \in 1..issued /\ (c.n = d.n => c = d)
  /\ {busy, adding, loadError, strayed} \subseteq BOOLEAN
  /\ shown = Nothing \/ (shown.key \in Keys /\ shown.n \in 1..newest)

\* Nothing in flight and the newest request shown.
Settled == calls = {} /\ IsShown /\ shown.n = newest

\* A page that has come to rest shows what is selected, though answers are not
\* matched with the selection when they arrive, unless an older one arrived last,
\* the selection moved while an export was made, or the client selected has no
\* cycle (exports/page.tsx:58-75, exceptions/page.tsx:50-59, runs/page.tsx:29-39).
RestsOnSelection == Settled /\ ~strayed /\ key.cycle # NoCycle => shown.key = key

\* "No runs for this client yet" (exports/page.tsx:131) is shown for a client
\* without cycles.
\* Refuted: the preview asked for with the cycle of the client before stays.
EmptySelectionShowsNothing == calls = {} /\ key.cycle = NoCycle => ~IsShown

\* On the run and staff pages what a supervisor did to the run, and an admin to
\* somebody on the list, is on the screen once the page has come to rest, even if the
\* API did it and the answer was lost; and so is somebody added with the form, if its
\* answer came (runs/[id]/page.tsx:84-136, staff/page.tsx:32-50, 176-200).
OwnChangeShown == Settled /\ page \in {"run", "staff"} => shown.ver >= own

\* Somebody added shows up in the list.
\* Refuted: the form asks for the list only when it hears that the person was added.
AdditionShown ==
  \A v \in 1..MaxVer :
    (\E c \in calls : c.kind = "create" /\ c.at = "answered" /\ c.ver = v)
      ~> (loadError \/ shown.ver >= v)

\* After a refusal the page is brought up to what the refusal was about, or says
\* it could not be (runs/[id]/page.tsx:93-96, staff/page.tsx:44-46).  A refusal to
\* add somebody, which the form only reports, is not one of these.
RefusalResyncs ==
  (page \in {"run", "staff"} /\ refusal > 0) ~> (loadError \/ shown.ver + 1 >= refusal)

\* "`error` means the run could not be loaded and there is nothing to show"
\* (runs/[id]/page.tsx:22-28).
ErrorMeansNothingToShow == page = "run" /\ loadError => ~IsShown

\* An exception's page too would be brought up to date by a refusal.
ExceptionResyncs ==
  (page = "exception" /\ refusal > 0) ~> (loadError \/ shown.ver + 1 >= refusal)
=============================================================================

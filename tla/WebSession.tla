----------------------------- MODULE WebSession -----------------------------
(***************************************************************************)
(* A browser tab's session (apps/web/src/lib/session.ts): the token every  *)
(* request to the API takes from localStorage, the bridge that keeps it    *)
(* fresh (components/auth/NeonTokenBridge.tsx), the sign-in screen         *)
(* (components/auth/NeonLogin.tsx) and the shells that let a person in or  *)
(* send them back (components/field/FieldShell.tsx, console/Shell.tsx).    *)
(* The identity provider is Neon Auth, with its client's session hook.     *)
(*                                                                         *)
(* A step is what runs between two awaits.  Requests for a token that are  *)
(* alike are kept as one.  The two shells and the pages in them are one    *)
(* shell; the sign-in of local development is left out.                    *)
(***************************************************************************)
EXTENDS Naturals

CONSTANT MaxClicks     \* how often the person does something

ASSUME WebSessionAssumption == MaxClicks \in Nat

VARIABLES
  online,       \* the network, the API and the identity provider are reachable
  provisioned,  \* the API knows the person: there is an active row of staff
  idp,          \* the person's session at the identity provider: "in" or "out"
  ending,       \* a request to end that session is on its way
  seen,         \* what the session hook says of it: "pending", "in" or "out"
  stored,       \* the token in localStorage: "none", "fresh" or "stale"
  calls,        \* token requests and what the code awaiting them will do
  screen,       \* the sign-in screen, "login", or what the app's shell shows
  status,       \* what the sign-in screen says
  clicks

vars == <<online, provisioned, idp, ending, seen, stored, calls, screen, status, clicks>>

Tokens == {"none", "fresh", "stale"}
Calls ==
  [by : {"bridge", "login"}, at : {"asked", "minted", "refused", "failed"}, live : BOOLEAN]
  \cup [by : {"login", "shell"}, at : {"me"}, live : BOOLEAN, header : Tokens]
Screens == {"login", "asking", "shown", "stuck"}

TypeOK ==
  /\ {online, provisioned, ending} \subseteq BOOLEAN
  /\ idp \in {"in", "out"}
  /\ seen \in {"pending", "in", "out"}
  /\ stored \in Tokens
  /\ calls \subseteq Calls
  /\ screen \in Screens
  /\ status \in {"idle", "routing", "pending", "error"}
  /\ clicks \in 0..MaxClicks

\* The tab is opened at the sign-in screen.
Init ==
  /\ online \in BOOLEAN /\ provisioned \in BOOLEAN
  /\ idp \in {"in", "out"} /\ ending = FALSE
  /\ seen = "pending" /\ stored \in Tokens
  /\ calls = {}
  /\ screen = "login" /\ status = "idle"
  /\ clicks = 0

-----------------------------------------------------------------------------
(* Effects and what cancels them.                                          *)

Ask(who) == {[by |-> who, at |-> "asked", live |-> TRUE]}
\* The clean-up of an effect tells its pending calls not to go on; a shell has
\* none, but what a shell that is gone learns is not shown.
Kept(who, cs) == cs
Cancel(who, cs) == {IF c.by = who THEN [c EXCEPT !.live = FALSE] ELSE c : c \in cs}
\* A request to the API carries the token of the moment it is made.
Me(who, live, token) == [by |-> who, at |-> "me", live |-> live, header |-> token]

\* The sign-in screen is mounted, or its session changes: with a session it
\* asks for a token and routes home.
ShowLogin(session, cs) ==
  /\ screen' = "login"
  /\ status' = IF session = "in" THEN "routing" ELSE "idle"
  /\ calls' = Cancel("shell", cs) \cup (IF session = "in" THEN Ask("login") ELSE {})

\* A shell is mounted: without a token it redirects, else it asks who this is.
ShowApp(token, cs) ==
  IF token = "none" THEN ShowLogin(seen, cs)
  ELSE /\ screen' = "asking"
       /\ calls' = cs \cup {Me("shell", TRUE, token)}
       /\ UNCHANGED status

-----------------------------------------------------------------------------
(* The session hook and the bridge.                                        *)

\* The hook learns what has become of the session, or gives up without one if
\* it cannot ask.
Learned == IF online THEN idp ELSE "out"

TokenKept(session) == stored
TokenAfter(session) == IF session = "out" THEN "none" ELSE stored

\* The effects that depend on the session are cleaned up and run again.
SessionSeen ==
  LET bridged == Cancel("bridge", calls)
      asked == IF Learned = "in" THEN bridged \cup Ask("bridge") ELSE bridged IN
  /\ seen # Learned
  /\ seen = "pending" \/ online
  /\ seen' = Learned
  /\ stored' = TokenAfter(Learned)
  /\ IF screen = "login" THEN ShowLogin(Learned, Cancel("login", asked))
     ELSE calls' = asked /\ UNCHANGED <<screen, status>>
  /\ UNCHANGED <<online, provisioned, idp, ending, clicks>>

\* Every ten minutes, and when the window gets the focus.
Refresh ==
  /\ seen # "pending"
  /\ stored' = TokenAfter(seen)
  /\ calls' = IF seen = "in" THEN calls \cup Ask("bridge") ELSE calls
  /\ UNCHANGED <<online, provisioned, idp, ending, seen, screen, status, clicks>>

-----------------------------------------------------------------------------
(* Answers.                                                                *)

Becomes(c, d) == calls' = (calls \ {c}) \cup {d}

\* The provider answers with a token, or without one if there is no session;
\* or cannot be reached.
TokenAnswered(c) ==
  /\ c.at = "asked"
  /\ Becomes(c, [c EXCEPT !.at = IF ~online THEN "failed"
                                 ELSE IF idp = "in" THEN "minted" ELSE "refused"])
  /\ UNCHANGED <<online, provisioned, idp, ending, seen, stored, screen, status, clicks>>

\* What is stored with an answer.
TokenUnchecked(c) == IF c.at = "minted" THEN "fresh" ELSE "undefined"
TokenOf(c) == IF c.at = "minted" THEN "fresh" ELSE stored

\* The bridge keeps the token, unless it was cancelled meanwhile.
BridgeGoesOn(c) ==
  /\ c.by = "bridge" /\ c.at \in {"minted", "refused", "failed"}
  /\ stored' = IF c.live THEN TokenOf(c) ELSE stored
  /\ calls' = calls \ {c}
  /\ UNCHANGED <<online, provisioned, idp, ending, seen, screen, status, clicks>>

\* The sign-in screen keeps it in any case, and asks the API who this is.
LoginGoesOn(c) ==
  /\ c.by = "login" /\ c.at \in {"minted", "refused"}
  /\ stored' = TokenOf(c)
  /\ Becomes(c, Me("login", c.live, TokenOf(c)))
  /\ UNCHANGED <<online, provisioned, idp, ending, seen, screen, status, clicks>>

\* GET /me: without a token nothing is sent, and it counts as refused.
MeAnswer(header) ==
  IF header = "none" THEN "refused"
  ELSE IF ~online THEN "failed"
  ELSE IF header = "fresh" /\ provisioned THEN "ok" ELSE "refused"

\* Where the sign-in screen goes on to.
RoutesHomeAnyway(answer) == answer # "failed"
RoutesHome(answer) == answer = "ok"

\* The sign-in screen routes home, or says why not, if it is still there.
LoginAnswered(c) ==
  LET answer == IF c.at = "failed" THEN "failed" ELSE MeAnswer(c.header)
      rest == calls \ {c} IN
  /\ c.by = "login" /\ c.at \in {"failed", "me"}
  /\ IF c.live /\ RoutesHome(answer) THEN ShowApp(stored, Cancel("login", rest))
     ELSE /\ calls' = rest
          /\ status' = IF ~c.live THEN status
                       ELSE IF answer = "refused" THEN "pending" ELSE "error"
          /\ UNCHANGED screen
  /\ UNCHANGED <<online, provisioned, idp, ending, seen, stored, clicks>>

\* The shell shows the app, or stays as it is if the API cannot be reached.  If
\* the API refuses, the tab goes to the sign-in screen, whatever it shows by now.
ShellAnswered(c) ==
  LET answer == MeAnswer(c.header)
      rest == calls \ {c} IN
  /\ c.by = "shell"
  /\ IF answer = "refused" /\ screen # "login" THEN ShowLogin(seen, rest)
     ELSE /\ calls' = rest
          /\ screen' = IF ~c.live THEN screen ELSE IF answer = "ok" THEN "shown" ELSE "stuck"
          /\ UNCHANGED status
  /\ UNCHANGED <<online, provisioned, idp, ending, seen, stored, clicks>>

\* The request to end the session arrives, or fails unnoticed.
SessionEnds ==
  /\ ending /\ ending' = FALSE
  /\ idp' = IF online THEN "out" ELSE idp
  /\ UNCHANGED <<online, provisioned, seen, stored, calls, screen, status, clicks>>

-----------------------------------------------------------------------------
(* The person, the network and time.                                       *)

Click == clicks < MaxClicks /\ clicks' = clicks + 1

\* signOut: the token goes at once, the session at the provider when the
\* request arrives; the sign-in screen is shown meanwhile.
SignOut ==
  /\ Click /\ screen # "login"
  /\ stored' = "none"
  /\ ending' = TRUE
  /\ ShowLogin(seen, calls)
  /\ UNCHANGED <<online, provisioned, idp, seen>>

\* Offered to somebody who has a session but is not let in.
SignInAsSomeoneElse ==
  /\ Click /\ screen = "login" /\ seen = "in" /\ status \in {"pending", "error"}
  /\ ending' = TRUE
  /\ UNCHANGED <<online, provisioned, idp, seen, stored, calls, screen, status>>

\* Another address in the tab: its scripts start anew, and a request to end the
\* session may have arrived before.
Reload(session) ==
  /\ ending' = FALSE
  /\ seen' = "pending" /\ idp' = session
  /\ status' = "idle"
  /\ UNCHANGED <<online, provisioned, stored>>

\* The provider sends the person back with a session.
SignIn ==
  /\ Click /\ screen = "login" /\ seen = "out" /\ online
  /\ Reload("in")
  /\ calls' = {}
  /\ UNCHANGED screen

Reopen(toApp) ==
  /\ Click
  /\ \E session \in {idp} \cup (IF ending /\ online THEN {"out"} ELSE {}) : Reload(session)
  /\ IF toApp /\ stored # "none"
     THEN screen' = "asking" /\ calls' = {Me("shell", TRUE, stored)}
     ELSE screen' = "login" /\ calls' = {}

\* A link, or the back button.
Navigate ==
  /\ Click
  /\ IF screen = "login" THEN ShowApp(stored, Cancel("login", calls)) ELSE ShowLogin(seen, calls)
  /\ UNCHANGED <<online, provisioned, idp, ending, seen, stored>>

\* A token lasts fifteen minutes.
Expire ==
  /\ stored = "fresh" /\ stored' = "stale"
  /\ UNCHANGED <<online, provisioned, idp, ending, seen, calls, screen, status, clicks>>

NetworkChanges ==
  /\ online' = ~online
  /\ UNCHANGED <<provisioned, idp, ending, seen, stored, calls, screen, status, clicks>>

GoesOn ==
  \/ SessionSeen \/ SessionEnds
  \/ \E c \in calls :
       TokenAnswered(c) \/ BridgeGoesOn(c) \/ LoginGoesOn(c) \/ LoginAnswered(c) \/ ShellAnswered(c)

Next ==
  \/ GoesOn \/ Refresh
  \/ SignOut \/ SignInAsSomeoneElse \/ SignIn
  \/ Navigate \/ \E toApp \in BOOLEAN : Reopen(toApp)
  \/ Expire \/ NetworkChanges

\* Requests are answered or fail, the hook learns of the session, effects run
\* and the interval passes.  What the person and the network do is not fair.
Fairness ==
  /\ WF_vars(SessionSeen) /\ WF_vars(Refresh) /\ WF_vars(SessionEnds)
  /\ \A c \in Calls :
       WF_vars(c \in calls /\ (TokenAnswered(c) \/ BridgeGoesOn(c)
                               \/ LoginGoesOn(c) \/ LoginAnswered(c) \/ ShellAnswered(c)))

Spec == Init /\ [][Next]_vars /\ Fairness

-----------------------------------------------------------------------------
(* Properties.                                                             *)

\* A refresh that was under way when the session ended brings no token back:
\* without a session only the sign-in screen stores one, with a request made
\* before (NeonTokenBridge.tsx:40-52, NeonLogin.tsx:49-50).
NoResurrection ==
  [][stored = "none" /\ stored' # "none" =>
       seen = "in" \/ \E c \in calls : c.by = "login" /\ c.at = "minted"]_vars

\* With the provider in reach the token follows the session: it is gone for good
\* some time after the session is, and never stays stale while there is one
\* (NeonTokenBridge.tsx:8-24, 36-66).
TokenFollowsSession ==
  /\ <>[](online /\ idp = "out") => <>[](stored = "none")
  /\ <>[](online /\ idp = "in") => []<>(stored = "fresh")

\* Somebody the API does not know is not sent to and fro: the tab comes to rest
\* (NeonLogin.tsx:18-20, FieldShell.tsx:27-41).
UninvitedComesToRest ==
  ~provisioned => <>[](screen = "login") \/ <>[](screen # "login")

\* Once the button was pressed the tab stores no token before somebody signs in
\* (session.ts:49-53, NeonTokenBridge.tsx:15-17).
SignOutHolds ==
  [][stored = "none" /\ stored' # "none" => ~ending]_vars
=============================================================================

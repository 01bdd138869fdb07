-------------------------- MODULE WebSessionProofs --------------------------
(***************************************************************************)
(* What holds of WebSession however often the person clicks.               *)
(***************************************************************************)
EXTENDS WebSession, TLAPS

TokenCalls ==
  [by : {"bridge", "login"}, at : {"asked", "minted", "refused", "failed"}, live : BOOLEAN]

\* Cancelled calls are calls, and no others than before are live.
LEMMA Cancelled ==
  ASSUME NEW who, NEW cs \in SUBSET Calls
  PROVE  /\ Cancel(who, cs) \subseteq Calls
         /\ \A c \in Cancel(who, cs) : c.by # who => c \in cs
         /\ \A c \in Cancel(who, cs) : c.live => c \in cs /\ c.by # who
<1>1. \A c \in Calls : [c EXCEPT !.live = FALSE] \in Calls
  BY DEF Calls
<1>2. \A c \in Calls : [c EXCEPT !.live = FALSE].live = FALSE /\ [c EXCEPT !.live = FALSE].by = c.by
  BY DEF Calls
<1> QED
  BY <1>1, <1>2 DEF Cancel

\* The calls that are made.
LEMMA Made ==
  /\ \A who \in {"bridge", "login"} : Ask(who) \subseteq Calls
  /\ \A who \in {"login", "shell"}, live \in BOOLEAN, token \in Tokens :
       Me(who, live, token) \in Calls /\ Me(who, live, token).by = who
  /\ \A c \in Ask("login") : c.by = "login"
BY DEF Ask, Me, Calls

\* A live call of the bridge was made for a session the hook still reports.
BridgeHasSession == \A c \in calls : c.by = "bridge" /\ c.live => seen = "in"

\* The types these facts rest on.
Typed ==
  /\ idp \in {"in", "out"} /\ seen \in {"pending", "in", "out"}
  /\ stored \in Tokens /\ calls \subseteq Calls

\* The calls after a screen is shown are calls, and the bridge's are among those before.
LEMMA Shown ==
  ASSUME Typed, NEW cs \in SUBSET Calls, NEW session \in {"pending", "in", "out"},
         NEW token \in Tokens,
         ShowLogin(session, cs) \/ ShowApp(token, cs)
  PROVE  calls' \subseteq Calls /\ \A c \in calls' : c.by = "bridge" => c \in cs
<1>1. ASSUME NEW s, ShowLogin(s, cs)
      PROVE  calls' \subseteq Calls /\ \A c \in calls' : c.by = "bridge" => c \in cs
  <2>1. calls' \subseteq Cancel("shell", cs) \cup Ask("login")
    BY <1>1 DEF ShowLogin
  <2> QED
    BY <2>1, Cancelled, Made
<1>2. CASE ShowApp(token, cs)
  BY <1>1, <1>2, Made DEF ShowApp
<1> QED
  BY <1>1, <1>2

-----------------------------------------------------------------------------
(* The calls under way, one step later.                                    *)

\* The answer of one call leaves the others as they are.
LEMMA AnswersStand ==
  ASSUME Typed, NEW c \in calls,
         TokenAnswered(c) \/ BridgeGoesOn(c) \/ LoginGoesOn(c) \/ LoginAnswered(c) \/ ShellAnswered(c)
  PROVE  /\ seen' = seen /\ calls' \subseteq Calls
         /\ \A d \in calls' : d.by = "bridge" /\ d.live =>
              d \in calls \/ (c.by = "bridge" /\ c.live)
<1> c \in Calls /\ calls \ {c} \in SUBSET Calls /\ seen \in {"pending", "in", "out"}
  BY DEF Typed
<1>1. CASE TokenAnswered(c)
  <2>1. PICK at \in {"minted", "refused", "failed"} : Becomes(c, [c EXCEPT !.at = at])
    BY <1>1 DEF TokenAnswered
  <2>2. c \in TokenCalls
    BY <1>1 DEF TokenAnswered, Calls, TokenCalls
  <2>3. [c EXCEPT !.at = at] \in TokenCalls /\ [c EXCEPT !.at = at].live = c.live
        /\ [c EXCEPT !.at = at].by = c.by
    BY <2>2 DEF TokenCalls
  <2> QED
    BY <1>1, <2>1, <2>3 DEF TokenAnswered, Becomes, TokenCalls, Calls
<1>2. CASE BridgeGoesOn(c)
  BY <1>2 DEF BridgeGoesOn
<1>3. CASE LoginGoesOn(c)
  <2>1. TokenOf(c) \in Tokens /\ c.live \in BOOLEAN
    BY DEF TokenOf, Tokens, Typed, Calls
  <2> QED
    BY <1>3, <2>1, Made DEF LoginGoesOn, Becomes
<1>4. CASE LoginAnswered(c)
  <2>1. CASE calls' = calls \ {c}
    BY <1>4, <2>1 DEF LoginAnswered
  <2>2. CASE ShowApp(stored, Cancel("login", calls \ {c}))
    <3>1. Cancel("login", calls \ {c}) \in SUBSET Calls
      BY Cancelled
    <3>2. calls' \subseteq Calls /\ \A d \in calls' : d.by = "bridge" => d \in calls
      BY <2>2, <3>1, Shown, Cancelled DEF Typed
    <3> QED
      BY <1>4, <3>2 DEF LoginAnswered
  <2> QED
    BY <1>4, <2>1, <2>2 DEF LoginAnswered
<1>5. CASE ShellAnswered(c)
  <2>1. CASE calls' = calls \ {c}
    BY <1>5, <2>1 DEF ShellAnswered
  <2>2. CASE ShowLogin(seen, calls \ {c})
    BY <1>5, <2>2, Shown DEF ShellAnswered, Typed
  <2> QED
    BY <1>5, <2>1, <2>2 DEF ShellAnswered
<1> QED
  BY <1>1, <1>2, <1>3, <1>4, <1>5

\* The session the hook learns of cancels what the bridge asked before.
LEMMA SeenStands ==
  ASSUME Typed, SessionSeen
  PROVE  /\ calls' \subseteq Calls
         /\ \A c \in calls' : c.by = "bridge" /\ c.live => seen' = "in"
<1> DEFINE bridged == Cancel("bridge", calls)
           asked == IF Learned = "in" THEN bridged \cup Ask("bridge") ELSE bridged
<1>1. asked \in SUBSET Calls
  BY Cancelled, Made DEF Typed
<1>2. \A c \in asked : c.by = "bridge" /\ c.live => Learned = "in"
  BY Cancelled DEF Typed
<1> HIDE DEF asked
<1>3. seen' = Learned
  BY DEF SessionSeen
<1>4. CASE calls' = asked
  BY <1>1, <1>2, <1>3, <1>4
<1>5. CASE ShowLogin(Learned, Cancel("login", asked))
  <2>1. Cancel("login", asked) \in SUBSET Calls
    BY <1>1, Cancelled
  <2>2. calls' \subseteq Cancel("shell", Cancel("login", asked)) \cup Ask("login")
    BY <1>5 DEF ShowLogin
  <2>3. \A c \in Cancel("shell", Cancel("login", asked)) :
          c \in Calls /\ (c.by = "bridge" => c \in asked)
    BY <1>1, <2>1, Cancelled
  <2>4. \A c \in Ask("login") : c \in Calls /\ c.by = "login"
    BY Made
  <2> QED
    BY <1>2, <1>3, <2>2, <2>3, <2>4
<1> QED
  BY <1>4, <1>5 DEF SessionSeen, asked

\* The hook, the token and the calls one step later.
LEMMA SessionStep == Typed /\ BridgeHasSession /\ [Next]_vars => Typed' /\ BridgeHasSession'
<1> SUFFICES ASSUME Typed, BridgeHasSession, [Next]_vars PROVE Typed' /\ BridgeHasSession'
  OBVIOUS
<1> DEFINE Good == /\ calls' \subseteq Calls
                   /\ \A c \in calls' : c.by = "bridge" /\ c.live => seen' = "in"
<1>1. ASSUME NEW c \in calls,
             TokenAnswered(c) \/ BridgeGoesOn(c) \/ LoginGoesOn(c) \/ LoginAnswered(c) \/ ShellAnswered(c)
      PROVE  Good
  BY <1>1, AnswersStand DEF BridgeHasSession, Typed
<1>2. ASSUME SessionSeen PROVE Good
  BY <1>2, SeenStands
<1>3. ASSUME Refresh PROVE Good
  BY <1>3, Made DEF Refresh, Typed, BridgeHasSession
<1>4. ASSUME SignOut PROVE Good
  BY <1>4, Shown DEF SignOut, Typed, BridgeHasSession, Tokens
<1>5. ASSUME Navigate PROVE Good
  <2>1. Cancel("login", calls) \in SUBSET Calls /\ calls \in SUBSET Calls
    BY Cancelled DEF Typed
  <2>2. calls' \subseteq Calls /\ \A c \in calls' : c.by = "bridge" => c \in calls
    BY <1>5, <2>1, Shown, Cancelled DEF Navigate, Typed
  <2> QED
    BY <1>5, <2>2 DEF Navigate, BridgeHasSession
<1>6. ASSUME SignIn \/ \E toApp \in BOOLEAN : Reopen(toApp) PROVE Good
  BY <1>6, Made DEF SignIn, Reopen, Typed
<1>7. ASSUME SessionEnds \/ SignInAsSomeoneElse \/ Expire \/ NetworkChanges \/ UNCHANGED vars PROVE Good
  BY <1>7 DEF SessionEnds, SignInAsSomeoneElse, Expire, NetworkChanges, vars, Typed,
              BridgeHasSession
<1>8. Good
  BY <1>1, <1>2, <1>3, <1>4, <1>5, <1>6, <1>7 DEF Next, GoesOn
<1>9. seen' \in {"pending", "in", "out"} /\ stored' \in Tokens
  <2>1. ASSUME NEW c \in calls,
               TokenAnswered(c) \/ BridgeGoesOn(c) \/ LoginGoesOn(c) \/ LoginAnswered(c) \/ ShellAnswered(c)
        PROVE  seen' = seen /\ stored' \in Tokens
    BY <2>1 DEF TokenAnswered, BridgeGoesOn, LoginGoesOn, LoginAnswered, ShellAnswered, TokenOf,
                Tokens, Typed
  <2>2. ASSUME SessionSeen \/ Refresh
        PROVE  seen' \in {"pending", "in", "out"} /\ stored' \in Tokens
    <3>1. Learned \in {"in", "out"}
      BY DEF Learned, Typed
    <3> QED
      BY <2>2, <3>1 DEF SessionSeen, Refresh, TokenAfter, Tokens, Typed
  <2>3. ASSUME \/ SignOut \/ Navigate \/ SignIn \/ \E toApp \in BOOLEAN : Reopen(toApp)
               \/ SessionEnds \/ SignInAsSomeoneElse \/ Expire \/ NetworkChanges \/ UNCHANGED vars
        PROVE  seen' \in {"pending", "in", "out"} /\ stored' \in Tokens
    BY <2>3 DEF SignOut, Navigate, SignIn, Reopen, Reload, SessionEnds, SignInAsSomeoneElse, Expire,
                NetworkChanges, vars, Tokens, Typed
  <2> QED
    BY <2>1, <2>2, <2>3 DEF Next, GoesOn, Typed
<1>10. idp' \in {"in", "out"}
  BY DEF Next, GoesOn, SessionSeen, SessionEnds, TokenAnswered, BridgeGoesOn, LoginGoesOn,
         LoginAnswered, ShellAnswered, Refresh, SignOut, SignInAsSomeoneElse, SignIn, Navigate,
         Reopen, Reload, Expire, NetworkChanges, vars, Typed
<1> QED
  BY <1>8, <1>9, <1>10 DEF Typed, BridgeHasSession

\* What the person, the network and the screens are, one step later.
LEMMA RestTyped ==
  ASSUME TypeOK, [Next]_vars
  PROVE  /\ {online', provisioned', ending'} \subseteq BOOLEAN
         /\ screen' \in Screens
         /\ status' \in {"idle", "routing", "pending", "error"}
         /\ clicks' \in 0..MaxClicks
<1> USE DEF TypeOK, Screens
<1>1. ASSUME NEW session, NEW cs, ShowLogin(session, cs)
      PROVE  screen' = "login" /\ status' \in {"idle", "routing"}
  BY <1>1 DEF ShowLogin
<1>2. ASSUME NEW token, NEW cs, ShowApp(token, cs)
      PROVE  screen' \in Screens /\ (status' = status \/ status' \in {"idle", "routing"})
  BY <1>1, <1>2 DEF ShowApp
<1>3. screen' \in Screens /\ status' \in {"idle", "routing", "pending", "error"}
  <2>1. ASSUME NEW c \in calls, LoginAnswered(c) \/ ShellAnswered(c)
        PROVE  screen' \in Screens /\ status' \in {"idle", "routing", "pending", "error"}
    <3>1. CASE LoginAnswered(c)
      BY <1>2, <3>1 DEF LoginAnswered
    <3>2. CASE ShellAnswered(c)
      BY <1>1, <3>2 DEF ShellAnswered
    <3> QED
      BY <2>1, <3>1, <3>2
  <2>2. ASSUME NEW c \in calls, TokenAnswered(c) \/ BridgeGoesOn(c) \/ LoginGoesOn(c)
        PROVE  screen' = screen /\ status' = status
    BY <2>2 DEF TokenAnswered, BridgeGoesOn, LoginGoesOn
  <2>3. ASSUME SessionSeen \/ SignOut \/ Navigate
        PROVE  screen' \in Screens /\ status' \in {"idle", "routing", "pending", "error"}
    BY <1>1, <1>2, <2>3 DEF SessionSeen, SignOut, Navigate
  <2>4. ASSUME SignIn \/ \E toApp \in BOOLEAN : Reopen(toApp)
        PROVE  screen' \in Screens /\ status' = "idle"
    BY <2>4 DEF SignIn, Reopen, Reload
  <2>5. ASSUME \/ SessionEnds \/ Refresh \/ SignInAsSomeoneElse \/ Expire \/ NetworkChanges
               \/ UNCHANGED vars
        PROVE  screen' = screen /\ status' = status
    BY <2>5 DEF SessionEnds, Refresh, SignInAsSomeoneElse, Expire, NetworkChanges, vars
  <2> QED
    BY <2>1, <2>2, <2>3, <2>4, <2>5 DEF Next, GoesOn
<1>4. \/ clicks' = clicks
      \/ clicks < MaxClicks /\ clicks' = clicks + 1
  BY DEF Next, GoesOn, SessionSeen, SessionEnds, TokenAnswered, BridgeGoesOn, LoginGoesOn,
         LoginAnswered, ShellAnswered, Refresh, SignOut, SignInAsSomeoneElse, SignIn, Navigate,
         Reopen, Click, Expire, NetworkChanges, vars
<1>5. clicks' \in 0..MaxClicks
  BY <1>4, WebSessionAssumption DEF WebSessionAssumption
<1>6. /\ online' = online \/ online' = ~online
      /\ provisioned' = provisioned
      /\ ending' = ending \/ ending' \in BOOLEAN
  BY DEF Next, GoesOn, SessionSeen, SessionEnds, TokenAnswered, BridgeGoesOn, LoginGoesOn,
         LoginAnswered, ShellAnswered, Refresh, SignOut, SignInAsSomeoneElse, SignIn, Navigate,
         Reopen, Reload, Expire, NetworkChanges, vars
<1> QED
  BY <1>3, <1>5, <1>6

\* Every reachable state is one the tab can be in.
THEOREM TypeCorrect == Spec => []TypeOK
<1> DEFINE IInv == TypeOK /\ BridgeHasSession
<1>1. Init => IInv
  <2>1. 0 \in 0..MaxClicks
    BY WebSessionAssumption DEF WebSessionAssumption
  <2>2. Init => {online, provisioned, ending} \subseteq BOOLEAN
    BY DEF Init
  <2> QED
    BY <2>1, <2>2 DEF Init, TypeOK, BridgeHasSession, Screens
<1>2. IInv /\ [Next]_vars => IInv'
  <2> SUFFICES ASSUME IInv, [Next]_vars PROVE IInv'
    OBVIOUS
  <2>1. Typed
    BY DEF Typed, TypeOK
  <2>2. Typed' /\ BridgeHasSession'
    BY <2>1, SessionStep
  <2> QED
    BY <2>2, RestTyped DEF Typed, TypeOK
<1>3. IInv => TypeOK
  OBVIOUS
<1> QED
  BY <1>1, <1>2, <1>3, PTL DEF Spec

\* A token appears where there was none in two ways only.
LEMMA TokenAppears ==
  ASSUME Typed, BridgeHasSession, [Next]_vars, stored = "none", stored' # "none"
  PROVE  seen = "in" \/ \E c \in calls : c.by = "login" /\ c.at = "minted"
<1>1. ASSUME NEW c \in calls, BridgeGoesOn(c) PROVE seen = "in"
  BY <1>1 DEF BridgeGoesOn, TokenOf, BridgeHasSession
<1>2. ASSUME NEW c \in calls, LoginGoesOn(c) PROVE c.by = "login" /\ c.at = "minted"
  BY <1>2 DEF LoginGoesOn, TokenOf
<1>3. \/ \E c \in calls : BridgeGoesOn(c) \/ LoginGoesOn(c)
      \/ stored' = stored \/ stored' = "none" \/ stored = "fresh"
  BY DEF Next, GoesOn, SessionSeen, SessionEnds, TokenAnswered, LoginAnswered, ShellAnswered,
         Refresh, TokenAfter, SignOut, SignInAsSomeoneElse, SignIn, Navigate, Reopen, Reload,
         Expire, NetworkChanges, vars
<1> QED
  BY <1>1, <1>2, <1>3

\* The hook, the token and the calls are what they may be in every reachable
\* state, and no live call of the bridge outlasts the session it was made for:
\* so a refresh under way when the session ends brings no token back
\* (NeonTokenBridge.tsx:40-52, NeonLogin.tsx:49-50).
THEOREM EndedStaysEnded == Spec => NoResurrection
<1>1. Init => Typed /\ BridgeHasSession
  BY DEF Init, Typed, BridgeHasSession
<1>2. Typed /\ BridgeHasSession /\ [Next]_vars =>
        [stored = "none" /\ stored' # "none" =>
           seen = "in" \/ \E c \in calls : c.by = "login" /\ c.at = "minted"]_vars
  BY TokenAppears
<1> QED
  BY <1>1, <1>2, SessionStep, PTL DEF Spec, NoResurrection
=============================================================================

------------------------------- MODULE Session -------------------------------
(***************************************************************************)
(* Who is signed in: the token cookie, which the tabs of a browser share,  *)
(* the name that each tab keeps in its sessionStorage, the sign-in page,   *)
(* logout, the interceptor that reacts to 401, the check of the route      *)
(* /dashboard and the observer that signs an idle user out.                *)
(*                                                                         *)
(* Time passes in ticks of a few minutes; requests, renders and effects    *)
(* take no tick of their own.                                              *)
(***************************************************************************)
EXTENDS Naturals

CONSTANTS Tabs, Users,
          Quiet,     \* the tabs in which the user may be still for a tick
          Warn,      \* TIMEOUT_DURATION - WARNING_THRESHOLD, in ticks
          Timeout,   \* TIMEOUT_DURATION
          Lifetime,  \* tokenExpiry
          Sleeps,    \* whether the machine may be asleep while a timer is due
          None

ASSUME SessionAssumption ==
  /\ Warn \in Nat \ {0} /\ Timeout \in Nat /\ Warn < Timeout
  /\ Lifetime \in Nat \ {0}
  /\ Sleeps \in BOOLEAN /\ Quiet \subseteq Tabs
  /\ Tabs # {} /\ None \notin Users \cup Nat

Screens == {"login", "home", "page"}   \* /login, /dashboard, what is below it

VARIABLES
  cookie, left,   \* the user of the token (None: no cookie), ticks until it expires
  screen,         \* each tab: the route it shows
  hint,           \* auth_user in the tab's sessionStorage
  login,          \* a sign-in is under way
  signed,         \* the user for whom its answer has set the cookie, until onSuccess runs
  toast,          \* "Authenticated" is shown
  leaving,        \* a logout is under way
  bare,           \* a request of a query, sent when there was no cookie
  watch,          \* the idle observer and the ticks since the user last moved
  last            \* history: the tab that made the session; None when there is no session, or
                  \* the tab was reloaded before onSuccess

browser == <<cookie, left>>
signin == <<login, signed, toast>>
vars == <<browser, screen, hint, signin, leaving, bare, watch, last>>

(* showWarning, the value the running effect was made with, the two timers *)
(* (ticks until they are due, or None).                                    *)
Unmounted == [warning |-> FALSE, effect |-> FALSE, warnIn |-> None, logoutIn |-> None, idle |-> 0]

(* Variant: an old logout timer is not cleared. *)
StartTimersKeepsOld(w) ==
  [w EXCEPT !.warning = FALSE, !.warnIn = Warn, !.logoutIn = IF w.logoutIn = None THEN Timeout ELSE w.logoutIn]

StartTimers(w) == [w EXCEPT !.warning = FALSE, !.warnIn = Warn, !.logoutIn = Timeout]

(* Where a navigation to s ends: proxy() asks for the cookie, and the page *)
(* /dashboard for the hint.                                                *)
Lands(t, s) ==
  IF s # "login" /\ (cookie = None \/ (s = "home" /\ hint[t] = None)) THEN "login" ELSE s

(* Variant: the timers are not cleared on the way out. *)
ObservedOutside(t, s) == IF screen[t] = "login" THEN StartTimers(Unmounted) ELSE watch[t]

(* The observer is part of the layout of /dashboard: it is mounted on the  *)
(* way in, stays between pages and is unmounted on the way out.            *)
Observed(t, s) ==
  IF s = "login" THEN Unmounted
  ELSE IF screen[t] = "login" THEN StartTimers(Unmounted) ELSE watch[t]

Init ==
  /\ cookie = None /\ left = 0
  /\ screen = [t \in Tabs |-> "login"] /\ hint = [t \in Tabs |-> None]
  /\ login = [t \in Tabs |-> FALSE] /\ signed = [t \in Tabs |-> None] /\ toast = [t \in Tabs |-> FALSE]
  /\ leaving = [t \in Tabs |-> FALSE] /\ bare = [t \in Tabs |-> FALSE]
  /\ watch = [t \in Tabs |-> Unmounted]
  /\ last = None

-----------------------------------------------------------------------------
(* router.push, and a link.                                                *)
Push(t, s) ==
  /\ screen' = [screen EXCEPT ![t] = Lands(t, s)]
  /\ watch' = [watch EXCEPT ![t] = Observed(t, Lands(t, s))]

(* The document is loaded again: what its scripts waited for is lost.      *)
Load(t, s) ==
  /\ screen' = [screen EXCEPT ![t] = s]
  /\ watch' = [watch EXCEPT ![t] = IF s = "login" THEN Unmounted ELSE StartTimers(Unmounted)]
  /\ login' = [login EXCEPT ![t] = FALSE] /\ toast' = [toast EXCEPT ![t] = FALSE]
  /\ signed' = [signed EXCEPT ![t] = None]
  /\ leaving' = [leaving EXCEPT ![t] = FALSE] /\ bare' = [bare EXCEPT ![t] = FALSE]
  /\ last' = IF last = t /\ signed[t] # None THEN None ELSE last

Navigate(t) ==
  /\ screen[t] # "login"
  /\ \E s \in {"home", "page"} : Push(t, s)
  /\ UNCHANGED <<browser, hint, signin, leaving, bare, last>>

(* The user types a URL, or reloads.                                       *)
Open(t) ==
  /\ \E s \in Screens : Load(t, Lands(t, s))
  /\ UNCHANGED <<browser, hint>>

(* onSubmit: the button is disabled while the mutation is pending, and     *)
(* enabled again under the toast.                                          *)
Submit(t) ==
  /\ screen[t] = "login" /\ ~login[t]
  /\ login' = [login EXCEPT ![t] = TRUE]
  /\ UNCHANGED <<browser, screen, hint, signed, toast, leaving, bare, watch, last>>

(* The answer of Login, whose Set-Cookie the browser obeys at once.        *)
LoginAnswered(t) ==
  /\ login[t] /\ signed[t] = None
  /\ \E u \in Users : cookie' = u /\ left' = Lifetime /\ signed' = [signed EXCEPT ![t] = u]
  /\ last' = t
  /\ UNCHANGED <<screen, hint, login, toast, leaving, bare, watch>>

(* Variant: a name that is there is kept. *)
LoginArrivesKeepsName(t) ==
  /\ signed[t] # None
  /\ hint' = [hint EXCEPT ![t] = IF @ = None THEN signed[t] ELSE @]
  /\ login' = [login EXCEPT ![t] = FALSE] /\ toast' = [toast EXCEPT ![t] = TRUE]
  /\ signed' = [signed EXCEPT ![t] = None]
  /\ UNCHANGED <<browser, screen, leaving, bare, watch, last>>

(* onSuccess, when the script gets the answer.                             *)
LoginArrives(t) ==
  /\ signed[t] # None
  /\ hint' = [hint EXCEPT ![t] = signed[t]]
  /\ login' = [login EXCEPT ![t] = FALSE] /\ toast' = [toast EXCEPT ![t] = TRUE]
  /\ signed' = [signed EXCEPT ![t] = None]
  /\ UNCHANGED <<browser, screen, leaving, bare, watch, last>>

(* toast().then(() => router.push("/dashboard")).                          *)
ToastEnds(t) ==
  /\ toast[t]
  /\ toast' = [toast EXCEPT ![t] = FALSE]
  /\ Push(t, "home")
  /\ UNCHANGED <<browser, hint, login, signed, leaving, bare, last>>

(* Variant: the tab stays where it is. *)
UnauthorizedStays(t, trying, asking) ==
  /\ hint' = [hint EXCEPT ![t] = None]
  /\ login' = trying /\ bare' = asking
  /\ UNCHANGED <<screen, watch, signed, toast, leaving, last>>

(* The interceptor, on 401: a page other than /login is left for /login,   *)
(* which is loaded; on /login the request just ends.                       *)
Unauthorized(t, trying, asking) ==
  /\ hint' = [hint EXCEPT ![t] = None]
  /\ IF screen[t] # "login" THEN Load(t, "login")
     ELSE /\ login' = trying /\ bare' = asking
          /\ UNCHANGED <<screen, watch, signed, toast, leaving, last>>

(* onError of the sign-in: wrong credentials are a 401.                    *)
LoginFails(t) ==
  LET ended == [login EXCEPT ![t] = FALSE] IN
  /\ login[t] /\ signed[t] = None
  /\ \/ Unauthorized(t, ended, bare)
     \/ /\ login' = ended
        /\ UNCHANGED <<screen, hint, signed, toast, leaving, bare, watch, last>>
  /\ UNCHANGED browser

(* A query of the page shown is sent, by its refetchInterval or because    *)
(* of what the user does, and there is no cookie to send with it: the      *)
(* middleware refuses it.  Other requests change nothing here.             *)
Ask(t) ==
  /\ screen[t] # "login" /\ cookie = None /\ ~bare[t]
  /\ bare' = [bare EXCEPT ![t] = TRUE]
  /\ UNCHANGED <<browser, screen, hint, signin, leaving, watch, last>>

Refused(t) ==
  /\ bare[t]
  /\ Unauthorized(t, login, [bare EXCEPT ![t] = FALSE])
  /\ UNCHANGED browser

(* The connection failed.                                                  *)
Unreached(t) ==
  /\ bare[t]
  /\ bare' = [bare EXCEPT ![t] = FALSE]
  /\ UNCHANGED <<browser, screen, hint, signin, leaving, watch, last>>

(* handleLogout of the user's menu, or the button of the warning.          *)
Logout(t) ==
  /\ screen[t] # "login" /\ ~leaving[t]
  /\ leaving' = [leaving EXCEPT ![t] = TRUE]
  /\ UNCHANGED <<browser, screen, hint, signin, bare, watch, last>>

(* The answer clears the cookie; a failure is logged and leaves it.  Both  *)
(* forget the name and go to /login.                                       *)
LogoutEnds(t) ==
  /\ leaving[t]
  /\ leaving' = [leaving EXCEPT ![t] = FALSE]
  /\ \/ cookie' = None /\ left' = 0
     \/ UNCHANGED browser
  /\ hint' = [hint EXCEPT ![t] = None]
  /\ screen' = [screen EXCEPT ![t] = "login"]
  /\ watch' = [watch EXCEPT ![t] = Unmounted]
  /\ last' = IF cookie' = None THEN None ELSE last
  /\ UNCHANGED <<signin, bare>>

-----------------------------------------------------------------------------
(* The idle observer.                                                      *)
Watching(t, w) ==
  /\ watch' = [watch EXCEPT ![t] = w]
  /\ UNCHANGED <<browser, screen, hint, signin, bare, last>>

(* resetActivity: the listener of the effect that ran last.                *)
Activity(t) ==
  /\ screen[t] # "login"
  /\ Watching(t, [(IF watch[t].effect THEN watch[t] ELSE StartTimers(watch[t])) EXCEPT !.idle = 0])
  /\ UNCHANGED leaving

(* "Saya Masih Disini", while the dialog is on the screen.                 *)
StillHere(t) ==
  /\ watch[t].effect
  /\ Watching(t, [StartTimers(watch[t]) EXCEPT !.idle = 0])
  /\ UNCHANGED leaving

WarnFires(t) ==
  /\ watch[t].warnIn = 0
  /\ Watching(t, [watch[t] EXCEPT !.warnIn = None, !.warning = TRUE])
  /\ UNCHANGED leaving

(* showWarning has changed, so resetActivity has, so the effect is cleaned *)
(* up, which clears the timers, and runs again, which starts them.         *)
Effect(t) ==
  /\ watch[t].effect # watch[t].warning
  /\ Watching(t, [StartTimers([watch[t] EXCEPT !.warnIn = None, !.logoutIn = None])
                  EXCEPT !.effect = watch[t].warning])
  /\ UNCHANGED leaving

(* Timers fire in the order in which they were due.                        *)
LogoutFires(t) ==
  /\ watch[t].logoutIn = 0 /\ watch[t].warnIn # 0
  /\ Watching(t, [watch[t] EXCEPT !.logoutIn = None])
  /\ leaving' = [leaving EXCEPT ![t] = TRUE]

(* What a tick does to an observer.                                        *)
Older(n) == IF n = None \/ n = 0 THEN n ELSE n - 1
Pass(w) ==
  IF w = Unmounted THEN w
  ELSE [w EXCEPT !.warnIn = Older(@), !.logoutIn = Older(@), !.idle = IF @ = Timeout THEN @ ELSE @ + 1]

(* A timer that is due fires before the next tick, unless the machine is   *)
(* asleep.  The cookie and the token expire together.  In a tab that is    *)
(* not in Quiet the user moves within every tick, so that none is counted. *)
Tick ==
  /\ \A t \in Tabs : /\ watch[t].effect = watch[t].warning
                     /\ Sleeps \/ (watch[t].warnIn # 0 /\ watch[t].logoutIn # 0)
  /\ left' = IF left = 0 THEN 0 ELSE left - 1
  /\ cookie' = IF left' = 0 THEN None ELSE cookie
  /\ watch' = [t \in Tabs |-> IF t \in Quiet THEN Pass(watch[t]) ELSE watch[t]]
  /\ last' = IF cookie' = None THEN None ELSE last
  /\ UNCHANGED <<screen, hint, signin, leaving, bare>>

Next ==
  \/ Tick
  \/ \E t \in Tabs :
       \/ Navigate(t) \/ Open(t)
       \/ Submit(t) \/ LoginAnswered(t) \/ LoginArrives(t) \/ LoginFails(t) \/ ToastEnds(t)
       \/ Ask(t) \/ Refused(t) \/ Unreached(t)
       \/ Logout(t) \/ LogoutEnds(t)
       \/ Activity(t) \/ StillHere(t) \/ WarnFires(t) \/ Effect(t) \/ LogoutFires(t)

(* The home page of a visible tab sends its queries every 5 seconds, and a *)
(* network that fails now and then lets a refusal through some time.       *)
Fairness == \A t \in Tabs : WF_vars(Ask(t) /\ screen[t] = "home") /\ SF_vars(Refused(t))

Spec == Init /\ [][Next]_vars
FairSpec == Spec /\ Fairness

-----------------------------------------------------------------------------
(* The state space.                                                        *)
Clock(n) == 0..n \cup {None}

TypeOK ==
  /\ cookie \in Users \cup {None} /\ left \in 0..Lifetime
  /\ (cookie = None) <=> (left = 0)
  /\ screen \in [Tabs -> Screens]
  /\ hint \in [Tabs -> Users \cup {None}]
  /\ login \in [Tabs -> BOOLEAN] /\ toast \in [Tabs -> BOOLEAN]
  /\ leaving \in [Tabs -> BOOLEAN] /\ bare \in [Tabs -> BOOLEAN]
  /\ watch \in [Tabs -> [warning : BOOLEAN, effect : BOOLEAN, warnIn : Clock(Warn),
                         logoutIn : Clock(Timeout), idle : 0..Timeout]]
  /\ \A t \in Tabs : screen[t] = "login" => watch[t] = Unmounted
  /\ signed \in [Tabs -> Users \cup {None}]
  /\ \A t \in Tabs : signed[t] # None => login[t]
  /\ last \in Tabs \cup {None}

(* The tab whose sign-in set the cookie last shows, if it shows a name,    *)
(* the name of the user whose token the browser sends, once its script has *)
(* got the answer: sign-ins of two tabs that cross, names left over from a *)
(* session that expired and late refusals do not leave it with somebody    *)
(* else's.  A page that is reloaded before onSuccess keeps its old name.   *)
NameMatchesSession ==
  last # None => signed[last] # None \/ hint[last] \in {None, cookie}

(* The overview is only shown by a tab that knows who signed in.           *)
HomeHasUser == \A t \in Tabs : screen[t] = "home" => hint[t] # None

(* The observer's logout is only ever due in a tab whose user has not      *)
(* moved for TIMEOUT_DURATION, whatever the order of timers, renders,      *)
(* effects and sleep.                                                      *)
IdleNeverEarly == \A t \in Tabs : watch[t].logoutIn = 0 => watch[t].idle = Timeout

(* When the session has ended, by its expiry or by a logout in any tab,    *)
(* no visible tab stays on the overview, unless somebody signs in again.   *)
Expelled == cookie = None ~> cookie # None \/ \A t \in Tabs : screen[t] # "home"

(* IdleSessionObserver.tsx:8 gives the timeout as 30 minutes, and the      *)
(* dialog says that the user is then signed out: when nobody has moved for *)
(* that long, the logout is due or under way.                              *)
IdleEndsSession ==
  \A t \in Tabs : watch[t].idle = Timeout => leaving[t] \/ watch[t].logoutIn = 0
=============================================================================

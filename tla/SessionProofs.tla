---------------------------- MODULE SessionProofs ----------------------------
(* Proofs about Session for any number of tabs and users, any timeouts and *)
(* any choice of quiet tabs, awake or asleep.                              *)
EXTENDS Session, TLAPS

Watches == [warning : BOOLEAN, effect : BOOLEAN, warnIn : Clock(Warn), logoutIn : Clock(Timeout), idle : 0..Timeout]

(* An observer whose logout timer runs has counted what the timer has; and *)
(* while the effect is the one that was made under a warning, the timers   *)
(* have just been started.                                                 *)
WatchOK(w) ==
  /\ w \in Watches
  /\ w.logoutIn # None => w.idle + w.logoutIn >= Timeout
  /\ w.effect = TRUE => w.warning = FALSE /\ w.warnIn = Warn /\ w.logoutIn = Timeout

WatchesOK == \A t \in Tabs : WatchOK(watch[t])

(* Between the cookie and onSuccess, the answer under way names the user   *)
(* whose token the browser sends.                                          *)
AnswerIsCurrent == last # None => signed[last] \in {None, cookie}

IndInv == TypeOK /\ WatchesOK /\ HomeHasUser /\ NameMatchesSession /\ AnswerIsCurrent

-----------------------------------------------------------------------------
(* What the operations on one observer keep.                               *)

(* The clocks that an observer starts with are in range.                   *)
LEMMA Clocks ==
  /\ 0 \in 0..Timeout /\ {Warn, None} \subseteq Clock(Warn) /\ {Timeout, None} \subseteq Clock(Timeout)
  /\ \A n \in Clock(Timeout) : n # None => n \in 0..Timeout
  /\ None \notin Nat /\ Warn # 0 /\ Timeout # 0 /\ 0 < Warn /\ Warn < Timeout /\ Warn \in Nat /\ Timeout \in Nat
BY SessionAssumption, SMT DEF Clock

(* No observer watches outside the dashboard.                              *)
LEMMA UnmountedOK == WatchOK(Unmounted)
<1>1. Unmounted \in Watches
  BY Clocks, Zenon DEF Watches, Unmounted
<1>. QED  BY <1>1, Zenon DEF WatchOK, Unmounted

(* Restarting the timers is safe at any moment.                            *)
LEMMA StartTimersOK ==
  ASSUME NEW w \in Watches
  PROVE  WatchOK(StartTimers(w)) /\ StartTimers(w).idle = w.idle
<1> DEFINE v == StartTimers(w)
<1>1. v \in Watches
  BY Clocks, Zenon DEF Watches, StartTimers
<1>2. v.idle = w.idle /\ v.logoutIn = Timeout /\ v.warnIn = Warn /\ v.warning = FALSE
  BY SMT DEF Watches, StartTimers
<1>3. w.idle + Timeout >= Timeout
  BY Clocks, SMT DEF Watches
<1>. QED  BY <1>1, <1>2, <1>3, Zenon DEF WatchOK

(* So is noting that the user moved, when the timers are restarted or the  *)
(* effect shows that they were.                                            *)
LEMMA MovedOK ==
  ASSUME NEW w, WatchOK(w), w.logoutIn = Timeout
  PROVE  WatchOK([w EXCEPT !.idle = 0])
<1> DEFINE v == [w EXCEPT !.idle = 0]
<1>0. w \in Watches
  BY Zenon DEF WatchOK
<1>1. v \in Watches
  BY <1>0, Clocks, Zenon DEF Watches
<1>2. /\ v.idle = 0 /\ v.logoutIn = w.logoutIn /\ v.warnIn = w.warnIn
      /\ v.warning = w.warning /\ v.effect = w.effect
  BY <1>0, SMT DEF Watches
<1>3. 0 + Timeout >= Timeout
  BY Clocks, SMT
<1>. QED  BY <1>1, <1>2, <1>3, Zenon DEF WatchOK

(* A move restarts the timers unless the warning is shown.                 *)
LEMMA ActivityOK ==
  ASSUME NEW w, WatchOK(w)
  PROVE  /\ w.effect = TRUE => WatchOK([w EXCEPT !.idle = 0])
         /\ WatchOK([StartTimers(w) EXCEPT !.idle = 0])
<1>1. w \in Watches
  BY Zenon DEF WatchOK
<1>2. WatchOK(StartTimers(w)) /\ StartTimers(w).logoutIn = Timeout
  <2>1. WatchOK(StartTimers(w))
    BY <1>1, StartTimersOK, Zenon
  <2>2. StartTimers(w).logoutIn = Timeout
    BY <1>1, SMT DEF Watches, StartTimers
  <2>. QED  BY <2>1, <2>2
<1>3. w.effect = TRUE => w.logoutIn = Timeout
  BY Zenon DEF WatchOK
<1>. QED  BY <1>2, <1>3, MovedOK, Zenon

(* A due warning is shown.                                                 *)
LEMMA WarnOK ==
  ASSUME NEW w, WatchOK(w), w.warnIn = 0
  PROVE  WatchOK([w EXCEPT !.warnIn = None, !.warning = TRUE])
<1> DEFINE v == [w EXCEPT !.warnIn = None, !.warning = TRUE]
<1>0. w \in Watches
  BY Zenon DEF WatchOK
<1>1. v \in Watches
  BY <1>0, Clocks, Zenon DEF Watches
<1>2. v.idle = w.idle /\ v.logoutIn = w.logoutIn /\ v.effect = w.effect
  BY <1>0, SMT DEF Watches
<1>3. w.effect # TRUE
  BY Clocks, Zenon DEF WatchOK
<1>. QED  BY <1>1, <1>2, <1>3, Zenon DEF WatchOK

(* Running the effect again restarts the timers.                           *)
LEMMA EffectOK ==
  ASSUME NEW w, WatchOK(w), w.effect # w.warning
  PROVE  WatchOK([StartTimers([w EXCEPT !.warnIn = None, !.logoutIn = None]) EXCEPT !.effect = w.warning])
<1> DEFINE u == [w EXCEPT !.warnIn = None, !.logoutIn = None]
           v == [StartTimers(u) EXCEPT !.effect = w.warning]
<1>0. w \in Watches /\ w.warning \in BOOLEAN
  BY Zenon DEF WatchOK, Watches
<1>1. u \in Watches
  BY <1>0, Clocks, Zenon DEF Watches
<1>2. WatchOK(StartTimers(u)) /\ StartTimers(u) \in Watches
  BY <1>1, StartTimersOK, Zenon DEF WatchOK
<1>3. v \in Watches
  BY <1>0, <1>2, Zenon DEF Watches
<1>4. /\ v.idle = StartTimers(u).idle /\ v.logoutIn = StartTimers(u).logoutIn
      /\ v.warnIn = Warn /\ v.logoutIn = Timeout /\ v.warning = FALSE
  BY <1>1, <1>2, SMT DEF Watches, StartTimers
<1>. QED  BY <1>2, <1>3, <1>4, Zenon DEF WatchOK

(* The logout timer ends the watch.                                        *)
LEMMA LogoutOK ==
  ASSUME NEW w, WatchOK(w), w.logoutIn = 0
  PROVE  WatchOK([w EXCEPT !.logoutIn = None])
<1> DEFINE v == [w EXCEPT !.logoutIn = None]
<1>0. w \in Watches
  BY Zenon DEF WatchOK
<1>1. v \in Watches
  BY <1>0, Clocks, Zenon DEF Watches
<1>2. v.logoutIn = None /\ v.effect = w.effect
  BY <1>0, SMT DEF Watches
<1>3. w.effect # TRUE
  BY Clocks, Zenon DEF WatchOK
<1>. QED  BY <1>1, <1>2, <1>3, Zenon DEF WatchOK

(* The logout timer and the idle time pass together.                       *)
LEMMA PassOK ==
  ASSUME NEW w, WatchOK(w), w.effect = w.warning
  PROVE  WatchOK(Pass(w))
<1>1. CASE w = Unmounted
  BY <1>1, Zenon DEF Pass
<1>2. CASE w # Unmounted
  <2> DEFINE v == [w EXCEPT !.warnIn = Older(w.warnIn), !.logoutIn = Older(w.logoutIn),
                            !.idle = IF w.idle = Timeout THEN w.idle ELSE w.idle + 1]
  <2>0. w \in Watches
    BY Zenon DEF WatchOK
  <2>1. Older(w.warnIn) \in Clock(Warn) /\ Older(w.logoutIn) \in Clock(Timeout)
    BY <2>0, Clocks, SMT DEF Older, Clock, Watches
  <2>2. (IF w.idle = Timeout THEN w.idle ELSE w.idle + 1) \in 0..Timeout
    BY <2>0, Clocks, SMT DEF Watches
  <2>3. v \in Watches
    BY <2>0, <2>1, <2>2, Zenon DEF Watches
  <2>4. v.effect = w.effect /\ v.logoutIn = Older(w.logoutIn)
        /\ v.idle = IF w.idle = Timeout THEN w.idle ELSE w.idle + 1
    BY <2>0, SMT DEF Watches
  <2>5. ASSUME v.logoutIn # None PROVE v.idle + v.logoutIn >= Timeout
    <3>1. w.logoutIn # None /\ w.logoutIn \in 0..Timeout /\ w.idle \in 0..Timeout
      BY <2>0, <2>4, <2>5, Clocks, SMT DEF Older, Watches
    <3>2. w.idle + w.logoutIn >= Timeout
      BY <3>1, Zenon DEF WatchOK
    <3>. QED  BY <2>4, <3>1, <3>2, Clocks, SMT DEF Older
  <2>6. w.effect # TRUE
    BY Zenon DEF WatchOK
  <2>7. WatchOK(v)
    BY <2>3, <2>4, <2>5, <2>6, Zenon DEF WatchOK
  <2>. QED  BY <1>2, <2>7, Zenon DEF Pass
<1>. QED  BY <1>1, <1>2, Zenon

(* A logout timer that is due has counted TIMEOUT_DURATION.                *)
LEMMA DueIsIdle ==
  ASSUME NEW w, WatchOK(w), w.logoutIn = 0
  PROVE  w.idle = Timeout
BY Clocks, SMT DEF WatchOK, Watches

(* Where a navigation ends, and the observer it finds there.               *)
LEMMA LandsOK ==
  ASSUME NEW t \in Tabs, NEW s \in Screens
  PROVE  Lands(t, s) \in Screens /\ (Lands(t, s) = "home" => hint[t] # None)
BY SMT DEF Lands, Screens

(* Mounting or keeping the observer is safe.                               *)
LEMMA ObservedOK ==
  ASSUME IndInv, NEW t \in Tabs, NEW s \in Screens
  PROVE  WatchOK(Observed(t, s)) /\ (s = "login" => Observed(t, s) = Unmounted)
BY UnmountedOK, StartTimersOK, Zenon DEF IndInv, WatchesOK, Observed, WatchOK

(* So is loading a page anew.                                              *)
LEMMA LoadedOK ==
  WatchOK(Unmounted) /\ WatchOK(StartTimers(Unmounted))
BY UnmountedOK, StartTimersOK, Zenon DEF WatchOK

-----------------------------------------------------------------------------
(* The parts of the invariant that an action disturbs are about one tab.   *)
TabOK(t) ==
  /\ WatchOK(watch[t]) /\ (screen[t] = "login" => watch[t] = Unmounted)
  /\ (screen[t] = "home" => hint[t] # None)

Shape ==
  /\ screen \in [Tabs -> Screens] /\ hint \in [Tabs -> Users \cup {None}]
  /\ login \in [Tabs -> BOOLEAN] /\ toast \in [Tabs -> BOOLEAN]
  /\ leaving \in [Tabs -> BOOLEAN] /\ bare \in [Tabs -> BOOLEAN]
  /\ watch \in [Tabs -> Watches]

BrowserOK ==
  /\ cookie \in Users \cup {None} /\ left \in 0..Lifetime
  /\ (cookie = None) <=> (left = 0)

Core == Shape /\ BrowserOK /\ \A t \in Tabs : TabOK(t)

(* What the sign-ins under way have to do with the session.                *)
Signing ==
  /\ signed \in [Tabs -> Users \cup {None}]
  /\ \A t \in Tabs : signed[t] # None => login[t] = TRUE
  /\ last \in Tabs \cup {None}
  /\ NameMatchesSession /\ AnswerIsCurrent

(* The invariant is about the shapes, the browser, each tab and the        *)
(* sign-ins.                                                               *)
LEMMA Parts == IndInv <=> Core /\ Signing
<1>1. IndInv => Shape
  BY Zenon DEF IndInv, TypeOK, Shape, Watches
<1>2. IndInv => BrowserOK
  BY Zenon DEF IndInv, TypeOK, BrowserOK
<1>3. ASSUME IndInv, NEW t \in Tabs PROVE TabOK(t)
  BY <1>3, Zenon DEF IndInv, TypeOK, TabOK, WatchesOK, HomeHasUser
<1>4. IndInv => Signing
  BY Zenon DEF IndInv, TypeOK, Signing
<1>5. ASSUME Core, Signing PROVE IndInv
  <2>1. Shape /\ BrowserOK /\ \A t \in Tabs : TabOK(t)
    BY <1>5, Zenon DEF Core
  <2>2. WatchesOK /\ HomeHasUser /\ NameMatchesSession /\ AnswerIsCurrent
    BY <1>5, <2>1, Zenon DEF TabOK, WatchesOK, HomeHasUser, Signing
  <2>3. TypeOK
    BY <1>5, <2>1, Zenon DEF Shape, TabOK, BrowserOK, TypeOK, Watches, Signing
  <2>. QED  BY <2>2, <2>3 DEF IndInv
<1>. QED  BY <1>1, <1>2, <1>3, <1>4, <1>5, Zenon DEF Core

(* Its parts.                                                              *)
LEMMA CoreHolds == IndInv => Shape /\ BrowserOK /\ \A t \in Tabs : TabOK(t)
BY Parts, Zenon DEF Core

(* The same of the next state.                                             *)
LEMMA PartsNext == Shape' /\ BrowserOK' /\ (\A t \in Tabs : TabOK(t))' => Core'
BY Zenon DEF Core

(* The invariant holds initially.                                          *)
LEMMA InitInv == Init => IndInv
<1> SUFFICES ASSUME Init PROVE IndInv
  OBVIOUS
<1>1. Shape
  BY UnmountedOK DEF Init, Shape, WatchOK, Screens
<1>2. BrowserOK
  BY SessionAssumption DEF Init, BrowserOK
<1>3. ASSUME NEW t \in Tabs PROVE TabOK(t)
  BY UnmountedOK DEF Init, TabOK, Screens
<1>4. Signing
  BY DEF Init, Signing, NameMatchesSession, AnswerIsCurrent
<1>. QED  BY <1>1, <1>2, <1>3, <1>4, Parts, Zenon DEF Core

(* A sign-in is sent.                                                      *)
LEMMA SubmitInv == ASSUME IndInv, NEW t \in Tabs, Submit(t) PROVE Core'
<1> USE DEF Submit, browser, signin
<1>0. Shape /\ BrowserOK /\ \A u \in Tabs : TabOK(u)
  BY CoreHolds, Zenon
<1>1. Shape'
  BY <1>0, SMT DEF Shape
<1>2. BrowserOK'
  BY <1>0, SMT DEF BrowserOK
<1>3. ASSUME NEW u \in Tabs, u # t PROVE TabOK(u)'
  <2>1. /\ screen'[u] = screen[u] /\ hint'[u] = hint[u] /\ watch'[u] = watch[u]
    BY <1>0, <1>3, SMT DEF Shape
  <2>. QED  BY <1>0, <1>3, <2>1, Zenon DEF TabOK
<1>4. TabOK(t)'
  BY <1>0, SMT DEF TabOK, Shape
<1>5. (\A u \in Tabs : TabOK(u))'
  BY <1>3, <1>4, Zenon
<1>. QED  BY <1>1, <1>2, <1>5, PartsNext, Zenon

(* A query is sent without a cookie.                                       *)
LEMMA AskInv == ASSUME IndInv, NEW t \in Tabs, Ask(t) PROVE Core'
<1> USE DEF Ask, browser, signin
<1>0. Shape /\ BrowserOK /\ \A u \in Tabs : TabOK(u)
  BY CoreHolds, Zenon
<1>1. Shape'
  BY <1>0, SMT DEF Shape
<1>2. BrowserOK'
  BY <1>0, SMT DEF BrowserOK
<1>3. ASSUME NEW u \in Tabs, u # t PROVE TabOK(u)'
  <2>1. /\ screen'[u] = screen[u] /\ hint'[u] = hint[u] /\ watch'[u] = watch[u]
    BY <1>0, <1>3, SMT DEF Shape
  <2>. QED  BY <1>0, <1>3, <2>1, Zenon DEF TabOK
<1>4. TabOK(t)'
  BY <1>0, SMT DEF TabOK, Shape
<1>5. (\A u \in Tabs : TabOK(u))'
  BY <1>3, <1>4, Zenon
<1>. QED  BY <1>1, <1>2, <1>5, PartsNext, Zenon

(* The query is lost.                                                      *)
LEMMA UnreachedInv == ASSUME IndInv, NEW t \in Tabs, Unreached(t) PROVE Core'
<1> USE DEF Unreached, browser, signin
<1>0. Shape /\ BrowserOK /\ \A u \in Tabs : TabOK(u)
  BY CoreHolds, Zenon
<1>1. Shape'
  BY <1>0, SMT DEF Shape
<1>2. BrowserOK'
  BY <1>0, SMT DEF BrowserOK
<1>3. ASSUME NEW u \in Tabs, u # t PROVE TabOK(u)'
  <2>1. /\ screen'[u] = screen[u] /\ hint'[u] = hint[u] /\ watch'[u] = watch[u]
    BY <1>0, <1>3, SMT DEF Shape
  <2>. QED  BY <1>0, <1>3, <2>1, Zenon DEF TabOK
<1>4. TabOK(t)'
  BY <1>0, SMT DEF TabOK, Shape
<1>5. (\A u \in Tabs : TabOK(u))'
  BY <1>3, <1>4, Zenon
<1>. QED  BY <1>1, <1>2, <1>5, PartsNext, Zenon

(* A logout is sent.                                                       *)
LEMMA LogoutInv == ASSUME IndInv, NEW t \in Tabs, Logout(t) PROVE Core'
<1> USE DEF Logout, browser, signin
<1>0. Shape /\ BrowserOK /\ \A u \in Tabs : TabOK(u)
  BY CoreHolds, Zenon
<1>1. Shape'
  BY <1>0, SMT DEF Shape
<1>2. BrowserOK'
  BY <1>0, SMT DEF BrowserOK
<1>3. ASSUME NEW u \in Tabs, u # t PROVE TabOK(u)'
  <2>1. /\ screen'[u] = screen[u] /\ hint'[u] = hint[u] /\ watch'[u] = watch[u]
    BY <1>0, <1>3, SMT DEF Shape
  <2>. QED  BY <1>0, <1>3, <2>1, Zenon DEF TabOK
<1>4. TabOK(t)'
  BY <1>0, SMT DEF TabOK, Shape
<1>5. (\A u \in Tabs : TabOK(u))'
  BY <1>3, <1>4, Zenon
<1>. QED  BY <1>1, <1>2, <1>5, PartsNext, Zenon

(* The answer sets the cookie.                                             *)
LEMMA LoginAnsweredInv == ASSUME IndInv, NEW t \in Tabs, LoginAnswered(t) PROVE Core'
<1>0. Shape /\ BrowserOK /\ \A u \in Tabs : TabOK(u)
  BY CoreHolds, Zenon
<1>a. cookie' \in Users /\ left' = Lifetime /\ UNCHANGED <<screen, hint, login, toast, leaving, bare, watch>>
  BY Zenon DEF LoginAnswered
<1>1. Shape'
  BY <1>0, <1>a, Zenon DEF Shape
<1>2. BrowserOK'
  <2>1. cookie' # None /\ Lifetime \in Nat \ {0}
    BY <1>a, SessionAssumption, Zenon
  <2>2. left' \in 0..Lifetime /\ left' # 0
    BY <1>a, <2>1, SMT
  <2>. QED  BY <1>a, <2>1, <2>2, Zenon DEF BrowserOK
<1>3. (\A u \in Tabs : TabOK(u))'
  BY <1>0, <1>a, Zenon DEF TabOK
<1>. QED  BY <1>1, <1>2, <1>3, PartsNext, Zenon

(* onSuccess sets the name.                                                *)
LEMMA LoginArrivesInv == ASSUME IndInv, NEW t \in Tabs, LoginArrives(t) PROVE Core'
<1>0. Shape /\ BrowserOK /\ Signing /\ \A u \in Tabs : TabOK(u)
  BY CoreHolds, Parts, Zenon
<1>a. /\ hint' = [hint EXCEPT ![t] = signed[t]]
      /\ login' = [login EXCEPT ![t] = FALSE] /\ toast' = [toast EXCEPT ![t] = TRUE]
      /\ cookie' = cookie /\ left' = left
      /\ screen' = screen /\ leaving' = leaving /\ bare' = bare /\ watch' = watch
  BY Zenon DEF LoginArrives, browser
<1>b. signed[t] \in Users \cup {None} /\ signed[t] # None
  BY <1>0, Zenon DEF Signing, LoginArrives
<1>1. Shape'
  BY <1>0, <1>a, <1>b, SMT DEF Shape
<1>2. BrowserOK'
  BY <1>0, <1>a, Zenon DEF BrowserOK
<1>3. ASSUME NEW u \in Tabs PROVE hint'[u] = (IF u = t THEN signed[t] ELSE hint[u])
  BY <1>0, <1>3, <1>a, Zenon DEF Shape
<1>4. ASSUME NEW u \in Tabs PROVE TabOK(u)'
  BY <1>0, <1>3, <1>4, <1>a, <1>b, Zenon DEF TabOK
<1>5. (\A u \in Tabs : TabOK(u))'
  BY <1>4, Zenon
<1>. QED  BY <1>1, <1>2, <1>5, PartsNext, Zenon

(* A navigation inside the dashboard starts.                               *)
LEMMA NavigateInv == ASSUME IndInv, NEW t \in Tabs, Navigate(t) PROVE Core'
<1>0. Shape /\ BrowserOK /\ \A u \in Tabs : TabOK(u)
  BY CoreHolds, Zenon
<1>a. PICK s \in Screens : Push(t, s)
  BY Zenon DEF Navigate, Screens
<1> DEFINE d == Lands(t, s)
           o == Observed(t, d)
<1>b. d \in Screens /\ (d = "home" => hint[t] # None)
  BY LandsOK, Zenon
<1>c. o \in Watches /\ WatchOK(o) /\ (d = "login" => o = Unmounted)
  BY <1>b, ObservedOK, Zenon DEF WatchOK
<1>d. screen' = [screen EXCEPT ![t] = d] /\ watch' = [watch EXCEPT ![t] = o]
  BY <1>a, Zenon DEF Push
<1>e. /\ login' \in [Tabs -> BOOLEAN] /\ toast' \in [Tabs -> BOOLEAN]
      /\ cookie' = cookie /\ left' = left /\ hint' = hint /\ leaving' = leaving /\ bare' = bare
  BY <1>0, SMT DEF Navigate, Shape, browser, signin
<1> HIDE DEF d, o
<1>1. Shape'
  BY <1>0, <1>b, <1>c, <1>d, <1>e, Zenon DEF Shape
<1>2. BrowserOK'
  BY <1>0, <1>e, Zenon DEF BrowserOK
<1>3. ASSUME NEW u \in Tabs, u # t PROVE TabOK(u)'
  <2>1. screen'[u] = screen[u] /\ hint'[u] = hint[u] /\ watch'[u] = watch[u]
    BY <1>0, <1>3, <1>d, <1>e, SMT DEF Shape
  <2>. QED  BY <1>0, <1>3, <2>1, Zenon DEF TabOK
<1>4. TabOK(t)'
  BY <1>0, <1>b, <1>c, <1>d, <1>e, SMT DEF TabOK, Shape
<1>5. (\A u \in Tabs : TabOK(u))'
  BY <1>3, <1>4, Zenon
<1>. QED  BY <1>1, <1>2, <1>5, PartsNext, Zenon

(* The page is left when the toast ends.                                   *)
LEMMA ToastEndsInv == ASSUME IndInv, NEW t \in Tabs, ToastEnds(t) PROVE Core'
<1>0. Shape /\ BrowserOK /\ \A u \in Tabs : TabOK(u)
  BY CoreHolds, Zenon
<1>a. PICK s \in Screens : Push(t, s)
  BY Zenon DEF ToastEnds, Screens
<1> DEFINE d == Lands(t, s)
           o == Observed(t, d)
<1>b. d \in Screens /\ (d = "home" => hint[t] # None)
  BY LandsOK, Zenon
<1>c. o \in Watches /\ WatchOK(o) /\ (d = "login" => o = Unmounted)
  BY <1>b, ObservedOK, Zenon DEF WatchOK
<1>d. screen' = [screen EXCEPT ![t] = d] /\ watch' = [watch EXCEPT ![t] = o]
  BY <1>a, Zenon DEF Push
<1>e. /\ login' \in [Tabs -> BOOLEAN] /\ toast' \in [Tabs -> BOOLEAN]
      /\ cookie' = cookie /\ left' = left /\ hint' = hint /\ leaving' = leaving /\ bare' = bare
  BY <1>0, SMT DEF ToastEnds, Shape, browser, signin
<1> HIDE DEF d, o
<1>1. Shape'
  BY <1>0, <1>b, <1>c, <1>d, <1>e, Zenon DEF Shape
<1>2. BrowserOK'
  BY <1>0, <1>e, Zenon DEF BrowserOK
<1>3. ASSUME NEW u \in Tabs, u # t PROVE TabOK(u)'
  <2>1. screen'[u] = screen[u] /\ hint'[u] = hint[u] /\ watch'[u] = watch[u]
    BY <1>0, <1>3, <1>d, <1>e, SMT DEF Shape
  <2>. QED  BY <1>0, <1>3, <2>1, Zenon DEF TabOK
<1>4. TabOK(t)'
  BY <1>0, <1>b, <1>c, <1>d, <1>e, SMT DEF TabOK, Shape
<1>5. (\A u \in Tabs : TabOK(u))'
  BY <1>3, <1>4, Zenon
<1>. QED  BY <1>1, <1>2, <1>5, PartsNext, Zenon

(* A page is loaded.                                                       *)
LEMMA OpenInv == ASSUME IndInv, NEW t \in Tabs, Open(t) PROVE Core'
<1>0. Shape /\ BrowserOK /\ \A u \in Tabs : TabOK(u)
  BY CoreHolds, Zenon
<1>e. PICK r \in Screens : Load(t, Lands(t, r))
  BY Zenon DEF Open
<1> DEFINE s == Lands(t, r)
<1>a. Load(t, s)
  BY <1>e
<1>f. s \in Screens /\ (s = "home" => hint[t] # None)
  BY LandsOK, Zenon
<1>g. cookie' = cookie /\ left' = left /\ hint' = hint
  BY Zenon DEF Open, browser
<1> HIDE DEF s
<1>b. /\ screen' \in [Tabs -> Screens] /\ login' \in [Tabs -> BOOLEAN] /\ toast' \in [Tabs -> BOOLEAN]
      /\ leaving' \in [Tabs -> BOOLEAN] /\ bare' \in [Tabs -> BOOLEAN]
  BY <1>0, <1>a, <1>f, SMT DEF Load, Shape
<1>c. /\ screen'[t] = s /\ watch'[t] = IF s = "login" THEN Unmounted ELSE StartTimers(Unmounted)
      /\ \A u \in Tabs : u # t => screen'[u] = screen[u] /\ watch'[u] = watch[u]
  BY <1>0, <1>a, <1>f, SMT DEF Load, Shape
<1>d. watch' \in [Tabs -> Watches] /\ WatchOK(watch'[t]) /\ (screen'[t] = "login" => watch'[t] = Unmounted)
  <2> DEFINE o == IF s = "login" THEN Unmounted ELSE StartTimers(Unmounted)
  <2>1. o \in Watches /\ WatchOK(o)
    BY LoadedOK, Zenon DEF WatchOK
  <2>2. watch' = [watch EXCEPT ![t] = o]
    BY <1>a, Zenon DEF Load
  <2> HIDE DEF o
  <2>3. watch' \in [Tabs -> Watches] /\ watch'[t] = o
    BY <1>0, <2>1, <2>2, SMT DEF Shape
  <2>. QED  BY <1>c, <2>1, <2>3, Zenon DEF o
<1>1. Shape'
  BY <1>0, <1>b, <1>d, <1>g, Zenon DEF Shape
<1>2. BrowserOK'
  BY <1>0, <1>g, Zenon DEF BrowserOK
<1>3. ASSUME NEW u \in Tabs, u # t PROVE TabOK(u)'
  <2>1. screen'[u] = screen[u] /\ hint'[u] = hint[u] /\ watch'[u] = watch[u]
    BY <1>3, <1>c, <1>g, Zenon
  <2>. QED  BY <1>0, <1>3, <2>1, Zenon DEF TabOK
<1>4. TabOK(t)'
  BY <1>c, <1>d, <1>f, <1>g, Zenon DEF TabOK
<1>5. (\A u \in Tabs : TabOK(u))'
  BY <1>3, <1>4, Zenon
<1>. QED  BY <1>1, <1>2, <1>5, PartsNext, Zenon

(* A 401 removes the name and loads the login page.                        *)
LEMMA UnauthorizedInv ==
  ASSUME IndInv, NEW t \in Tabs, NEW p, NEW q, p \in [Tabs -> BOOLEAN], q \in [Tabs -> BOOLEAN],
         Unauthorized(t, p, q), cookie' = cookie, left' = left
  PROVE  Core'
<1>0. Shape /\ BrowserOK /\ \A u \in Tabs : TabOK(u)
  BY CoreHolds, Zenon
<1>1. hint' \in [Tabs -> Users \cup {None}] /\ hint'[t] = None /\ \A u \in Tabs : u # t => hint'[u] = hint[u]
  BY <1>0, SMT DEF Unauthorized, Shape
<1>2. BrowserOK'
  BY <1>0, <1>1, Zenon DEF BrowserOK
<1>3. CASE screen[t] # "login"
  <2> DEFINE s == "login"
  <2>a. Load(t, s)
    BY <1>3, Zenon DEF Unauthorized
  <2> HIDE DEF s
  <2>e. s \in Screens
    BY SMT DEF s, Screens
  <2>b. /\ screen' \in [Tabs -> Screens] /\ login' \in [Tabs -> BOOLEAN] /\ toast' \in [Tabs -> BOOLEAN]
        /\ leaving' \in [Tabs -> BOOLEAN] /\ bare' \in [Tabs -> BOOLEAN]
    BY <1>0, <2>a, <2>e, SMT DEF Load, Shape
  <2>c. /\ screen'[t] = s /\ watch'[t] = IF s = "login" THEN Unmounted ELSE StartTimers(Unmounted)
        /\ \A u \in Tabs : u # t => screen'[u] = screen[u] /\ watch'[u] = watch[u]
    BY <1>0, <2>a, <2>e, SMT DEF Load, Shape
  <2>d. watch' \in [Tabs -> Watches] /\ WatchOK(watch'[t]) /\ (screen'[t] = "login" => watch'[t] = Unmounted)
    <3> DEFINE o == IF s = "login" THEN Unmounted ELSE StartTimers(Unmounted)
    <3>1. o \in Watches /\ WatchOK(o)
      BY LoadedOK, Zenon DEF WatchOK
    <3>2. watch' = [watch EXCEPT ![t] = o]
      BY <2>a, Zenon DEF Load
    <3> HIDE DEF o
    <3>3. watch' \in [Tabs -> Watches] /\ watch'[t] = o
      BY <1>0, <3>1, <3>2, SMT DEF Shape
    <3>. QED  BY <2>c, <3>1, <3>3, Zenon DEF o
  <2>1. Shape'
    BY <1>1, <2>b, <2>d, Zenon DEF Shape
  <2>2. ASSUME NEW u \in Tabs PROVE TabOK(u)'
    <3>1. CASE u = t
      BY <3>1, <2>c, <2>d, SMT DEF TabOK, s
    <3>2. CASE u # t
      BY <1>0, <3>2, <1>1, <2>2, <2>c, Zenon DEF TabOK
    <3>. QED  BY <3>1, <3>2
  <2>3. (\A u \in Tabs : TabOK(u))'
    BY <2>2, Zenon
  <2>. QED  BY <1>2, <2>1, <2>3, PartsNext, Zenon
<1>4. CASE screen[t] = "login"
  <2>a. login' = p /\ bare' = q /\ screen' = screen /\ watch' = watch /\ toast' = toast /\ leaving' = leaving
    BY <1>4, Zenon DEF Unauthorized
  <2>1. Shape'
    BY <1>0, <1>1, <2>a, Zenon DEF Shape
  <2>2. ASSUME NEW u \in Tabs PROVE TabOK(u)'
    <3>1. CASE u = t
      BY <1>0, <1>4, <3>1, <2>a, SMT DEF TabOK
    <3>2. CASE u # t
      BY <1>0, <3>2, <1>1, <2>2, <2>a, Zenon DEF TabOK
    <3>. QED  BY <3>1, <3>2
  <2>3. (\A u \in Tabs : TabOK(u))'
    BY <2>2, Zenon
  <2>. QED  BY <1>2, <2>1, <2>3, PartsNext, Zenon
<1>. QED  BY <1>3, <1>4

(* A sign-in is refused.                                                   *)
LEMMA LoginFailsInv == ASSUME IndInv, NEW t \in Tabs, LoginFails(t) PROVE Core'
<1> DEFINE ended == [login EXCEPT ![t] = FALSE]
<1>0. Shape /\ BrowserOK /\ \A u \in Tabs : TabOK(u)
  BY CoreHolds, Zenon
<1>1. ended \in [Tabs -> BOOLEAN] /\ bare \in [Tabs -> BOOLEAN] /\ cookie' = cookie /\ left' = left
  BY <1>0, SMT DEF Shape, LoginFails, browser
<1>2. CASE Unauthorized(t, ended, bare)
  BY <1>1, <1>2, UnauthorizedInv, Zenon
<1>3. CASE login' = ended /\ UNCHANGED <<screen, hint, signed, toast, leaving, bare, watch, last>>
  <2>1. Shape' /\ BrowserOK'
    BY <1>0, <1>1, <1>3, Zenon DEF Shape, BrowserOK
  <2>2. (\A u \in Tabs : TabOK(u))'
    BY <1>0, <1>3, Zenon DEF TabOK
  <2>. QED  BY <2>1, <2>2, PartsNext, Zenon
<1>. QED  BY <1>2, <1>3, Zenon DEF LoginFails

(* The query is refused.                                                   *)
LEMMA RefusedInv == ASSUME IndInv, NEW t \in Tabs, Refused(t) PROVE Core'
<1>0. Shape
  BY CoreHolds, Zenon
<1>1. login \in [Tabs -> BOOLEAN] /\ [bare EXCEPT ![t] = FALSE] \in [Tabs -> BOOLEAN]
  BY <1>0, SMT DEF Shape
<1>. QED  BY <1>1, UnauthorizedInv, Zenon DEF Refused, browser

(* The logout is over, whatever its answer.                                *)
LEMMA LogoutEndsInv == ASSUME IndInv, NEW t \in Tabs, LogoutEnds(t) PROVE Core'
<1>0. Shape /\ BrowserOK /\ \A u \in Tabs : TabOK(u)
  BY CoreHolds, Zenon
<1>a. Unmounted \in Watches /\ "login" \in Screens
  BY UnmountedOK, SMT DEF WatchOK, Screens
<1>b. /\ screen'[t] = "login" /\ hint'[t] = None /\ watch'[t] = Unmounted
      /\ \A u \in Tabs : u # t => screen'[u] = screen[u] /\ hint'[u] = hint[u] /\ watch'[u] = watch[u]
  BY <1>0, SMT DEF LogoutEnds, Shape
<1>1. Shape'
  BY <1>0, <1>a, SMT DEF LogoutEnds, Shape, signin
<1>2. BrowserOK'
  <2>0. (cookie' = None /\ left' = 0) \/ (cookie' = cookie /\ left' = left)
    BY Zenon DEF LogoutEnds, browser
  <2>1. 0 \in 0..Lifetime
    BY SessionAssumption, SMT
  <2>. QED  BY <1>0, <2>0, <2>1, Zenon DEF BrowserOK
<1>3. ASSUME NEW u \in Tabs PROVE TabOK(u)'
  <2>1. CASE u = t
    BY <2>1, <1>b, UnmountedOK, SMT DEF TabOK
  <2>2. CASE u # t
    BY <1>0, <2>2, <1>3, <1>b, Zenon DEF TabOK
  <2>. QED  BY <2>1, <2>2
<1>4. (\A u \in Tabs : TabOK(u))'
  BY <1>3, Zenon
<1>. QED  BY <1>1, <1>2, <1>4, PartsNext, Zenon

(* A step of the observer of a mounted tab to one that is in order.        *)
LEMMA WatchingInv ==
  ASSUME IndInv, NEW t \in Tabs, NEW w, WatchOK(w), watch[t] # Unmounted \/ screen[t] # "login",
         Watching(t, w), leaving' \in [Tabs -> BOOLEAN]
  PROVE  Core'
<1>0. Shape /\ BrowserOK /\ \A u \in Tabs : TabOK(u)
  BY CoreHolds, Zenon
<1>a. w \in Watches /\ screen[t] # "login"
  BY <1>0, Zenon DEF WatchOK, TabOK
<1>b. watch'[t] = w /\ \A u \in Tabs : u # t => watch'[u] = watch[u]
  BY <1>0, SMT DEF Watching, Shape
<1>c. screen' = screen /\ hint' = hint /\ cookie' = cookie /\ left' = left
  BY Zenon DEF Watching, browser
<1>1. Shape'
  BY <1>0, <1>a, SMT DEF Watching, Shape, signin
<1>2. BrowserOK'
  BY <1>0, <1>c, Zenon DEF BrowserOK
<1>3. ASSUME NEW u \in Tabs PROVE TabOK(u)'
  <2>1. CASE u = t
    BY <2>1, <1>0, <1>a, <1>b, <1>c, Zenon DEF TabOK
  <2>2. CASE u # t
    BY <1>0, <2>2, <1>3, <1>b, <1>c, Zenon DEF TabOK
  <2>. QED  BY <2>1, <2>2
<1>4. (\A u \in Tabs : TabOK(u))'
  BY <1>3, Zenon
<1>. QED  BY <1>1, <1>2, <1>4, PartsNext, Zenon

(* Every step of an observer.                                              *)
LEMMA ObserverInv ==
  ASSUME IndInv, NEW t \in Tabs,
         Activity(t) \/ StillHere(t) \/ WarnFires(t) \/ Effect(t) \/ LogoutFires(t)
  PROVE  Core'
<1>0. Shape /\ WatchOK(watch[t])
  BY CoreHolds, Zenon DEF TabOK
<1>1. leaving \in [Tabs -> BOOLEAN] /\ [leaving EXCEPT ![t] = TRUE] \in [Tabs -> BOOLEAN]
  BY <1>0, SMT DEF Shape
<1>2. watch[t].effect \in BOOLEAN /\ watch[t].warning \in BOOLEAN
  BY <1>0, Zenon DEF WatchOK, Watches
<1>3. Unmounted.effect = FALSE /\ Unmounted.warning = FALSE /\ Unmounted.warnIn = None /\ Unmounted.logoutIn = None
  BY Zenon DEF Unmounted
<1>4. None # 0
  BY Clocks, SMT
<1>5. CASE Activity(t)
  <2>1. CASE watch[t].effect = TRUE
    <3>1. WatchOK([watch[t] EXCEPT !.idle = 0])
      BY <2>1, <1>0, ActivityOK, Zenon
    <3>2. Watching(t, [watch[t] EXCEPT !.idle = 0]) /\ screen[t] # "login" /\ leaving' = leaving
      BY <1>5, <2>1, Zenon DEF Activity
    <3>. QED  BY <3>1, <3>2, <1>1, WatchingInv, Zenon
  <2>2. CASE watch[t].effect = FALSE
    <3>1. WatchOK([StartTimers(watch[t]) EXCEPT !.idle = 0])
      BY <1>0, ActivityOK, Zenon
    <3>2. Watching(t, [StartTimers(watch[t]) EXCEPT !.idle = 0]) /\ screen[t] # "login" /\ leaving' = leaving
      BY <1>5, <2>2, Zenon DEF Activity
    <3>. QED  BY <3>1, <3>2, <1>1, WatchingInv, Zenon
  <2>. QED  BY <2>1, <2>2, <1>2
<1>6. CASE StillHere(t)
  <2>1. WatchOK([StartTimers(watch[t]) EXCEPT !.idle = 0])
    BY <1>0, ActivityOK, Zenon
  <2>2. Watching(t, [StartTimers(watch[t]) EXCEPT !.idle = 0]) /\ watch[t] # Unmounted /\ leaving' = leaving
    BY <1>3, <1>6, Zenon DEF StillHere
  <2>. QED  BY <2>1, <2>2, <1>1, WatchingInv, Zenon
<1>7. CASE WarnFires(t)
  <2>1. WatchOK([watch[t] EXCEPT !.warnIn = None, !.warning = TRUE])
    BY <1>0, <1>7, WarnOK, Zenon DEF WarnFires
  <2>2. watch[t] # Unmounted /\ leaving' = leaving
    BY <1>3, <1>4, <1>7, Zenon DEF WarnFires
  <2>. QED  BY <2>1, <2>2, <1>1, <1>7, WatchingInv, Zenon DEF WarnFires
<1>8. CASE Effect(t)
  <2> DEFINE w == [StartTimers([watch[t] EXCEPT !.warnIn = None, !.logoutIn = None]) EXCEPT !.effect = watch[t].warning]
  <2>1. WatchOK(w)
    BY <1>0, <1>8, EffectOK, Zenon DEF Effect
  <2>2. watch[t] # Unmounted /\ leaving' = leaving /\ Watching(t, w)
    BY <1>3, <1>8, Zenon DEF Effect
  <2> HIDE DEF w
  <2>. QED  BY <2>1, <2>2, <1>1, WatchingInv, Zenon
<1>9. CASE LogoutFires(t)
  <2>1. WatchOK([watch[t] EXCEPT !.logoutIn = None])
    BY <1>0, <1>9, LogoutOK, Zenon DEF LogoutFires
  <2>2. watch[t] # Unmounted /\ leaving' = [leaving EXCEPT ![t] = TRUE]
    BY <1>3, <1>4, <1>9, Zenon DEF LogoutFires
  <2>. QED  BY <2>1, <2>2, <1>1, <1>9, WatchingInv, Zenon DEF LogoutFires
<1>. QED  BY <1>5, <1>6, <1>7, <1>8, <1>9

(* Time passes for the session and for every observer.                     *)
LEMMA TickInv == ASSUME IndInv, Tick PROVE Core'
<1>0. Shape /\ BrowserOK /\ \A u \in Tabs : TabOK(u)
  BY CoreHolds, Zenon
<1>a. /\ screen' = screen /\ hint' = hint /\ login' = login /\ toast' = toast
      /\ leaving' = leaving /\ bare' = bare
  BY Zenon DEF Tick, signin
<1>b. ASSUME NEW u \in Tabs PROVE WatchOK(IF u \in Quiet THEN Pass(watch[u]) ELSE watch[u])
  <2>1. WatchOK(watch[u]) /\ watch[u].effect = watch[u].warning
    BY <1>0, <1>b, Zenon DEF TabOK, Tick
  <2>. QED  BY <2>1, PassOK, Zenon
<1>c. ASSUME NEW u \in Tabs PROVE watch'[u] = IF u \in Quiet THEN Pass(watch[u]) ELSE watch[u]
  BY <1>c, Zenon DEF Tick
<1>1. Shape'
  <2>1. watch' \in [Tabs -> Watches]
    BY <1>b, Zenon DEF Tick, WatchOK
  <2>. QED  BY <1>0, <1>a, <2>1, Zenon DEF Shape
<1>2. BrowserOK'
  <2>1. left' \in 0..Lifetime
    BY <1>0, SessionAssumption, SMT DEF Tick, BrowserOK
  <2>2. cookie' = IF left' = 0 THEN None ELSE cookie
    BY Zenon DEF Tick
  <2>3. left = 0 => left' = 0
    BY Zenon DEF Tick
  <2>. QED  BY <1>0, <1>a, <2>1, <2>2, <2>3, Zenon DEF BrowserOK
<1>3. ASSUME NEW u \in Tabs PROVE TabOK(u)'
  <2>1. WatchOK(watch'[u])
    BY <1>3, <1>b, <1>c, Zenon
  <2>2. screen[u] = "login" => watch'[u] = Unmounted
    BY <1>0, <1>3, <1>c, Zenon DEF TabOK, Pass
  <2>. QED  BY <1>0, <1>a, <1>3, <2>1, <2>2, Zenon DEF TabOK
<1>4. (\A u \in Tabs : TabOK(u))'
  BY <1>3, Zenon
<1>. QED  BY <1>1, <1>2, <1>4, PartsNext, Zenon

(* A stuttering step.                                                      *)
LEMMA StutterInv == IndInv /\ UNCHANGED vars => Core'
<1> SUFFICES ASSUME IndInv, UNCHANGED vars PROVE Core'
  OBVIOUS
<1>0. Shape /\ BrowserOK /\ \A u \in Tabs : TabOK(u)
  BY CoreHolds, Zenon
<1>1. /\ cookie' = cookie /\ left' = left /\ screen' = screen /\ hint' = hint /\ login' = login /\ toast' = toast
      /\ leaving' = leaving /\ bare' = bare /\ watch' = watch
  BY Zenon DEF vars, browser, signin
<1>2. Shape' /\ BrowserOK'
  BY <1>0, <1>1, Zenon DEF Shape, BrowserOK
<1>3. (\A u \in Tabs : TabOK(u))'
  BY <1>0, <1>1, Zenon DEF TabOK
<1>. QED  BY <1>2, <1>3, PartsNext, Zenon

(* Every step preserves the first part of the invariant.                   *)
LEMMA CoreNext == IndInv /\ [Next]_vars => Core'
<1> SUFFICES ASSUME IndInv, Next PROVE Core'
  BY StutterInv, Zenon
<1>1. CASE Tick
  BY <1>1, TickInv
<1>2. ASSUME NEW t \in Tabs, Navigate(t) \/ Open(t) PROVE Core'
  BY <1>2, NavigateInv, OpenInv, Zenon
<1>3. ASSUME NEW t \in Tabs, Submit(t) \/ LoginAnswered(t) \/ LoginArrives(t) \/ LoginFails(t) \/ ToastEnds(t)
      PROVE  Core'
  BY <1>3, SubmitInv, LoginAnsweredInv, LoginArrivesInv, LoginFailsInv, ToastEndsInv, Zenon
<1>4. ASSUME NEW t \in Tabs, Ask(t) \/ Refused(t) \/ Unreached(t) PROVE Core'
  BY <1>4, AskInv, RefusedInv, UnreachedInv, Zenon
<1>5. ASSUME NEW t \in Tabs, Logout(t) \/ LogoutEnds(t) PROVE Core'
  BY <1>5, LogoutInv, LogoutEndsInv, Zenon
<1>6. ASSUME NEW t \in Tabs, Activity(t) \/ StillHere(t) \/ WarnFires(t) \/ Effect(t) \/ LogoutFires(t) PROVE Core'
  BY <1>6, ObserverInv, Zenon
<1>. QED  BY <1>1, <1>2, <1>3, <1>4, <1>5, <1>6, Zenon DEF Next

-----------------------------------------------------------------------------
(* The sign-ins.  A step that sets no cookie and runs no onSuccess leaves  *)
(* the tab of the session as it is, forgets its name, or ends the session. *)
Kept ==
  last' # None => /\ last' = last /\ cookie' = cookie /\ signed'[last] = signed[last]
                  /\ hint'[last] \in {None, hint[last]}

LEMMA SigningKept ==
  ASSUME IndInv, Kept, last' \in {last, None}, signed' \in [Tabs -> Users \cup {None}],
         \A u \in Tabs : signed'[u] # None => login'[u] = TRUE
  PROVE  Signing'
<1>0. Signing
  BY Parts, Zenon
<1>1. last' \in Tabs \cup {None}
  BY <1>0, Zenon DEF Signing
<1>2. NameMatchesSession' /\ AnswerIsCurrent'
  BY <1>0, Zenon DEF Signing, Kept, NameMatchesSession, AnswerIsCurrent
<1>. QED  BY <1>1, <1>2, Zenon DEF Signing

(* Loading a document is such a step.                                      *)
LEMMA LoadSigning ==
  ASSUME IndInv, NEW t \in Tabs, NEW s, Load(t, s), cookie' = cookie,
         hint' = hint \/ hint' = [hint EXCEPT ![t] = None]
  PROVE  Signing'
<1>0. Signing /\ Shape
  BY Parts, CoreHolds, Zenon
<1>a. /\ signed' = [signed EXCEPT ![t] = None] /\ login' = [login EXCEPT ![t] = FALSE]
      /\ last' = IF last = t /\ signed[t] # None THEN None ELSE last
  BY Zenon DEF Load
<1>1. ASSUME NEW u \in Tabs
      PROVE  /\ signed'[u] = IF u = t THEN None ELSE signed[u]
             /\ login'[u] = IF u = t THEN FALSE ELSE login[u]
             /\ hint'[u] \in {None, hint[u]}
  BY <1>0, <1>1, <1>a, Zenon DEF Signing, Shape
<1>2. signed' \in [Tabs -> Users \cup {None}]
  BY <1>0, <1>a, SMT DEF Signing
<1>3. \A u \in Tabs : signed'[u] # None => login'[u] = TRUE
  BY <1>0, <1>1, Zenon DEF Signing
<1>4. Kept
  BY <1>0, <1>1, <1>a, Zenon DEF Kept, Signing
<1>. QED  BY <1>2, <1>3, <1>4, <1>a, SigningKept, Zenon

(* So is a refusal, unless it is the refusal of a sign-in that was         *)
(* accepted.                                                               *)
LEMMA UnauthorizedSigning ==
  ASSUME IndInv, NEW t \in Tabs, NEW p, NEW q, Unauthorized(t, p, q), cookie' = cookie,
         \A u \in Tabs : signed[u] # None => p[u] = TRUE
  PROVE  Signing'
<1>0. Signing /\ Shape
  BY Parts, CoreHolds, Zenon
<1>1. hint' = [hint EXCEPT ![t] = None]
  BY Zenon DEF Unauthorized
<1>2. CASE screen[t] # "login"
  BY <1>1, <1>2, LoadSigning, Zenon DEF Unauthorized
<1>3. CASE screen[t] = "login"
  <2>1. login' = p /\ signed' = signed /\ last' = last
    BY <1>3, Zenon DEF Unauthorized
  <2>2. \A u \in Tabs : hint'[u] \in {None, hint[u]}
    BY <1>0, <1>1, Zenon DEF Shape
  <2>3. Kept
    BY <1>0, <2>1, <2>2, Zenon DEF Kept, Signing
  <2>. QED  BY <1>0, <2>1, <2>3, SigningKept, Zenon DEF Signing
<1>. QED  BY <1>2, <1>3

(* Every step preserves the part of the invariant about the sign-ins.      *)
LEMMA SigningNext == IndInv /\ [Next]_vars => Signing'
<1> SUFFICES ASSUME IndInv, [Next]_vars PROVE Signing'
  OBVIOUS
<1>0. Signing /\ Shape
  BY Parts, CoreHolds, Zenon
<1>1. ASSUME UNCHANGED <<cookie, hint, login, signed, last>> PROVE Signing'
  BY <1>0, <1>1, Zenon DEF Signing, NameMatchesSession, AnswerIsCurrent
<1>2. ASSUME NEW t \in Tabs,
             \/ Navigate(t) \/ Ask(t) \/ Unreached(t) \/ Logout(t) \/ ToastEnds(t)
             \/ Activity(t) \/ StillHere(t) \/ WarnFires(t) \/ Effect(t) \/ LogoutFires(t)
      PROVE  UNCHANGED <<cookie, hint, login, signed, last>>
  BY <1>2, Zenon DEF Navigate, Ask, Unreached, Logout, ToastEnds, Activity, StillHere, WarnFires, Effect,
                     LogoutFires, Watching, browser, signin
<1>3. ASSUME NEW t \in Tabs, Submit(t) PROVE Signing'
  <2>1. login' = [login EXCEPT ![t] = TRUE] /\ UNCHANGED <<cookie, hint, signed, last>>
    BY <1>3, Zenon DEF Submit, browser
  <2>2. \A u \in Tabs : login[u] = TRUE => login'[u] = TRUE
    BY <1>0, <2>1, Zenon DEF Shape
  <2>. QED  BY <1>0, <2>1, <2>2, Zenon DEF Signing, NameMatchesSession, AnswerIsCurrent
<1>4. ASSUME NEW t \in Tabs, Open(t) PROVE Signing'
  <2>1. \E s : Load(t, s)
    BY <1>4, Zenon DEF Open
  <2>2. cookie' = cookie /\ hint' = hint
    BY <1>4, Zenon DEF Open, browser
  <2>. QED  BY <2>1, <2>2, LoadSigning, Zenon
<1>5. ASSUME NEW t \in Tabs, Refused(t) PROVE Signing'
  <2>1. cookie' = cookie /\ Unauthorized(t, login, [bare EXCEPT ![t] = FALSE])
    BY <1>5, Zenon DEF Refused, browser
  <2>. QED  BY <1>0, <2>1, UnauthorizedSigning, Zenon DEF Signing
<1>6. ASSUME NEW t \in Tabs, LoginFails(t) PROVE Signing'
  <2> DEFINE ended == [login EXCEPT ![t] = FALSE]
  <2>1. signed[t] = None /\ cookie' = cookie
    BY <1>6, Zenon DEF LoginFails, browser
  <2>2. \A u \in Tabs : signed[u] # None => ended[u] = TRUE
    <3>1. \A u \in Tabs : u # t => ended[u] = login[u]
      BY <1>0, Zenon DEF Shape
    <3>. QED  BY <1>0, <2>1, <3>1, Zenon DEF Signing
  <2>3. CASE Unauthorized(t, ended, bare)
    BY <2>1, <2>2, <2>3, UnauthorizedSigning, Zenon
  <2>4. CASE login' = ended /\ UNCHANGED <<screen, hint, signed, toast, leaving, bare, watch, last>>
    <3> HIDE DEF ended
    <3>. QED  BY <1>0, <2>1, <2>2, <2>4, Zenon DEF Signing, NameMatchesSession, AnswerIsCurrent
  <2>. QED  BY <1>6, <2>3, <2>4, Zenon DEF LoginFails
<1>7. ASSUME NEW t \in Tabs, LoginAnswered(t) PROVE Signing'
  <2>1. PICK v \in Users : cookie' = v /\ signed' = [signed EXCEPT ![t] = v]
    BY <1>7, Zenon DEF LoginAnswered
  <2>2. login[t] = TRUE /\ login' = login /\ last' = t
    BY <1>7, <1>0, Zenon DEF LoginAnswered, Shape
  <2>3. signed' \in [Tabs -> Users \cup {None}]
    BY <1>0, <2>1, SMT DEF Signing
  <2>4. signed'[t] = v /\ v # None /\ \A u \in Tabs : u # t => signed'[u] = signed[u]
    BY <1>0, <2>1, SessionAssumption, Zenon DEF Signing
  <2>5. NameMatchesSession' /\ AnswerIsCurrent'
    BY <2>1, <2>2, <2>4, Zenon DEF NameMatchesSession, AnswerIsCurrent
  <2>. QED  BY <1>0, <2>2, <2>3, <2>4, <2>5, Zenon DEF Signing
<1>8. ASSUME NEW t \in Tabs, LoginArrives(t) PROVE Signing'
  <2>1. /\ hint' = [hint EXCEPT ![t] = signed[t]] /\ login' = [login EXCEPT ![t] = FALSE]
        /\ signed' = [signed EXCEPT ![t] = None] /\ cookie' = cookie /\ last' = last
    BY <1>8, Zenon DEF LoginArrives, browser
  <2>2. ASSUME NEW u \in Tabs
        PROVE  IF u = t THEN signed'[u] = None /\ hint'[u] = signed[u]
               ELSE signed'[u] = signed[u] /\ hint'[u] = hint[u] /\ login'[u] = login[u]
    BY <1>0, <2>1, <2>2, Zenon DEF Signing, Shape
  <2>3. signed' \in [Tabs -> Users \cup {None}]
    BY <1>0, <2>1, SMT DEF Signing
  <2>4. \A u \in Tabs : signed'[u] # None => login'[u] = TRUE
    BY <1>0, <2>2, Zenon DEF Signing
  <2>5. NameMatchesSession' /\ AnswerIsCurrent'
    BY <1>0, <2>1, <2>2, Zenon DEF Signing, NameMatchesSession, AnswerIsCurrent
  <2>. QED  BY <1>0, <2>1, <2>3, <2>4, <2>5, Zenon DEF Signing
<1>9. ASSUME NEW t \in Tabs, LogoutEnds(t) PROVE Signing'
  <2>1. /\ hint' = [hint EXCEPT ![t] = None] /\ last' = (IF cookie' = None THEN None ELSE last)
        /\ cookie' \in {None, cookie} /\ signed' = signed /\ login' = login
    BY <1>9, Zenon DEF LogoutEnds, browser, signin
  <2>2. \A u \in Tabs : hint'[u] \in {None, hint[u]}
    BY <1>0, <2>1, Zenon DEF Shape
  <2>3. Kept
    BY <1>0, <2>1, <2>2, Zenon DEF Kept, Signing
  <2>. QED  BY <1>0, <2>1, <2>3, SigningKept, Zenon DEF Signing
<1>10. CASE Tick
  <2>1. /\ last' = (IF cookie' = None THEN None ELSE last) /\ cookie' \in {None, cookie}
        /\ signed' = signed /\ login' = login /\ hint' = hint
    BY <1>10, Zenon DEF Tick, signin
  <2>2. Kept
    BY <1>0, <2>1, Zenon DEF Kept, Signing
  <2>. QED  BY <1>0, <2>1, <2>2, SigningKept, Zenon DEF Signing
<1>11. CASE UNCHANGED vars
  BY <1>1, <1>11, Zenon DEF vars, browser, signin
<1>. QED
  BY <1>1, <1>2, <1>3, <1>4, <1>5, <1>6, <1>7, <1>8, <1>9, <1>10, <1>11, Zenon DEF Next

(* Every step preserves the invariant.                                     *)
LEMMA NextInv == IndInv /\ [Next]_vars => IndInv'
<1>1. IndInv /\ [Next]_vars => Core' /\ Signing'
  BY CoreNext, SigningNext, Zenon
<1>. QED  BY <1>1, Parts, PTL

-----------------------------------------------------------------------------
(* Every reachable state satisfies the inductive invariant.                *)
THEOREM IndInvHolds == Spec => []IndInv
BY InitInv, NextInv, PTL DEF Spec

(* Every variable keeps its type, and no observer outlives the dashboard.  *)
THEOREM TypeCorrect == Spec => []TypeOK
<1>1. IndInv => TypeOK
  BY Zenon DEF IndInv
<1>. QED  BY <1>1, IndInvHolds, PTL

(* The tab that signed in last never shows another user's name.            *)
THEOREM NameIsRight == Spec => []NameMatchesSession
<1>1. IndInv => NameMatchesSession
  BY Zenon DEF IndInv
<1>. QED  BY <1>1, IndInvHolds, PTL

(* The overview is never shown by a tab that knows no user.                *)
THEOREM HomeIsKnown == Spec => []HomeHasUser
<1>1. IndInv => HomeHasUser
  BY Zenon DEF IndInv
<1>. QED  BY <1>1, IndInvHolds, PTL

(* The idle logout is never due before TIMEOUT_DURATION has passed without *)
(* a move.                                                                 *)
THEOREM NeverEarly == Spec => []IdleNeverEarly
<1>1. IndInv => IdleNeverEarly
  BY DueIsIdle, Zenon DEF IndInv, WatchesOK, IdleNeverEarly
<1>. QED  BY <1>1, IndInvHolds, PTL

-----------------------------------------------------------------------------
(* The converse of NeverEarly fails (IdleEndsSession): on a machine that   *)
(* is awake the observer never signs anybody out, whatever the timeouts.   *)
(* The warning comes first, and showing it restarts both timers.           *)
AwakeOK(w) ==
  w.logoutIn # None =>
    IF w.warnIn = None THEN w.effect # w.warning /\ w.logoutIn > 0
                       ELSE w.warnIn < w.logoutIn

(* What a step may do to the observer of a tab.                            *)
Restarted(w) ==
  {Unmounted, StartTimers(Unmounted), [StartTimers(w) EXCEPT !.idle = 0],
   [StartTimers([w EXCEPT !.warnIn = None, !.logoutIn = None]) EXCEPT !.effect = w.warning]}

LEMMA WatchStep ==
  ASSUME IndInv, [Next]_vars, NEW t \in Tabs
  PROVE  LET w == watch[t]  v == watch'[t] IN
         \/ v = w \/ v \in Restarted(w)
         \/ v = [w EXCEPT !.idle = 0]
         \/ w.warnIn = 0 /\ v = [w EXCEPT !.warnIn = None, !.warning = TRUE]
         \/ w.logoutIn = 0 /\ v = [w EXCEPT !.logoutIn = None]
         \/ Tick /\ v = Pass(w)
<1> DEFINE w == watch[t]
           v == watch'[t]
           Goal == \/ v = w \/ v \in Restarted(w)
                   \/ v = [w EXCEPT !.idle = 0]
                   \/ w.warnIn = 0 /\ v = [w EXCEPT !.warnIn = None, !.warning = TRUE]
                   \/ w.logoutIn = 0 /\ v = [w EXCEPT !.logoutIn = None]
                   \/ Tick /\ v = Pass(w)
<1>0. Shape
  BY CoreHolds, Zenon
<1>1. ASSUME NEW u \in Tabs, NEW x, watch' = [watch EXCEPT ![u] = x], u # t PROVE v = w
  BY <1>0, <1>1, Zenon DEF Shape
<1>2. ASSUME NEW x, watch' = [watch EXCEPT ![t] = x] PROVE v = x
  BY <1>0, <1>2, Zenon DEF Shape
<1>3. ASSUME NEW u \in Tabs, NEW s, Push(u, s) PROVE Goal
  <2>1. watch' = [watch EXCEPT ![u] = Observed(u, Lands(u, s))]
    BY <1>3, Zenon DEF Push
  <2>2. Observed(t, Lands(t, s)) \in {w, Unmounted, StartTimers(Unmounted)}
    BY Zenon DEF Observed
  <2>. QED  BY <2>1, <2>2, <1>1, <1>2, Zenon DEF Restarted
<1>4. ASSUME NEW u \in Tabs, NEW s, Load(u, s) PROVE Goal
  <2>1. watch' = [watch EXCEPT ![u] = IF s = "login" THEN Unmounted ELSE StartTimers(Unmounted)]
    BY <1>4, Zenon DEF Load
  <2>. QED  BY <2>1, <1>1, <1>2, Zenon DEF Restarted
<1>5. ASSUME NEW u \in Tabs, Navigate(u) \/ ToastEnds(u) PROVE Goal
  BY <1>3, <1>5, Zenon DEF Navigate, ToastEnds
<1>6. ASSUME NEW u \in Tabs, Open(u) PROVE Goal
  BY <1>4, <1>6, Zenon DEF Open
<1>7. ASSUME NEW u \in Tabs, NEW x, NEW y, Unauthorized(u, x, y) PROVE Goal
  BY <1>4, <1>7, Zenon DEF Unauthorized
<1>8. ASSUME NEW u \in Tabs, LoginFails(u) \/ Refused(u) PROVE Goal
  BY <1>7, <1>8, Zenon DEF LoginFails, Refused
<1>9. ASSUME NEW u \in Tabs,
             Submit(u) \/ LoginAnswered(u) \/ LoginArrives(u) \/ Ask(u) \/ Unreached(u) \/ Logout(u)
      PROVE  v = w
  BY <1>9, Zenon DEF Submit, LoginAnswered, LoginArrives, Ask, Unreached, Logout
<1>10. ASSUME NEW u \in Tabs, LogoutEnds(u) PROVE Goal
  BY <1>1, <1>2, <1>10, Zenon DEF LogoutEnds, Restarted
<1>11. ASSUME NEW u \in Tabs,
              Activity(u) \/ StillHere(u) \/ WarnFires(u) \/ Effect(u) \/ LogoutFires(u)
       PROVE  Goal
  <2>1. CASE u # t
    BY <1>1, <1>11, <2>1, Zenon
    DEF Activity, StillHere, WarnFires, Effect, LogoutFires, Watching
  <2>2. ASSUME Activity(t) PROVE Goal
    <3>1. v = [(IF w.effect THEN w ELSE StartTimers(w)) EXCEPT !.idle = 0]
      BY <1>2, <2>2, Zenon DEF Activity, Watching
    <3>. QED  BY <3>1, Zenon DEF Restarted
  <2>3. ASSUME StillHere(t) PROVE Goal
    BY <1>2, <2>3, Zenon DEF StillHere, Watching, Restarted
  <2>4. ASSUME WarnFires(t) PROVE Goal
    BY <1>2, <2>4, Zenon DEF WarnFires, Watching
  <2>5. ASSUME Effect(t) PROVE Goal
    BY <1>2, <2>5, Zenon DEF Effect, Watching, Restarted
  <2>6. ASSUME LogoutFires(t) PROVE Goal
    BY <1>2, <2>6, Zenon DEF LogoutFires, Watching
  <2>. QED  BY <1>11, <2>1, <2>2, <2>3, <2>4, <2>5, <2>6, Zenon
<1>12. CASE Tick
  BY <1>12, Zenon DEF Tick
<1>13. CASE UNCHANGED vars
  BY <1>13, Zenon DEF vars
<1>. QED
  BY <1>5, <1>6, <1>8, <1>9, <1>10, <1>11, <1>12, <1>13, Zenon DEF Next

(* Timers that have just been started are in order.                        *)
LEMMA RestartedAwake ==
  ASSUME NEW w, WatchOK(w), NEW v \in Restarted(w)
  PROVE  AwakeOK(v)
<1>0. w \in Watches /\ Warn < Timeout /\ None \notin Nat /\ Warn \in Nat /\ Timeout \in Nat
  BY Clocks, Zenon DEF WatchOK
<1>1. ASSUME NEW x \in Watches
      PROVE  StartTimers(x).warnIn = Warn /\ StartTimers(x).logoutIn = Timeout /\ StartTimers(x) \in Watches
  <2>1. StartTimers(x).warnIn = Warn /\ StartTimers(x).logoutIn = Timeout
    BY SMT DEF StartTimers, Watches
  <2>2. StartTimers(x) \in Watches
    BY StartTimersOK, Zenon DEF WatchOK
  <2>. QED  BY <2>1, <2>2
<1>2. ASSUME NEW x, x.warnIn = Warn, x.logoutIn = Timeout PROVE AwakeOK(x)
  BY <1>0, <1>2, SMT DEF AwakeOK
<1>3. AwakeOK(Unmounted)
  BY Zenon DEF AwakeOK, Unmounted
<1>4. Unmounted \in Watches /\ [w EXCEPT !.warnIn = None, !.logoutIn = None] \in Watches
  BY <1>0, UnmountedOK, Clocks, Zenon DEF Watches, WatchOK
<1>5. ASSUME NEW x \in Watches, x.warnIn = Warn, x.logoutIn = Timeout
      PROVE  AwakeOK([x EXCEPT !.idle = 0]) /\ AwakeOK([x EXCEPT !.effect = w.warning])
  <2>1. /\ [x EXCEPT !.idle = 0].warnIn = Warn /\ [x EXCEPT !.idle = 0].logoutIn = Timeout
        /\ [x EXCEPT !.effect = w.warning].warnIn = Warn
        /\ [x EXCEPT !.effect = w.warning].logoutIn = Timeout
    BY <1>5, SMT DEF Watches
  <2>. QED  BY <2>1, <1>2
<1>. QED  BY <1>0, <1>1, <1>2, <1>3, <1>4, <1>5, Zenon DEF Restarted

(* Awake, a tick waits for a warning that is due and for the effect that   *)
(* follows it.                                                             *)
LEMMA PassAwake ==
  ASSUME NEW w, WatchOK(w), AwakeOK(w), w.effect = w.warning, w.warnIn # 0, w.logoutIn # 0
  PROVE  AwakeOK(Pass(w))
<1>1. CASE w = Unmounted
  BY <1>1, Zenon DEF Pass
<1>2. CASE w # Unmounted
  <2> DEFINE v == [w EXCEPT !.warnIn = Older(w.warnIn), !.logoutIn = Older(w.logoutIn),
                            !.idle = IF w.idle = Timeout THEN w.idle ELSE w.idle + 1]
  <2>1. w \in Watches
    BY Zenon DEF WatchOK
  <2>2. /\ v.warnIn = Older(w.warnIn) /\ v.logoutIn = Older(w.logoutIn)
    BY <2>1, SMT DEF Watches
  <2>3. /\ w.warnIn \in Clock(Warn) /\ w.logoutIn \in Clock(Timeout)
    BY <2>1, Zenon DEF Watches
  <2>4. AwakeOK(v)
    BY <2>2, <2>3, Clocks, SMT DEF AwakeOK, Older, Clock
  <2>. QED  BY <1>2, <2>4, Zenon DEF Pass
<1>. QED  BY <1>1, <1>2, Zenon

(* While the machine is awake, the observer's logout never becomes due,    *)
(* for any warning and timeout and however long the user is idle           *)
(* (IdleSessionObserver.tsx:38-96).                                        *)
THEOREM AwakeNeverSignedOut ==
  ASSUME Sleeps = FALSE PROVE Spec => [](\A t \in Tabs : watch[t].logoutIn # 0)
<1> DEFINE Awake == \A t \in Tabs : AwakeOK(watch[t])
<1>1. Init => Awake
  <2>1. AwakeOK(Unmounted)
    BY Zenon DEF AwakeOK, Unmounted
  <2>. QED  BY <2>1, Zenon DEF Init
<1>2. ASSUME IndInv, Awake, [Next]_vars PROVE Awake'
  <2> SUFFICES ASSUME NEW t \in Tabs PROVE AwakeOK(watch'[t])
    OBVIOUS
  <2> DEFINE w == watch[t]
             v == watch'[t]
  <2>1. WatchOK(w) /\ AwakeOK(w) /\ w \in Watches
    BY <1>2, Zenon DEF IndInv, WatchesOK, WatchOK
  <2>2. CASE v = w \/ v \in Restarted(w)
    BY <2>1, <2>2, RestartedAwake, Zenon
  <2>3. CASE v = [w EXCEPT !.idle = 0]
    <3>1. v.warnIn = w.warnIn /\ v.logoutIn = w.logoutIn /\ v.effect = w.effect /\ v.warning = w.warning
      BY <2>1, <2>3, SMT DEF Watches
    <3>. QED  BY <2>1, <3>1, Zenon DEF AwakeOK
  <2>4. CASE w.warnIn = 0 /\ v = [w EXCEPT !.warnIn = None, !.warning = TRUE]
    <3>1. v.warnIn = None /\ v.logoutIn = w.logoutIn /\ v.effect = w.effect /\ v.warning = TRUE
      BY <2>1, <2>4, SMT DEF Watches
    <3>2. w.effect # TRUE
      BY <2>1, <2>4, Clocks, Zenon DEF WatchOK
    <3>3. w.logoutIn # None => w.logoutIn > 0
      BY <2>1, <2>4, Clocks, SMT DEF AwakeOK
    <3>. QED  BY <3>1, <3>2, <3>3, Zenon DEF AwakeOK
  <2>5. CASE w.logoutIn = 0 /\ v = [w EXCEPT !.logoutIn = None]
    <3>1. v.logoutIn = None
      BY <2>1, <2>5, SMT DEF Watches
    <3>. QED  BY <3>1, Zenon DEF AwakeOK
  <2>6. CASE Tick /\ v = Pass(w)
    <3>1. w.effect = w.warning /\ w.warnIn # 0 /\ w.logoutIn # 0
      BY <2>6, Zenon DEF Tick
    <3>. QED  BY <2>1, <2>6, <3>1, PassAwake, Zenon
  <2>. QED  BY <1>2, <2>2, <2>3, <2>4, <2>5, <2>6, WatchStep, Zenon
<1>3. ASSUME IndInv, Awake PROVE \A t \in Tabs : watch[t].logoutIn # 0
  <2> SUFFICES ASSUME NEW t \in Tabs, watch[t].logoutIn = 0 PROVE FALSE
    OBVIOUS
  <2>1. WatchOK(watch[t]) /\ AwakeOK(watch[t]) /\ watch[t].warnIn \in Clock(Warn)
    BY <1>3, Zenon DEF IndInv, WatchesOK, WatchOK, Watches
  <2>. QED  BY <2>1, Clocks, SMT DEF AwakeOK, Clock
<1> HIDE DEF Awake
<1>4. Spec => []Awake
  BY <1>1, <1>2, IndInvHolds, PTL DEF Spec
<1>. QED  BY <1>3, <1>4, IndInvHolds, PTL
=============================================================================

-------------------------- MODULE FormPagesProofs --------------------------
(* Proofs about FormPages for any number of tabs, save requests, edits and *)
(* settings, and for any layout of the pages.                              *)
EXTENDS FormPages, TLAPS

Full == [Keys -> Value]

ClientTypes ==
  /\ page \in Layouts
  /\ on \in [Tabs -> BOOLEAN] /\ cached \in [Tabs -> BOOLEAN]
  /\ loading \in [Tabs -> {"no", "asked", "served"}]
  /\ reply \in [Tabs -> Full] /\ form \in [Tabs -> Full] /\ cache \in [Tabs -> Full]
  /\ held \in [Tabs -> SUBSET Keys] /\ shown \in [Tabs -> Value]
  /\ saving \in [Tabs -> Puts \cup {None}]

ServerTypes ==
  /\ store \in Full /\ put \in [Puts -> Request]
  /\ stamp \in Stamp
  /\ touched \in SUBSET Keys /\ retired \in Full /\ careful \in BOOLEAN

Types == ClientTypes /\ ServerTypes

Waits(t) == saving[t] # None => put[saving[t]].tab = t /\ put[saving[t]].st # "free"
Sent(s) == put[s].st # "free" => put[s].tab \in Tabs
Linked == (\A t \in Tabs : Waits(t)) /\ (\A s \in Puts : Sent(s))

(* A setting that nobody edited has its first value wherever it is about   *)
(* to be read or written: in the answer of a load, in the part of a form   *)
(* that a save would send, in what a request has still to write.           *)
Same(k) ==
  /\ store[k] = {0}
  /\ \A t \in Tabs : loading[t] = "served" => reply[t][k] = {0}
  /\ \A t \in Tabs : k \in held[t] => form[t][k] = {0}
  /\ \A s \in Puts : k \in put[s].todo => put[s].body[k] = {0}

(* What a calm request has written is what is stored, and a request that   *)
(* succeeded has written everything.                                       *)
Stored(s) == put[s].st \in {"writing", "ok"} =>
               /\ put[s].calm = TRUE => \A k \in put[s].all \ put[s].todo : store[k] = put[s].body[k]
               /\ put[s].st = "ok" => put[s].todo = {}

(* The screen of sms-auth, whose page has no query cache.                  *)
Screen(t) ==
  /\ cached[t] = TRUE => ~IsSettings(t)
  /\ "whitelist" \in page[t].fields => form[t]["whitelist"] \in {shown[t], {}}

IndInv == /\ Types /\ Linked
          /\ \A k \in SettingKeys \ touched : Same(k)
          /\ \A s \in Puts : Stored(s)
          /\ \A t \in Tabs : Screen(t)

-----------------------------------------------------------------------------
(* Facts about the data.                                                   *)
LEMMA KeyFacts == /\ "whitelist" \in Keys /\ RecordKeys \subseteq Keys /\ SettingKeys \subseteq Keys
                  /\ SettingKeys \cap RecordKeys = {} /\ "rules" \notin SettingKeys
  BY FormAssumption, Zenon DEF Keys, RecordKeys

LEMMA BlankFull == Blank \in Full /\ {} \in Value /\ \A k \in Keys : Blank[k] = {}
  BY Zenon DEF Blank, Full, Value

(* Only a settings page has the list of phone numbers.                     *)
LEMMA PhonePage == ASSUME page \in Layouts, NEW t \in Tabs, "whitelist" \in page[t].fields
                   PROVE  IsSettings(t)
<1>1. page[t] \in Pages
  BY FormAssumption, Zenon
<1>2. ASSUME NEW p \in RecordPages \cup {Elsewhere} PROVE "whitelist" \notin p.fields
  BY <1>2, SMT DEF RecordPages, Elsewhere, NetworkEdit, SchemaEdit, NodeEdit, Editor, TopologyInputs,
     SourceInputs, TargetInputs, SchemaInputs, RuleInputs, NodeInputs
<1>3. ASSUME NEW p \in SettingsPages PROVE p.kind = "settings"
  BY <1>3, SMT DEF SettingsPages, SettingsPage, ConsolidationSettings, ExternalLogging, SMSGateway, SMSAuth,
     MasterSettings, AuthWS, InterfaceSettings
<1>. QED  BY <1>1, <1>2, <1>3, Zenon DEF Pages, IsSettings

(* An edit makes a value out of the one on the screen.                     *)
LEMMA EditFull == ASSUME Types, NEW t \in Tabs, NEW k \in Keys, stamp < MaxEdits, NEW v \in EditsOf(t, k)
                  PROVE  v \in Value /\ stamp + 1 \in Stamp
<1>1. stamp + 1 \in Stamp
  BY FormAssumption, SMT DEF Types, ServerTypes, Stamp
<1>2. OnScreen(t, k) \in Value
  BY Zenon DEF Types, ClientTypes, OnScreen, Full
<1>. QED  BY <1>1, <1>2, Zenon DEF EditsOf, Value

LEMMA EditElsewhere == ASSUME NEW f \in Full, NEW k, NEW v PROVE \A x \in Keys \ {k} : [f EXCEPT ![k] = v][x] = f[x]
  BY Zenon DEF Full

LEMMA RequestFacts ==
  ASSUME NEW q \in Request
  PROVE  /\ q.st \in {"free", "writing", "ok", "failed"} /\ q.tab \in Tabs \cup {None}
         /\ q.body \in Full /\ q.all \in SUBSET Keys /\ q.todo \in SUBSET Keys /\ q.calm \in BOOLEAN
  BY SMT DEF Request, Full

(* An answer of GetSettings has what was read, or nothing, for a setting.  *)
LEMMA AnswerRead ==
  ASSUME Types, NEW t \in Tabs, NEW got \in Answers
  PROVE  /\ Answer(t, got) \in Full /\ got \in SUBSET SettingKeys
         /\ \A k \in Keys : Answer(t, got)[k] \in {reply[t][k], {}}
         /\ \A k \in got : Answer(t, got)[k] = reply[t][k]
<1>1. reply[t] \in Full
  BY Zenon DEF Types, ClientTypes
<1>2. got \in SUBSET SettingKeys
  BY FormAssumption, Zenon
<1>3. \A k \in Keys : reply[t][k] \in Value
  BY <1>1, Zenon DEF Full
<1>4. Answer(t, got) \in Full
  BY <1>3, BlankFull, Zenon DEF Answer, Full
<1>. QED  BY <1>2, <1>4, KeyFacts, Zenon DEF Answer

-----------------------------------------------------------------------------
(* The invariant holds initially.                                          *)
LEMMA InitInv == Init => IndInv
<1> SUFFICES ASSUME Init PROVE IndInv
  OBVIOUS
<1>1. ClientTypes
  BY BlankFull, Zenon DEF Init, ClientTypes
<1>2. ServerTypes
  <2>1. 0 \in Stamp
    BY FormAssumption, SMT DEF Stamp
  <2>2. Free \in Request
    BY BlankFull, Zenon DEF Free, Request, Full
  <2>3. store \in Full /\ retired \in Full
    BY <2>1, Zenon DEF Init, Full, Value
  <2>. QED  BY <2>1, <2>2, <2>3, Zenon DEF Init, ServerTypes
<1>3. Linked
  BY Zenon DEF Init, Linked, Waits, Sent, Free
<1>4. ASSUME NEW k \in SettingKeys PROVE Same(k)
  <2>1. store[k] = {0}
    BY KeyFacts, Zenon DEF Init
  <2>. QED  BY <2>1, Zenon DEF Init, Same, Free
<1>5. ASSUME NEW s \in Puts PROVE Stored(s)
  BY Zenon DEF Init, Stored, Free
<1>6. ASSUME NEW t \in Tabs PROVE Screen(t)
  BY KeyFacts, BlankFull, Zenon DEF Init, Screen
<1>. QED  BY <1>1, <1>2, <1>3, <1>4, <1>5, <1>6, Zenon DEF IndInv, Types

-----------------------------------------------------------------------------
(* Steps of a tab that leave the server alone.                             *)
LEMMA ServerFrame ==
  ASSUME IndInv, UNCHANGED <<server, stamp, touched, retired>>, careful' \in BOOLEAN
  PROVE  ServerTypes' /\ (\A s \in Puts : Stored(s)') /\ (\A s \in Puts : Sent(s)')
<1>. USE DEF server
<1>1. ServerTypes'
  BY Zenon DEF IndInv, Types, ServerTypes
<1>2. ASSUME NEW s \in Puts PROVE Stored(s)'
  BY Zenon DEF IndInv, Stored
<1>3. ASSUME NEW s \in Puts PROVE Sent(s)'
  BY Zenon DEF IndInv, Linked, Sent
<1>. QED  BY <1>1, <1>2, <1>3

LEMMA WaitFrame ==
  ASSUME IndInv, UNCHANGED <<server, stamp, touched, retired, saving>>, careful' \in BOOLEAN
  PROVE  Linked'
<1>1. \A s \in Puts : Sent(s)'
  BY ServerFrame
<1>2. ASSUME NEW t \in Tabs PROVE Waits(t)'
  BY Zenon DEF IndInv, Linked, Waits, server
<1>. QED  BY <1>1, <1>2 DEF Linked

(* The page starts with a blank form that a save would not send any key    *)
(* of, or with the record of the cache, which has no setting.              *)
LEMMA OpenInv == ASSUME IndInv, NEW t \in Tabs, Open(t) PROVE IndInv'
<1>. USE DEF Open
<1>1. careful' \in BOOLEAN
  BY Zenon DEF IndInv, Types, ServerTypes
<1>2. ServerTypes' /\ (\A s \in Puts : Stored(s)') /\ Linked'
  BY <1>1, ServerFrame, WaitFrame, Zenon
<1>3. ClientTypes'
  <2>1. form' \in [Tabs -> Full]
    BY BlankFull, Zenon DEF IndInv, Types, ClientTypes
  <2>2. loading' \in [Tabs -> {"no", "asked", "served"}]
    BY Zenon DEF IndInv, Types, ClientTypes
  <2>3. held' \in [Tabs -> SUBSET Keys]
    BY KeyFacts, Zenon DEF IndInv, Types, ClientTypes
  <2>4. shown' \in [Tabs -> Value]
    BY BlankFull, Zenon DEF IndInv, Types, ClientTypes
  <2>5. on' \in [Tabs -> BOOLEAN]
    BY Zenon DEF IndInv, Types, ClientTypes
  <2>. QED  BY <2>1, <2>2, <2>3, <2>4, <2>5, Zenon DEF IndInv, Types, ClientTypes
<1>4. ASSUME NEW k \in SettingKeys \ touched' PROVE Same(k)'
  <2>1. Same(k)
    BY <1>4, Zenon DEF IndInv
  <2>2. store'[k] = {0} /\ \A s \in Puts : k \in put'[s].todo => put'[s].body[k] = {0}
    BY <2>1, Zenon DEF Same, server
  <2>3. ASSUME NEW u \in Tabs, loading'[u] = "served" PROVE reply'[u][k] = {0}
    <3>1. loading[u] = "served"
      BY <2>3, Zenon DEF IndInv, Types, ClientTypes
    <3>. QED  BY <2>1, <3>1, Zenon DEF Same
  <2>4. ASSUME NEW u \in Tabs, k \in held'[u] PROVE form'[u][k] = {0}
    <3>1. u # t
      BY <2>4, KeyFacts, Zenon DEF IndInv, Types, ClientTypes
    <3>. QED  BY <2>1, <2>4, <3>1, Zenon DEF Same, IndInv, Types, ClientTypes
  <2>. QED  BY <2>2, <2>3, <2>4, Zenon DEF Same
<1>5. ASSUME NEW u \in Tabs PROVE Screen(u)'
  <2>1. Screen(u)
    BY Zenon DEF IndInv
  <2>2. CASE u # t
    BY <2>1, <2>2, Zenon DEF Screen, IsSettings, IndInv, Types, ClientTypes
  <2>3. CASE u = t
    <3>1. "whitelist" \in page[t].fields => cached[t] # TRUE
      BY <2>1, <2>3, PhonePage, Zenon DEF Screen, IndInv, Types, ClientTypes
    <3>2. cached[t] \in BOOLEAN
      BY Zenon DEF IndInv, Types, ClientTypes
    <3>3. "whitelist" \in page[t].fields => form'[t] = Blank
      BY <3>1, <3>2, Zenon DEF IndInv, Types, ClientTypes
    <3>. QED  BY <2>1, <2>3, <3>3, BlankFull, KeyFacts, Zenon DEF Screen, IsSettings
  <2>. QED  BY <2>2, <2>3
<1>. QED  BY <1>2, <1>3, <1>4, <1>5, Zenon DEF IndInv, Types

(* Nothing is left of the page that a save could send.                     *)
LEMMA AwayClient ==
  ASSUME IndInv, NEW t \in Tabs, AwayFrom(t), UNCHANGED <<page, cached, cache>>
  PROVE  /\ ClientTypes'
         /\ \A k \in SettingKeys \ touched : \A u \in Tabs :
              /\ loading'[u] = "served" => reply'[u][k] = {0}
              /\ k \in held'[u] => form'[u][k] = {0}
         /\ \A u \in Tabs : Screen(u)'
<1>. USE DEF AwayFrom
<1>1. ClientTypes'
  <2>1. form' \in [Tabs -> Full] /\ reply' \in [Tabs -> Full]
    BY BlankFull, Zenon DEF IndInv, Types, ClientTypes
  <2>2. loading' \in [Tabs -> {"no", "asked", "served"}]
    BY Zenon DEF IndInv, Types, ClientTypes
  <2>3. held' \in [Tabs -> SUBSET Keys]
    BY Zenon DEF IndInv, Types, ClientTypes
  <2>4. shown' \in [Tabs -> Value]
    BY BlankFull, Zenon DEF IndInv, Types, ClientTypes
  <2>5. on' \in [Tabs -> BOOLEAN] /\ saving' \in [Tabs -> Puts \cup {None}]
    BY Zenon DEF IndInv, Types, ClientTypes
  <2>. QED  BY <2>1, <2>2, <2>3, <2>4, <2>5, Zenon DEF IndInv, Types, ClientTypes
<1>2. ASSUME NEW k \in SettingKeys \ touched, NEW u \in Tabs
      PROVE  /\ loading'[u] = "served" => reply'[u][k] = {0}
             /\ k \in held'[u] => form'[u][k] = {0}
  <2>1. Same(k)
    BY Zenon DEF IndInv
  <2>2. CASE u # t
    BY <2>1, <2>2, Zenon DEF Same, IndInv, Types, ClientTypes
  <2>3. CASE u = t
    <3>1. held'[u] = {}
      BY <2>3, Zenon DEF IndInv, Types, ClientTypes
    <3>2. ASSUME loading'[u] = "served" PROVE reply'[u][k] = {0}
      <4>1. ~IsSettings(t) /\ loading[t] = "served"
        BY <2>3, <3>2, Zenon DEF IndInv, Types, ClientTypes
      <4>2. reply'[t] = reply[t]
        BY <4>1, Zenon DEF IndInv, Types, ClientTypes
      <4>. QED  BY <2>1, <2>3, <4>1, <4>2, Zenon DEF Same
    <3>. QED  BY <3>1, <3>2, Zenon
  <2>. QED  BY <2>2, <2>3
<1>3. ASSUME NEW u \in Tabs PROVE Screen(u)'
  <2>1. Screen(u)
    BY Zenon DEF IndInv
  <2>2. CASE u # t
    BY <2>1, <2>2, Zenon DEF Screen, IsSettings, IndInv, Types, ClientTypes
  <2>3. CASE u = t
    <3>1. form'[t] = Blank
      BY Zenon DEF IndInv, Types, ClientTypes
    <3>. QED  BY <2>1, <2>3, <3>1, BlankFull, KeyFacts, Zenon DEF Screen, IsSettings
  <2>. QED  BY <2>2, <2>3
<1>. QED  BY <1>1, <1>2, <1>3, Zenon

LEMMA LeaveInv == ASSUME IndInv, NEW t \in Tabs, Leave(t) PROVE IndInv'
<1>. USE DEF Leave, history
<1>1. /\ ClientTypes'
      /\ \A k \in SettingKeys \ touched : \A u \in Tabs :
           /\ loading'[u] = "served" => reply'[u][k] = {0}
           /\ k \in held'[u] => form'[u][k] = {0}
      /\ \A u \in Tabs : Screen(u)'
  BY AwayClient, Zenon
<1>2. careful' \in BOOLEAN
  BY Zenon DEF IndInv, Types, ServerTypes
<1>3. ServerTypes' /\ (\A s \in Puts : Stored(s)') /\ (\A s \in Puts : Sent(s)')
  BY <1>2, ServerFrame, Zenon
<1>4. ASSUME NEW u \in Tabs PROVE Waits(u)'
  <2>1. Waits(u)
    BY Zenon DEF IndInv, Linked
  <2>. QED  BY <2>1, Zenon DEF Waits, AwayFrom, server, IndInv, Types, ClientTypes
<1>5. ASSUME NEW k \in SettingKeys \ touched' PROVE Same(k)'
  <2>1. Same(k)
    BY <1>5, Zenon DEF IndInv
  <2>. QED  BY <1>1, <1>5, <2>1, Zenon DEF Same, server
<1>. QED  BY <1>1, <1>3, <1>4, <1>5, Zenon DEF IndInv, Types, Linked

(* A load that starts, or fails, answers nothing.                          *)
LEMMA LoadInv ==
  ASSUME IndInv, NEW t \in Tabs, NEW l \in {"no", "asked"}, loading' = [loading EXCEPT ![t] = l],
         reply' = reply \/ reply' = [reply EXCEPT ![t] = Blank], careful' \in BOOLEAN,
         UNCHANGED <<page, on, form, held, shown, cached, cache, saving, server, stamp, touched, retired>>
  PROVE  IndInv'
<1>1. ServerTypes' /\ (\A s \in Puts : Stored(s)') /\ Linked'
  BY ServerFrame, WaitFrame, Zenon
<1>2. ClientTypes'
  <2>1. reply' \in [Tabs -> Full]
    BY BlankFull, Zenon DEF IndInv, Types, ClientTypes
  <2>2. loading' \in [Tabs -> {"no", "asked", "served"}]
    BY Zenon DEF IndInv, Types, ClientTypes
  <2>. QED  BY <2>1, <2>2, Zenon DEF IndInv, Types, ClientTypes
<1>3. ASSUME NEW k \in SettingKeys \ touched' PROVE Same(k)'
  <2>1. Same(k)
    BY <1>3, Zenon DEF IndInv
  <2>2. ASSUME NEW u \in Tabs, loading'[u] = "served" PROVE reply'[u][k] = {0}
    <3>1. u # t /\ loading[u] = "served"
      BY <2>2, Zenon DEF IndInv, Types, ClientTypes
    <3>2. reply'[u] = reply[u]
      BY <3>1, Zenon DEF IndInv, Types, ClientTypes
    <3>. QED  BY <2>1, <3>1, <3>2, Zenon DEF Same
  <2>. QED  BY <2>1, <2>2, Zenon DEF Same, server
<1>4. ASSUME NEW u \in Tabs PROVE Screen(u)'
  BY Zenon DEF Screen, IsSettings, IndInv
<1>. QED  BY <1>1, <1>2, <1>3, <1>4, Zenon DEF IndInv, Types

LEMMA ReloadInv == ASSUME IndInv, NEW t \in Tabs, Reload(t) PROVE IndInv'
<1>1. careful' \in BOOLEAN
  BY Zenon DEF Reload, IndInv, Types, ServerTypes
<1>. QED  BY <1>1, LoadInv, Zenon DEF Reload

LEMMA FocusInv == ASSUME IndInv, NEW t \in Tabs, Focus(t) PROVE IndInv'
<1>1. careful' \in BOOLEAN
  BY Zenon DEF Focus, history, IndInv, Types, ServerTypes
<1>. QED  BY <1>1, LoadInv, Zenon DEF Focus, history

LEMMA LoadFailsInv == ASSUME IndInv, NEW t \in Tabs, LoadFails(t) PROVE IndInv'
<1>1. careful' \in BOOLEAN
  BY Zenon DEF LoadFails, history, IndInv, Types, ServerTypes
<1>. QED  BY <1>1, LoadInv, Zenon DEF LoadFails, history

(* The answer is what is stored.                                           *)
LEMMA ServeLoadInv == ASSUME IndInv, NEW t \in Tabs, ServeLoad(t) PROVE IndInv'
<1>. USE DEF ServeLoad, history
<1>1. careful' \in BOOLEAN
  BY Zenon DEF IndInv, Types, ServerTypes
<1>2. ServerTypes' /\ (\A s \in Puts : Stored(s)') /\ Linked'
  BY <1>1, ServerFrame, WaitFrame, Zenon
<1>3. ClientTypes'
  BY Zenon DEF IndInv, Types, ClientTypes, ServerTypes
<1>4. ASSUME NEW k \in SettingKeys \ touched' PROVE Same(k)'
  <2>1. Same(k)
    BY <1>4, Zenon DEF IndInv
  <2>2. ASSUME NEW u \in Tabs, loading'[u] = "served" PROVE reply'[u][k] = {0}
    <3>1. CASE u = t
      <4>1. reply'[u] = store
        BY <3>1, Zenon DEF IndInv, Types, ClientTypes
      <4>. QED  BY <2>1, <4>1, Zenon DEF Same
    <3>2. CASE u # t
      <4>1. reply'[u] = reply[u] /\ loading'[u] = loading[u]
        BY <3>2, Zenon DEF IndInv, Types, ClientTypes
      <4>. QED  BY <2>1, <2>2, <4>1, Zenon DEF Same
    <3>. QED  BY <3>1, <3>2
  <2>. QED  BY <2>1, <2>2, Zenon DEF Same, server
<1>5. ASSUME NEW u \in Tabs PROVE Screen(u)'
  BY Zenon DEF Screen, IsSettings, IndInv
<1>. QED  BY <1>2, <1>3, <1>4, <1>5, Zenon DEF IndInv, Types

(* Form and list of numbers are filled from the same answer.               *)
LEMMA SettingsArriveInv == ASSUME IndInv, NEW t \in Tabs, SettingsArrive(t) PROVE IndInv'
<1>. USE DEF SettingsArrive, history
<1>0. PICK got \in Answers :
           /\ form' = [form EXCEPT ![t] = Answer(t, got)]
           /\ held' = [held EXCEPT ![t] = got]
           /\ shown' = [shown EXCEPT ![t] = IF "whitelist" \in page[t].fields /\ Answer(t, got)["whitelist"] # {}
                                           THEN Answer(t, got)["whitelist"] ELSE @]
  BY Zenon
<1>a. /\ Answer(t, got) \in Full /\ got \in SUBSET SettingKeys
      /\ \A k \in Keys : Answer(t, got)[k] \in {reply[t][k], {}}
      /\ \A k \in got : Answer(t, got)[k] = reply[t][k]
  BY AnswerRead, Zenon DEF IndInv
<1>1. careful' \in BOOLEAN
  BY Zenon DEF IndInv, Types, ServerTypes
<1>2. ServerTypes' /\ (\A s \in Puts : Stored(s)') /\ Linked'
  BY <1>1, ServerFrame, WaitFrame, Zenon
<1>3. ClientTypes'
  <2>1. form' \in [Tabs -> Full] /\ reply' \in [Tabs -> Full]
    BY <1>0, <1>a, BlankFull, Zenon DEF IndInv, Types, ClientTypes
  <2>2. loading' \in [Tabs -> {"no", "asked", "served"}]
    BY Zenon DEF IndInv, Types, ClientTypes
  <2>3. held' \in [Tabs -> SUBSET Keys]
    <3>1. got \in SUBSET Keys
      BY <1>a, KeyFacts, Zenon
    <3>. QED  BY <1>0, <3>1, Zenon DEF IndInv, Types, ClientTypes
  <2>4. shown' \in [Tabs -> Value]
    <3>1. Answer(t, got)["whitelist"] \in Value
      BY <1>a, KeyFacts, Zenon DEF Full
    <3>2. shown \in [Tabs -> Value]
      BY Zenon DEF IndInv, Types, ClientTypes
    <3>. QED  BY <1>0, <3>1, <3>2, Zenon
  <2>. QED  BY <2>1, <2>2, <2>3, <2>4, Zenon DEF IndInv, Types, ClientTypes
<1>4. ASSUME NEW k \in SettingKeys \ touched' PROVE Same(k)'
  <2>1. Same(k)
    BY <1>4, Zenon DEF IndInv
  <2>2. ASSUME NEW u \in Tabs
        PROVE  /\ loading'[u] = "served" => reply'[u][k] = {0}
               /\ k \in held'[u] => form'[u][k] = {0}
    <3>1. CASE u = t
      <4>1. loading'[u] = "no" /\ loading[u] = "served" /\ form'[u] = Answer(t, got) /\ held'[u] = got
        BY <1>0, <3>1, Zenon DEF IndInv, Types, ClientTypes
      <4>2. reply[t][k] = {0}
        BY <2>1, <3>1, <4>1, Zenon DEF Same
      <4>. QED  BY <1>a, <4>1, <4>2, Zenon
    <3>2. CASE u # t
      <4>1. /\ loading'[u] = loading[u] /\ form'[u] = form[u]
            /\ reply'[u] = reply[u] /\ held'[u] = held[u]
        BY <1>0, <3>2, Zenon DEF IndInv, Types, ClientTypes
      <4>. QED  BY <2>1, <4>1, Zenon DEF Same
    <3>. QED  BY <3>1, <3>2
  <2>. QED  BY <2>1, <2>2, Zenon DEF Same, server
<1>5. ASSUME NEW u \in Tabs PROVE Screen(u)'
  <2>1. Screen(u)
    BY Zenon DEF IndInv
  <2>2. CASE u # t
    <3>1. form'[u] = form[u] /\ shown'[u] = shown[u]
      BY <1>0, <2>2, Zenon DEF IndInv, Types, ClientTypes
    <3>. QED  BY <2>1, <3>1, Zenon DEF Screen, IsSettings
  <2>3. CASE u = t
    <3>1. form'[u] = Answer(t, got)
      BY <1>0, <2>3, Zenon DEF IndInv, Types, ClientTypes
    <3>2. "whitelist" \in page[u].fields /\ Answer(t, got)["whitelist"] # {} => shown'[u] = Answer(t, got)["whitelist"]
      BY <1>0, <2>3, Zenon DEF IndInv, Types, ClientTypes
    <3>. QED  BY <2>1, <3>1, <3>2, Zenon DEF Screen, IsSettings
  <2>. QED  BY <2>2, <2>3
<1>. QED  BY <1>2, <1>3, <1>4, <1>5, Zenon DEF IndInv, Types

(* A record page has no list of numbers, and its answers hold unedited     *)
(* settings as they are stored.                                            *)
LEMMA RecordArrivesInv == ASSUME IndInv, NEW t \in Tabs, RecordArrives(t) PROVE IndInv'
<1>. USE DEF RecordArrives, history
<1>1. careful' \in BOOLEAN
  BY Zenon DEF IndInv, Types, ServerTypes
<1>2. ServerTypes' /\ (\A s \in Puts : Stored(s)') /\ Linked'
  BY <1>1, ServerFrame, WaitFrame, Zenon
<1>3. form' = form \/ form' = [form EXCEPT ![t] = Filled(t)]
  <2>1. [form EXCEPT ![t] = form[t]] = form
    BY Zenon DEF IndInv, Types, ClientTypes
  <2>. QED  BY <2>1, Zenon
<1>4. Filled(t) \in Full /\ \A k \in SettingKeys : Filled(t)[k] = reply[t][k]
  <2>1. reply[t] \in Full /\ form[t] \in Full
    BY Zenon DEF IndInv, Types, ClientTypes
  <2>. QED  BY <2>1, KeyFacts, Zenon DEF Filled, Full
<1>5. ClientTypes'
  <2>1. form' \in [Tabs -> Full]
    BY <1>3, <1>4, Zenon DEF IndInv, Types, ClientTypes
  <2>2. reply' \in [Tabs -> Full] /\ cache' \in [Tabs -> Full]
    BY BlankFull, Zenon DEF IndInv, Types, ClientTypes
  <2>3. loading' \in [Tabs -> {"no", "asked", "served"}] /\ cached' \in [Tabs -> BOOLEAN]
    BY Zenon DEF IndInv, Types, ClientTypes
  <2>. QED  BY <2>1, <2>2, <2>3, Zenon DEF IndInv, Types, ClientTypes
<1>6. ASSUME NEW k \in SettingKeys \ touched' PROVE Same(k)'
  <2>1. Same(k)
    BY <1>6, Zenon DEF IndInv
  <2>2. ASSUME NEW u \in Tabs
        PROVE  /\ loading'[u] = "served" => reply'[u][k] = {0}
               /\ k \in held'[u] => form'[u][k] = {0}
    <3>1. CASE u = t
      <4>1. loading'[u] = "no" /\ (form'[u] = form[u] \/ form'[u] = Filled(t))
        BY <1>3, <3>1, Zenon DEF IndInv, Types, ClientTypes
      <4>. QED  BY <1>4, <2>1, <3>1, <4>1, Zenon DEF Same
    <3>2. CASE u # t
      <4>1. form'[u] = form[u]
        BY <1>3, <3>2, Zenon DEF IndInv, Types, ClientTypes
      <4>2. /\ loading'[u] = loading[u]
            /\ reply'[u] = reply[u] /\ held'[u] = held[u]
        BY <3>2, Zenon DEF IndInv, Types, ClientTypes
      <4>. QED  BY <2>1, <4>1, <4>2, Zenon DEF Same
    <3>. QED  BY <3>1, <3>2
  <2>. QED  BY <2>1, <2>2, Zenon DEF Same, server
<1>7. ASSUME NEW u \in Tabs PROVE Screen(u)'
  <2>1. Screen(u)
    BY Zenon DEF IndInv
  <2>2. CASE u # t
    <3>1. form'[u] = form[u] /\ cached'[u] = cached[u]
      BY <1>3, <2>2, Zenon DEF IndInv, Types, ClientTypes
    <3>. QED  BY <2>1, <3>1, Zenon DEF Screen, IsSettings
  <2>3. CASE u = t
    <3>1. "whitelist" \notin page[t].fields
      BY PhonePage, Zenon DEF IndInv, Types, ClientTypes
    <3>. QED  BY <2>3, <3>1, Zenon DEF Screen, IsSettings
  <2>. QED  BY <2>2, <2>3
<1>. QED  BY <1>2, <1>5, <1>6, <1>7, Zenon DEF IndInv, Types

(* The edited key is no longer one of those nobody edited, and the list of *)
(* numbers is the same on the screen and in the form.                      *)
LEMMA EditInv == ASSUME IndInv, NEW t \in Tabs, NEW k \in Keys, Edit(t, k) PROVE IndInv'
<1>. USE DEF Edit
<1>1. PICK v \in EditsOf(t, k) :
        /\ form' = [form EXCEPT ![t][k] = v]
        /\ shown' = [shown EXCEPT ![t] = IF k = "whitelist" THEN v ELSE @]
  BY Zenon
<1>2. v \in Value /\ stamp + 1 \in Stamp
  BY EditFull, Zenon DEF IndInv
<1>3. form[t] \in Full /\ form' = [form EXCEPT ![t] = [form[t] EXCEPT ![k] = v]]
  BY <1>1, Zenon DEF IndInv, Types, ClientTypes
<1>4. form'[t] = [form[t] EXCEPT ![k] = v] /\ \A u \in Tabs \ {t} : form'[u] = form[u]
  BY <1>3, Zenon DEF IndInv, Types, ClientTypes
<1>4a. \A x \in Keys \ {k} : form'[t][x] = form[t][x]
  <2>1. \A x \in Keys \ {k} : [form[t] EXCEPT ![k] = v][x] = form[t][x]
    BY <1>3, EditElsewhere
  <2>. QED  BY <1>4, <2>1
<1>5. ServerTypes'
  <2>1. touched' \in SUBSET Keys
    BY KeyFacts, Zenon DEF IndInv, Types, ServerTypes
  <2>. QED  BY <1>2, <2>1, Zenon DEF IndInv, Types, ServerTypes, server
<1>6. Linked'
  <2>1. saving' = saving /\ put' = put
    BY Zenon DEF server
  <2>2. Linked
    BY Zenon DEF IndInv
  <2>. QED  BY <2>1, <2>2, Zenon DEF Linked, Waits, Sent
<1>7. ASSUME NEW s \in Puts PROVE Stored(s)'
  BY Zenon DEF IndInv, Stored, server
<1>8. ClientTypes'
  <2>1. [form[t] EXCEPT ![k] = v] \in Full
    BY <1>2, <1>3, Zenon DEF Full
  <2>2. form' \in [Tabs -> Full]
    BY <1>3, <2>1, Zenon DEF IndInv, Types, ClientTypes
  <2>3. shown' \in [Tabs -> Value]
    <3>1. (IF k = "whitelist" THEN v ELSE shown[t]) \in Value
      BY <1>2, Zenon DEF IndInv, Types, ClientTypes
    <3>. QED  BY <1>1, <3>1, Zenon DEF IndInv, Types, ClientTypes
  <2>4. held' \in [Tabs -> SUBSET Keys]
    BY Zenon DEF IndInv, Types, ClientTypes
  <2>. QED  BY <2>2, <2>3, <2>4, Zenon DEF IndInv, Types, ClientTypes
<1>9. ASSUME NEW x \in SettingKeys \ touched' PROVE Same(x)'
  <2>1. Same(x) /\ x # k /\ x \in Keys
    BY <1>9, KeyFacts, Zenon DEF IndInv
  <2>2. ASSUME NEW u \in Tabs, x \in held'[u] PROVE form'[u][x] = {0}
    <3>1. x \in held[u]
      BY <2>1, <2>2, Zenon DEF IndInv, Types, ClientTypes
    <3>2. form[u][x] = {0}
      BY <2>1, <3>1, Zenon DEF Same
    <3>3. CASE u = t
      <4>1. form'[t][x] = form[t][x]
        BY <1>4a, <2>1, Zenon
      <4>. QED  BY <3>2, <3>3, <4>1
    <3>4. CASE u # t
      BY <1>4, <3>2, <3>4, Zenon
    <3>. QED  BY <3>3, <3>4
  <2>. QED  BY <2>1, <2>2, Zenon DEF Same, server
<1>10. ASSUME NEW u \in Tabs PROVE Screen(u)'
  <2>1. Screen(u)
    BY Zenon DEF IndInv
  <2>2. CASE u # t
    <3>1. form'[u] = form[u] /\ shown'[u] = shown[u]
      BY <1>1, <1>4, <2>2, Zenon DEF IndInv, Types, ClientTypes
    <3>. QED  BY <2>1, <3>1, Zenon DEF Screen, IsSettings
  <2>3. CASE u = t /\ k = "whitelist"
    <3>1. form'[t]["whitelist"] = v /\ shown'[t] = v
      BY <1>1, <1>3, <1>4, <2>3, Zenon DEF IndInv, Types, ClientTypes, Full
    <3>. QED  BY <2>1, <2>3, <3>1, Zenon DEF Screen, IsSettings
  <2>4. CASE u = t /\ k # "whitelist"
    <3>1. form'[t]["whitelist"] = form[t]["whitelist"]
      BY <1>4a, <2>4, KeyFacts, Zenon
    <3>2. shown'[t] = shown[t]
      BY <1>1, <2>4, Zenon DEF IndInv, Types, ClientTypes
    <3>. QED  BY <2>1, <2>4, <3>1, <3>2, Zenon DEF Screen, IsSettings
  <2>. QED  BY <2>2, <2>3, <2>4
<1>. QED  BY <1>5, <1>6, <1>7, <1>8, <1>9, <1>10, Zenon DEF IndInv, Types

-----------------------------------------------------------------------------
(* Saving.  A request starts with everything still to write.               *)
LEMMA SaveInv == ASSUME IndInv, NEW t \in Tabs, NEW s \in Puts, Save(t, s) PROVE IndInv'
<1>. DEFINE q == [st |-> "writing", tab |-> t, body |-> form[t], all |-> held[t],
                  todo |-> held[t], calm |-> \A r \in Puts : ~InFlight(r)]
<1>1. /\ put' = [put EXCEPT ![s] = q] /\ saving' = [saving EXCEPT ![t] = s]
      /\ put[s].st = "free"
      /\ UNCHANGED <<page, on, loading, reply, form, held, shown, cached, cache, store, stamp, touched, retired>>
  BY Zenon DEF Save, history
<1>2. put \in [Puts -> Request] /\ saving \in [Tabs -> Puts \cup {None}]
  BY Zenon DEF IndInv, Types, ServerTypes, ClientTypes
<1>3. q \in Request
  <2>1. form[t] \in [Keys -> Value] /\ held[t] \in SUBSET Keys
    BY Zenon DEF IndInv, Types, ClientTypes, Full
  <2>. QED  BY <2>1, Zenon DEF Request
<1>4. q.st = "writing" /\ q.tab = t /\ q.body = form[t] /\ q.all = held[t] /\ q.todo = held[t]
  OBVIOUS
<1>. HIDE DEF q
<1>5. put'[s] = q /\ \A r \in Puts \ {s} : put'[r] = put[r]
  BY <1>1, <1>2, Zenon
<1>6. ServerTypes'
  <2>1. put' \in [Puts -> Request]
    BY <1>1, <1>2, <1>3, Zenon
  <2>2. careful' \in BOOLEAN
    BY Zenon DEF Save, history, IndInv, Types, ServerTypes
  <2>. QED  BY <1>1, <2>1, <2>2, Zenon DEF IndInv, Types, ServerTypes
<1>7. ClientTypes'
  <2>1. saving' \in [Tabs -> Puts \cup {None}]
    BY <1>1, <1>2, Zenon
  <2>. QED  BY <1>1, <2>1, Zenon DEF IndInv, Types, ClientTypes
<1>8. ASSUME NEW u \in Tabs PROVE Waits(u)'
  <2>1. Waits(u)
    BY Zenon DEF IndInv, Linked
  <2>2. CASE u = t
    <3>1. saving'[u] = s
      BY <1>1, <1>2, <2>2, Zenon
    <3>. QED  BY <1>4, <1>5, <2>2, <3>1, Zenon DEF Waits
  <2>3. CASE u # t
    <3>1. saving'[u] = saving[u] /\ saving[u] \in Puts \cup {None}
      BY <1>1, <1>2, <2>3, Zenon
    <3>. QED  BY <1>1, <1>5, <2>1, <3>1, Zenon DEF Waits
  <2>. QED  BY <2>2, <2>3
<1>9. ASSUME NEW r \in Puts PROVE Sent(r)'
  <2>1. Sent(r)
    BY Zenon DEF IndInv, Linked
  <2>. QED  BY <1>4, <1>5, <2>1, Zenon DEF Sent
<1>10. ASSUME NEW k \in SettingKeys \ touched' PROVE Same(k)'
  <2>1. Same(k)
    BY <1>1, <1>10, Zenon DEF IndInv
  <2>2. ASSUME NEW r \in Puts, k \in put'[r].todo PROVE put'[r].body[k] = {0}
    <3>1. CASE r = s
      BY <1>4, <1>5, <2>1, <2>2, <3>1, Zenon DEF Same
    <3>2. CASE r # s
      BY <1>5, <2>1, <2>2, <3>2, Zenon DEF Same
    <3>. QED  BY <3>1, <3>2
  <2>. QED  BY <1>1, <2>1, <2>2, Zenon DEF Same
<1>11. ASSUME NEW r \in Puts PROVE Stored(r)'
  <2>1. Stored(r)
    BY Zenon DEF IndInv
  <2>2. CASE r = s
    BY <1>4, <1>5, <2>2, Zenon DEF Stored
  <2>3. CASE r # s
    BY <1>1, <1>5, <2>1, <2>3, Zenon DEF Stored
  <2>. QED  BY <2>2, <2>3
<1>12. ASSUME NEW u \in Tabs PROVE Screen(u)'
  BY <1>1, Zenon DEF Screen, IsSettings, IndInv
<1>. QED  BY <1>6, <1>7, <1>8, <1>9, <1>10, <1>11, <1>12, Zenon DEF IndInv, Types, Linked

(* Steps that leave the tabs alone.                                        *)
LEMMA ClientFrame == ASSUME IndInv, UNCHANGED client
                     PROVE  ClientTypes' /\ \A t \in Tabs : Screen(t)'
<1>1. ClientTypes'
  BY Zenon DEF IndInv, Types, ClientTypes, client
<1>2. ASSUME NEW t \in Tabs PROVE Screen(t)'
  BY Zenon DEF IndInv, Screen, IsSettings, client
<1>. QED  BY <1>1, <1>2

(* A write leaves the other requests' bodies alone and ends their calm; an *)
(* unedited setting is only overwritten by its own value.                  *)
LEMMA WrittenInv ==
  ASSUME IndInv, NEW s \in Puts, InFlight(s), NEW K \in SUBSET put[s].todo, Written(s, K),
         UNCHANGED <<client, stamp, touched, careful>>
  PROVE  IndInv'
<1>1. ClientTypes' /\ \A t \in Tabs : Screen(t)'
  BY ClientFrame
<1>2. ASSUME NEW r \in Puts PROVE put[r] \in Request
  BY Zenon DEF IndInv, Types, ServerTypes
<1>3. ASSUME NEW r \in Puts
      PROVE  /\ put'[r] \in Request
             /\ put'[r].st = put[r].st /\ put'[r].tab = put[r].tab
             /\ put'[r].body = put[r].body /\ put'[r].all = put[r].all
             /\ r = s => put'[r].todo = put[r].todo \ K
             /\ r # s => put'[r].todo = put[r].todo
             /\ r = s \/ put[r].st \notin {"writing", "ok"} => put'[r].calm = put[r].calm
             /\ r # s /\ put[r].st \in {"writing", "ok"} => put'[r].calm = FALSE
  <2>1. put[r] \in Request
    BY <1>2
  <2>2. put'[r] = IF r = s THEN [put[r] EXCEPT !.todo = @ \ K]
                  ELSE IF InFlight(r) \/ put[r].st = "ok" THEN [put[r] EXCEPT !.calm = FALSE]
                  ELSE put[r]
    BY Zenon DEF Written
  <2>3. CASE r = s
    <3>1. put'[r] = [put[r] EXCEPT !.todo = @ \ K]
      BY <2>2, <2>3, Zenon
    <3>2. put'[r] \in Request
      BY <2>1, <3>1, Zenon DEF Request
    <3>3. /\ put'[r].st = put[r].st /\ put'[r].tab = put[r].tab
          /\ put'[r].body = put[r].body /\ put'[r].all = put[r].all
          /\ put'[r].calm = put[r].calm /\ put'[r].todo = put[r].todo \ K
      BY <2>1, <3>1, SMT DEF Request
    <3>. QED  BY <2>3, <3>2, <3>3, Zenon
  <2>4. CASE r # s /\ put[r].st \in {"writing", "ok"}
    <3>1. put'[r] = [put[r] EXCEPT !.calm = FALSE]
      BY <2>2, <2>4, Zenon DEF InFlight
    <3>2. put'[r] \in Request
      BY <2>1, <3>1, Zenon DEF Request
    <3>3. /\ put'[r].st = put[r].st /\ put'[r].tab = put[r].tab
          /\ put'[r].body = put[r].body /\ put'[r].all = put[r].all
          /\ put'[r].calm = FALSE /\ put'[r].todo = put[r].todo
      BY <2>1, <3>1, SMT DEF Request
    <3>. QED  BY <2>4, <3>2, <3>3, Zenon
  <2>5. CASE r # s /\ put[r].st \notin {"writing", "ok"}
    <3>1. put'[r] = put[r]
      BY <2>2, <2>5, Zenon DEF InFlight
    <3>. QED  BY <2>1, <2>5, <3>1, Zenon
  <2>. QED  BY <2>3, <2>4, <2>5, Zenon
<1>4. \A k \in Keys : store'[k] = IF k \in K THEN put[s].body[k] ELSE store[k]
  BY Zenon DEF Written
<1>5. put[s].body \in Full /\ put[s].st = "writing" /\ put[s].todo \in SUBSET Keys
  BY <1>2, RequestFacts, Zenon DEF InFlight
<1>6. ServerTypes'
  <2>1. store' \in Full
    BY <1>5, Zenon DEF Written, Full, IndInv, Types, ServerTypes
  <2>2. put' \in [Puts -> Request]
    <3>1. put' = [r \in Puts |-> put'[r]]
      BY Zenon DEF Written
    <3>. QED  BY <1>3, <3>1, Zenon
  <2>3. retired' \in Full
    BY <2>1, Zenon DEF Written, Full, Value, IndInv, Types, ServerTypes
  <2>. QED  BY <2>1, <2>2, <2>3, Zenon DEF IndInv, Types, ServerTypes
<1>7. ASSUME NEW u \in Tabs PROVE Waits(u)'
  <2>1. Waits(u) /\ saving' = saving /\ saving[u] \in Puts \cup {None}
    BY Zenon DEF IndInv, Linked, Types, ClientTypes, client
  <2>. QED  BY <1>3, <2>1, Zenon DEF Waits
<1>8. ASSUME NEW r \in Puts PROVE Sent(r)'
  <2>1. Sent(r)
    BY Zenon DEF IndInv, Linked
  <2>. QED  BY <1>3, <2>1, Zenon DEF Sent
<1>9. ASSUME NEW k \in SettingKeys \ touched' PROVE Same(k)'
  <2>1. Same(k) /\ k \in Keys
    BY <1>9, KeyFacts, Zenon DEF IndInv
  <2>2. store'[k] = {0}
    BY <1>4, <2>1, Zenon DEF Same
  <2>3. ASSUME NEW r \in Puts, k \in put'[r].todo PROVE put'[r].body[k] = {0}
    <3>1. put'[r].body = put[r].body
      BY <1>3, Zenon
    <3>2. k \in put[r].todo
      <4>1. CASE r = s
        BY <1>3, <2>3, <4>1, Zenon
      <4>2. CASE r # s
        BY <1>3, <2>3, <4>2, Zenon
      <4>. QED  BY <4>1, <4>2
    <3>. QED  BY <2>1, <3>1, <3>2, Zenon DEF Same
  <2>. QED  BY <2>1, <2>2, <2>3, Zenon DEF Same, client
<1>10. ASSUME NEW r \in Puts PROVE Stored(r)'
  <2>1. Stored(r)
    BY Zenon DEF IndInv
  <2>2. CASE r = s
    <3>1. ASSUME put'[s].calm = TRUE, NEW k \in put'[s].all \ put'[s].todo
          PROVE  store'[k] = put'[s].body[k]
      <4>1. put[s].calm = TRUE /\ k \in put[s].all /\ k \notin put[s].todo \ K /\ put'[s].body = put[s].body
        BY <1>3, <3>1, Zenon
      <4>2. k \in Keys
        BY <1>2, <4>1, RequestFacts, Zenon
      <4>3. k \notin K => store[k] = put[s].body[k]
        BY <1>5, <2>1, <2>2, <4>1, Zenon DEF Stored
      <4>. QED  BY <1>4, <4>1, <4>2, <4>3, Zenon
    <3>2. put'[s].st = "writing"
      BY <1>3, <1>5
    <3>. QED  BY <2>2, <3>1, <3>2, Zenon DEF Stored
  <2>3. CASE r # s
    <3>1. put'[r].st = put[r].st /\ put'[r].todo = put[r].todo
      BY <1>3, <2>3, Zenon
    <3>2. put[r].st \in {"writing", "ok"} => put'[r].calm = FALSE
      BY <1>3, <2>3, Zenon
    <3>. QED  BY <2>1, <3>1, <3>2, Zenon DEF Stored
  <2>. QED  BY <2>2, <2>3
<1>. QED  BY <1>1, <1>6, <1>7, <1>8, <1>9, <1>10, Zenon DEF IndInv, Types, Linked

LEMMA WriteKeyInv == ASSUME IndInv, NEW s \in Puts, WriteKey(s) PROVE IndInv'
<1>1. PICK k \in put[s].todo : Written(s, {k})
  BY Zenon DEF WriteKey
<1>2. {k} \in SUBSET put[s].todo
  OBVIOUS
<1>. QED  BY <1>1, <1>2, WrittenInv, Zenon DEF WriteKey

LEMMA WriteRecordInv == ASSUME IndInv, NEW s \in Puts, WriteRecord(s) PROVE IndInv'
<1>1. put[s].todo \in SUBSET put[s].todo
  OBVIOUS
<1>. QED  BY <1>1, WrittenInv, Zenon DEF WriteRecord

(* A request ends at the server; success means nothing is left to write.   *)
LEMMA EndInv ==
  ASSUME IndInv, NEW s \in Puts, InFlight(s), NEW e \in {"ok", "failed"}, e = "ok" => put[s].todo = {},
         put' = [put EXCEPT ![s].st = e], UNCHANGED <<client, store, stamp, history>>
  PROVE  IndInv'
<1>1. ClientTypes' /\ \A t \in Tabs : Screen(t)'
  BY ClientFrame
<1>2. put \in [Puts -> Request]
  BY Zenon DEF IndInv, Types, ServerTypes
<1>3. ASSUME NEW r \in Puts
      PROVE  /\ put'[r] \in Request
             /\ put'[r].st = IF r = s THEN e ELSE put[r].st
             /\ put'[r].tab = put[r].tab /\ put'[r].calm = put[r].calm
             /\ put'[r].body = put[r].body /\ put'[r].all = put[r].all /\ put'[r].todo = put[r].todo
  <2>1. put[r] \in Request
    BY <1>2
  <2>2. put'[r] = IF r = s THEN [put[r] EXCEPT !.st = e] ELSE put[r]
    BY <1>2, Zenon
  <2>3. [put[r] EXCEPT !.st = e] \in Request
    BY <2>1, Zenon DEF Request
  <2>. QED  BY <2>1, <2>2, <2>3, SMT DEF Request
<1>4. put[s].st = "writing"
  BY DEF InFlight
<1>5. ServerTypes'
  <2>1. put' \in [Puts -> Request]
    <3>1. put' = [r \in Puts |-> put'[r]]
      BY <1>2, Zenon
    <3>. QED  BY <1>3, <3>1, Zenon
  <2>. QED  BY <2>1, Zenon DEF IndInv, Types, ServerTypes, history
<1>6. ASSUME NEW u \in Tabs PROVE Waits(u)'
  <2>1. Waits(u) /\ saving' = saving /\ saving[u] \in Puts \cup {None}
    BY Zenon DEF IndInv, Linked, Types, ClientTypes, client
  <2>2. e # "free"
    OBVIOUS
  <2>. QED  BY <1>3, <2>1, <2>2, Zenon DEF Waits
<1>7. ASSUME NEW r \in Puts PROVE Sent(r)'
  <2>1. Sent(r)
    BY Zenon DEF IndInv, Linked
  <2>. QED  BY <1>3, <1>4, <2>1, Zenon DEF Sent
<1>8. ASSUME NEW k \in SettingKeys \ touched' PROVE Same(k)'
  <2>1. Same(k)
    BY <1>8, Zenon DEF IndInv, history
  <2>. QED  BY <1>3, <2>1, Zenon DEF Same, client
<1>9. ASSUME NEW r \in Puts PROVE Stored(r)'
  <2>1. Stored(r)
    BY Zenon DEF IndInv
  <2>2. CASE r = s
    <3>1. put'[s].calm = put[s].calm /\ put'[s].body = put[s].body
          /\ put'[s].all = put[s].all /\ put'[s].todo = put[s].todo /\ put'[s].st = e
      BY <1>3, Zenon
    <3>2. put[s].st \in {"writing", "ok"}
      BY <1>4, Zenon
    <3>3. put[s].calm = TRUE => \A k \in put[s].all \ put[s].todo : store[k] = put[s].body[k]
      BY <2>1, <2>2, <3>2, Zenon DEF Stored
    <3>4. store' = store /\ (e = "ok" => put[s].todo = {})
      OBVIOUS
    <3>. QED  BY <2>2, <3>1, <3>3, <3>4, Zenon DEF Stored
  <2>3. CASE r # s
    <3>1. put'[r].calm = put[r].calm /\ put'[r].body = put[r].body
          /\ put'[r].all = put[r].all /\ put'[r].todo = put[r].todo /\ put'[r].st = put[r].st
      BY <1>3, <2>3, Zenon
    <3>. QED  BY <2>1, <3>1, Zenon DEF Stored
  <2>. QED  BY <2>2, <2>3
<1>. QED  BY <1>1, <1>5, <1>6, <1>7, <1>8, <1>9, Zenon DEF IndInv, Types, Linked

LEMMA WritesEndInv == ASSUME IndInv, NEW s \in Puts, WritesEnd(s) PROVE IndInv'
  BY EndInv, Zenon DEF WritesEnd

LEMMA WriteFailsInv == ASSUME IndInv, NEW s \in Puts, WriteFails(s) PROVE IndInv'
  BY EndInv, Zenon DEF WriteFails

(* The tab that waited for the answer does not wait any more.              *)
LEMMA AnsweredInv == ASSUME IndInv, NEW s \in Puts, Answered(s) PROVE IndInv'
<1>. DEFINE t == put[s].tab
<1>1. /\ put' = [put EXCEPT ![s] = Free] /\ put[s].st # "free"
      /\ \/ saving[t] = s /\ AwayFrom(t)
         \/ /\ saving' = [saving EXCEPT ![t] = IF @ = s THEN None ELSE @]
            /\ UNCHANGED <<on, form, held, shown, loading, reply>>
      /\ UNCHANGED <<page, cached, cache, store, stamp, touched, retired, careful>>
  BY Zenon DEF Answered, history
<1>2. t \in Tabs
  BY <1>1, Zenon DEF IndInv, Linked, Sent
<1>. HIDE DEF t
<1>3. put \in [Puts -> Request] /\ saving \in [Tabs -> Puts \cup {None}]
  BY Zenon DEF IndInv, Types, ServerTypes, ClientTypes
<1>4. Free \in Request /\ Free.st = "free" /\ Free.todo = {}
  BY BlankFull, Zenon DEF Free, Request, Full
<1>5. put'[s] = Free /\ \A r \in Puts \ {s} : put'[r] = put[r]
  BY <1>1, <1>3, Zenon
<1>6. /\ ClientTypes'
      /\ \A k \in SettingKeys \ touched : \A u \in Tabs :
           /\ loading'[u] = "served" => reply'[u][k] = {0}
           /\ k \in held'[u] => form'[u][k] = {0}
      /\ \A u \in Tabs : Screen(u)'
  <2>1. CASE AwayFrom(t)
    BY <1>1, <1>2, <2>1, AwayClient, Zenon
  <2>2. CASE /\ saving' = [saving EXCEPT ![t] = IF @ = s THEN None ELSE @]
             /\ UNCHANGED <<on, form, held, shown, loading, reply>>
    <3>1. saving' \in [Tabs -> Puts \cup {None}]
      BY <1>3, <2>2, Zenon
    <3>2. ClientTypes'
      BY <1>1, <2>2, <3>1, Zenon DEF IndInv, Types, ClientTypes
    <3>3. ASSUME NEW u \in Tabs PROVE Screen(u)'
      BY <1>1, <2>2, Zenon DEF IndInv, Screen, IsSettings
    <3>4. ASSUME NEW k \in SettingKeys \ touched, NEW u \in Tabs
          PROVE  /\ loading'[u] = "served" => reply'[u][k] = {0}
                 /\ k \in held'[u] => form'[u][k] = {0}
      <4>1. Same(k)
        BY <3>4, Zenon DEF IndInv
      <4>. QED  BY <2>2, <4>1, Zenon DEF Same
    <3>. QED  BY <3>2, <3>3, <3>4, Zenon
  <2>. QED  BY <1>1, <2>1, <2>2
<1>7. ServerTypes'
  <2>1. put' \in [Puts -> Request]
    BY <1>1, <1>3, <1>4, Zenon
  <2>. QED  BY <1>1, <2>1, Zenon DEF IndInv, Types, ServerTypes
<1>8. ASSUME NEW u \in Tabs PROVE Waits(u)'
  <2>1. Waits(u) /\ saving[u] \in Puts \cup {None}
    BY <1>3, Zenon DEF IndInv, Linked
  <2>2. CASE u = t
    <3>1. saving'[u] = None \/ (saving'[u] = saving[u] /\ saving[u] # s)
      BY <1>1, <1>2, <1>3, <2>2, Zenon DEF AwayFrom
    <3>. QED  BY <1>5, <2>1, <3>1, Zenon DEF Waits
  <2>3. CASE u # t
    <3>1. saving'[u] = saving[u]
      BY <1>1, <1>2, <1>3, <2>3, Zenon DEF AwayFrom
    <3>2. saving[u] # s \/ s = None
      BY <2>1, <2>3, Zenon DEF Waits, t
    <3>. QED  BY <1>5, <2>1, <3>1, <3>2, Zenon DEF Waits
  <2>. QED  BY <2>2, <2>3
<1>9. ASSUME NEW r \in Puts PROVE Sent(r)'
  <2>1. Sent(r)
    BY Zenon DEF IndInv, Linked
  <2>. QED  BY <1>4, <1>5, <2>1, Zenon DEF Sent
<1>10. ASSUME NEW k \in SettingKeys \ touched' PROVE Same(k)'
  <2>1. Same(k) /\ k \notin touched
    BY <1>1, <1>10, Zenon DEF IndInv
  <2>2. ASSUME NEW r \in Puts, k \in put'[r].todo PROVE put'[r].body[k] = {0}
    <3>1. put'[r] = put[r]
      BY <1>4, <1>5, <2>2, Zenon
    <3>. QED  BY <2>1, <2>2, <3>1, Zenon DEF Same
  <2>. QED  BY <1>1, <1>6, <1>10, <2>1, <2>2, Zenon DEF Same
<1>11. ASSUME NEW r \in Puts PROVE Stored(r)'
  <2>1. Stored(r)
    BY Zenon DEF IndInv
  <2>2. CASE r = s
    BY <1>4, <1>5, <2>2, Zenon DEF Stored
  <2>3. CASE r # s
    BY <1>1, <1>5, <2>1, <2>3, Zenon DEF Stored
  <2>. QED  BY <2>2, <2>3
<1>. QED  BY <1>6, <1>7, <1>8, <1>9, <1>10, <1>11, Zenon DEF IndInv, Types, Linked

-----------------------------------------------------------------------------
LEMMA NextInv == IndInv /\ [Next]_vars => IndInv'
<1> SUFFICES ASSUME IndInv, [Next]_vars PROVE IndInv'
  OBVIOUS
<1>1. ASSUME NEW t \in Tabs, TabStep(t) PROVE IndInv'
  <2>1. ASSUME NEW k \in Keys, Edit(t, k) PROVE IndInv'
    BY <2>1, EditInv
  <2>2. ASSUME NEW s \in Puts, Save(t, s) PROVE IndInv'
    BY <2>2, SaveInv
  <2>. QED  BY <1>1, <2>1, <2>2, OpenInv, LeaveInv, ReloadInv, FocusInv, ServeLoadInv, SettingsArriveInv,
               RecordArrivesInv, LoadFailsInv, Zenon DEF TabStep
<1>2. ASSUME NEW s \in Puts, ServerStep(s) PROVE IndInv'
  BY <1>2, WriteKeyInv, WriteRecordInv, WritesEndInv, WriteFailsInv, AnsweredInv, Zenon DEF ServerStep
<1>3. CASE UNCHANGED vars
  <2>1. /\ page' = page /\ on' = on /\ loading' = loading /\ reply' = reply /\ form' = form /\ held' = held
        /\ shown' = shown /\ cached' = cached /\ cache' = cache /\ saving' = saving /\ put' = put
        /\ store' = store /\ stamp' = stamp /\ touched' = touched /\ retired' = retired /\ careful' = careful
    BY <1>3, Zenon DEF vars, client, server, history
  <2>2. Types'
    BY <2>1, Zenon DEF IndInv, Types, ClientTypes, ServerTypes
  <2>3. Linked'
    BY <2>1, Zenon DEF IndInv, Linked, Waits, Sent
  <2>4. \A k \in SettingKeys \ touched' : Same(k)'
    BY <2>1, Zenon DEF IndInv, Same
  <2>5. \A s \in Puts : Stored(s)'
    BY <2>1, Zenon DEF IndInv, Stored
  <2>6. \A t \in Tabs : Screen(t)'
    BY <2>1, Zenon DEF IndInv, Screen, IsSettings
  <2>. QED  BY <2>2, <2>3, <2>4, <2>5, <2>6, Zenon DEF IndInv
<1>. QED  BY <1>1, <1>2, <1>3, Zenon DEF Next

(* The inductive invariant holds in every reachable state.                 *)
THEOREM IndInvHolds == Spec => []IndInv
  BY InitInv, NextInv, PTL DEF Spec

(* Types, and a page waits for a request that it sent.                     *)
THEOREM TypeCorrect == Spec => []TypeOK
<1>1. IndInv => TypeOK
  BY Zenon DEF IndInv, Types, ClientTypes, ServerTypes, Linked, Waits, Sent, TypeOK, Full
<1>. QED  BY <1>1, IndInvHolds, PTL

(* A setting that nobody edits keeps its value: the upserts of             *)
(* UpdateSettings send back what GetSettings answered, or nothing.         *)
THEOREM UntouchedKept == Spec => []UntouchedSettings
<1>1. IndInv => UntouchedSettings
  BY Zenon DEF IndInv, UntouchedSettings, Same
<1>. QED  BY <1>1, IndInvHolds, PTL

(* sms-auth shows the numbers that it would save.                          *)
THEOREM NumbersShown == Spec => []WhitelistShown
<1>1. IndInv => WhitelistShown
  BY Zenon DEF IndInv, WhitelistShown, Screen
<1>. QED  BY <1>1, IndInvHolds, PTL

(* What was saved with success, and that nobody wrote across, is stored.   *)
THEOREM SuccessIsStored == Spec => []SavedMeansStored
<1>1. IndInv => SavedMeansStored
  <2> SUFFICES ASSUME IndInv, NEW s \in Puts, put[s].st = "ok", put[s].calm, NEW k \in put[s].all
               PROVE  store[k] = put[s].body[k]
    BY Zenon DEF SavedMeansStored
  <2>1. put[s].calm = TRUE
    <3>1. put[s] \in Request
      BY Zenon DEF IndInv, Types, ServerTypes
    <3>. QED  BY <3>1, RequestFacts, Zenon
  <2>. QED  BY <2>1, Zenon DEF IndInv, Stored
<1>. QED  BY <1>1, IndInvHolds, PTL

-----------------------------------------------------------------------------
(* NothingComesBack.  No value holds a stamp that is still to be made.     *)
Past == 0..stamp

PastTab(t) == /\ shown[t] \subseteq Past
              /\ \A k \in Keys : reply[t][k] \subseteq Past /\ form[t][k] \subseteq Past /\ cache[t][k] \subseteq Past
PastPut(s) == \A k \in Keys : put[s].body[k] \subseteq Past
PastStore == \A k \in Keys : store[k] \subseteq Past /\ retired[k] \subseteq Past

(* Nothing is left to write of a free request; something is, of one that   *)
(* failed.                                                                 *)
Ended(s) == /\ put[s].st = "free" => put[s].todo = {}
            /\ put[s].st = "failed" => put[s].todo # {}

(* Only sms-auth shows numbers.                                            *)
Bare(t) == "whitelist" \notin page[t].fields => shown[t] = {}

PastInv == /\ PastStore
           /\ \A t \in Tabs : PastTab(t) /\ Bare(t)
           /\ \A s \in Puts : PastPut(s) /\ Ended(s)

LEMMA PastInit == Init => PastInv
<1> SUFFICES ASSUME Init PROVE PastInv
  OBVIOUS
<1>1. 0 \in Past
  BY SMT DEF Init, Past
<1>2. PastStore
  BY <1>1, Zenon DEF Init, PastStore
<1>3. ASSUME NEW t \in Tabs PROVE PastTab(t) /\ Bare(t)
  BY BlankFull, Zenon DEF Init, PastTab, Bare
<1>4. ASSUME NEW s \in Puts PROVE PastPut(s) /\ Ended(s)
  <2>1. put[s] = Free
    BY Zenon DEF Init
  <2>2. Free.body = Blank /\ Free.st = "free" /\ Free.todo = {}
    BY Zenon DEF Free
  <2>. QED  BY <2>1, <2>2, BlankFull, Zenon DEF PastPut, Ended
<1>. QED  BY <1>2, <1>3, <1>4, Zenon DEF PastInv

(* What a step of a tab leaves alone.                                      *)
Keeps(u) == /\ on'[u] = on[u] /\ loading'[u] = loading[u] /\ reply'[u] = reply[u] /\ form'[u] = form[u]
            /\ held'[u] = held[u] /\ shown'[u] = shown[u] /\ saving'[u] = saving[u] /\ cache'[u] = cache[u] /\ cached'[u] = cached[u]

LEMMA OthersKeep ==
  ASSUME IndInv, NEW t \in Tabs, TabStep(t)
  PROVE  page' = page /\ \A u \in Tabs \ {t} : Keeps(u)
<1>. USE DEF Keeps, IndInv, Types, ClientTypes
<1>1. CASE Open(t) \/ Leave(t) \/ Reload(t) \/ Focus(t)
  BY <1>1, Zenon DEF Open, Leave, AwayFrom, Reload, Focus
<1>2. CASE ServeLoad(t) \/ SettingsArrive(t) \/ LoadFails(t)
  BY <1>2, Zenon DEF ServeLoad, SettingsArrive, LoadFails
<1>3. CASE RecordArrives(t)
  BY <1>3, Zenon DEF RecordArrives
<1>4. ASSUME NEW k \in Keys, Edit(t, k) PROVE page' = page /\ \A u \in Tabs \ {t} : Keeps(u)
  <2>1. PICK v \in EditsOf(t, k) :
          /\ form' = [form EXCEPT ![t][k] = v]
          /\ shown' = [shown EXCEPT ![t] = IF k = "whitelist" THEN v ELSE @]
    BY <1>4, Zenon DEF Edit
  <2>2. ASSUME NEW u \in Tabs \ {t} PROVE form'[u] = form[u] /\ shown'[u] = shown[u]
    BY <2>1, Zenon
  <2>. QED  BY <1>4, <2>2, Zenon DEF Edit
<1>5. ASSUME NEW s \in Puts, Save(t, s) PROVE page' = page /\ \A u \in Tabs \ {t} : Keeps(u)
  BY <1>5, Zenon DEF Save
<1>. QED  BY <1>1, <1>2, <1>3, <1>4, <1>5, Zenon DEF TabStep

(* Every stamp in a step comes from somewhere it was already, or is new.   *)
LEMMA PastTabStep ==
  ASSUME IndInv, PastInv, NEW t \in Tabs, stamp' = stamp, TabStep(t),
         \A k \in Keys : ~Edit(t, k)
  PROVE  PastTab(t)' /\ Bare(t)'
<1>. USE DEF IndInv, Types, ClientTypes
<1>1. PastTab(t) /\ Bare(t) /\ PastStore /\ Past' = Past /\ page' = page
  BY OthersKeep, Zenon DEF PastInv, Past
<1>2. CASE Open(t)
  <2>1. /\ shown'[t] = {} /\ reply'[t] = reply[t] /\ cache'[t] = cache[t]
        /\ form'[t] = cache[t] \/ form'[t] = Blank
    BY <1>2, Zenon DEF Open
  <2>. QED  BY <1>1, <2>1, BlankFull, Zenon DEF PastTab, Bare
<1>3. CASE Leave(t)
  <2>1. /\ shown'[t] = {} /\ cache'[t] = cache[t] /\ form'[t] = Blank
        /\ reply'[t] = reply[t] \/ reply'[t] = Blank
    BY <1>3, Zenon DEF Leave, AwayFrom
  <2>. QED  BY <1>1, <2>1, BlankFull, Zenon DEF PastTab, Bare
<1>4. CASE Reload(t) \/ Focus(t) \/ \E s \in Puts : Save(t, s)
  <2>1. UNCHANGED <<shown, reply, form, cache>>
    BY <1>4, Zenon DEF Reload, Focus, Save
  <2>. QED  BY <1>1, <2>1, Zenon DEF PastTab, Bare
<1>5. CASE ServeLoad(t)
  <2>1. reply'[t] = store /\ UNCHANGED <<shown, form, cache>>
    BY <1>5, Zenon DEF ServeLoad
  <2>. QED  BY <1>1, <2>1, Zenon DEF PastTab, PastStore, Bare
<1>6. CASE LoadFails(t)
  <2>1. reply'[t] = Blank /\ UNCHANGED <<shown, form, cache>>
    BY <1>6, Zenon DEF LoadFails
  <2>. QED  BY <1>1, <2>1, BlankFull, Zenon DEF PastTab, Bare
<1>7. CASE SettingsArrive(t)
  <2>1. PICK got \in Answers :
          /\ form'[t] = Answer(t, got) /\ reply'[t] = Blank /\ cache' = cache
          /\ shown'[t] = shown[t] \/ ("whitelist" \in page[t].fields /\ shown'[t] = Answer(t, got)["whitelist"])
    BY <1>7, Zenon DEF SettingsArrive
  <2>2. \A k \in Keys : Answer(t, got)[k] \in {reply[t][k], {}}
    BY AnswerRead, Zenon
  <2>3. \A k \in Keys : Answer(t, got)[k] \subseteq Past
    BY <1>1, <2>2, Zenon DEF PastTab
  <2>. QED  BY <1>1, <2>1, <2>3, BlankFull, KeyFacts, Zenon DEF PastTab, Bare
<1>8. CASE RecordArrives(t)
  <2>1. /\ form'[t] = form[t] \/ form'[t] = Filled(t)
        /\ reply'[t] = Blank /\ cache'[t] = reply[t] /\ shown' = shown
    BY <1>8, Zenon DEF RecordArrives
  <2>2. ASSUME NEW k \in Keys PROVE Filled(t)[k] = reply[t][k] \/ Filled(t)[k] = form[t][k]
    BY Zenon DEF Filled
  <2>. QED  BY <1>1, <2>1, <2>2, BlankFull, Zenon DEF PastTab, Bare
<1>. QED  BY <1>2, <1>3, <1>4, <1>5, <1>6, <1>7, <1>8, Zenon DEF TabStep

(* What an edit leaves on the screen and in the form.                      *)
LEMMA EditFacts ==
  ASSUME IndInv, NEW t \in Tabs, NEW k \in Keys, Edit(t, k)
  PROVE  \E v \in EditsOf(t, k) :
           /\ form'[t] \in Full /\ form'[t][k] = v /\ \A j \in Keys \ {k} : form'[t][j] = form[t][j]
           /\ k = "whitelist" => shown'[t] = v
           /\ k # "whitelist" => shown'[t] = shown[t]
           /\ \A x \in v : x \in OnScreen(t, k) \/ x = stamp + 1
<1>1. PICK v \in EditsOf(t, k) :
        /\ form' = [form EXCEPT ![t][k] = v]
        /\ shown' = [shown EXCEPT ![t] = IF k = "whitelist" THEN v ELSE @]
  BY Zenon DEF Edit
<1>2. form[t] \in Full /\ form \in [Tabs -> Full] /\ shown \in [Tabs -> Value] /\ v \in Value
  BY EditFull, Zenon DEF Edit, IndInv, Types, ClientTypes
<1>3. form'[t] = [form[t] EXCEPT ![k] = v]
  BY <1>1, <1>2, Zenon
<1>4. form'[t] \in Full /\ form'[t][k] = v /\ \A j \in Keys \ {k} : form'[t][j] = form[t][j]
  BY <1>2, <1>3, Zenon DEF Full
<1>5. (k = "whitelist" => shown'[t] = v) /\ (k # "whitelist" => shown'[t] = shown[t])
  BY <1>1, <1>2, Zenon
<1>6. \A x \in v : x \in OnScreen(t, k) \/ x = stamp + 1
  <2>1. CASE v = OnScreen(t, k) \cup {stamp + 1} \/ v = {stamp + 1}
    BY <2>1, SMT
  <2>2. CASE v \in {OnScreen(t, k) \ {y} : y \in OnScreen(t, k)}
    <3>1. PICK y \in OnScreen(t, k) : v = OnScreen(t, k) \ {y}
      BY <2>2, Zenon
    <3>. QED  BY <3>1, Zenon
  <2>3. v \in IF k \in ListKeys
              THEN {OnScreen(t, k) \cup {stamp + 1}} \cup {OnScreen(t, k) \ {y} : y \in OnScreen(t, k)}
              ELSE {{stamp + 1}}
    BY Zenon DEF EditsOf
  <2>. QED  BY <2>1, <2>2, <2>3, Zenon
<1>. QED  BY <1>1, <1>4, <1>5, <1>6, Zenon

(* A stamp is new: it is in none of the values, and in the past from then. *)
LEMMA NewStamp == ASSUME IndInv, stamp' = stamp + 1
                  PROVE  Past \subseteq Past' /\ stamp + 1 \in Past' /\ stamp + 1 \notin Past
<1>1. stamp \in Nat
  BY FormAssumption, SMT DEF IndInv, Types, ServerTypes, Stamp
<1>. QED  BY <1>1, SMT DEF Past

LEMMA PastEdit ==
  ASSUME IndInv, PastInv, NEW t \in Tabs, NEW k \in Keys, Edit(t, k)
  PROVE  PastInv'
<1>1. /\ Past \subseteq Past' /\ stamp + 1 \in Past'
      /\ page' = page /\ UNCHANGED <<reply, cache, put, store, retired>>
  BY NewStamp, Zenon DEF Edit, server
<1>2. PICK v \in EditsOf(t, k) :
           /\ form'[t][k] = v /\ \A j \in Keys \ {k} : form'[t][j] = form[t][j]
           /\ k = "whitelist" => shown'[t] = v
           /\ k # "whitelist" => shown'[t] = shown[t]
           /\ \A x \in v : x \in OnScreen(t, k) \/ x = stamp + 1
  BY EditFacts, Zenon
<1>3. \A u \in Tabs \ {t} : Keeps(u)
  BY OthersKeep, Zenon DEF TabStep
<1>4. PastTab(t) /\ Bare(t)
  BY Zenon DEF PastInv
<1>5. v \subseteq Past'
  BY <1>1, <1>2, <1>4, Zenon DEF PastTab, OnScreen
<1>6. PastTab(t)'
  <2>1. ASSUME NEW j \in Keys PROVE form'[t][j] \subseteq Past'
    BY <1>1, <1>2, <1>4, <1>5, Zenon DEF PastTab
  <2>2. shown'[t] \subseteq Past'
    BY <1>1, <1>2, <1>4, <1>5, Zenon DEF PastTab
  <2>. QED  BY <1>1, <1>4, <2>1, <2>2, Zenon DEF PastTab
<1>7. Bare(t)'
  <2>1. k \in page[t].fields
    BY Zenon DEF Edit
  <2>. QED  BY <1>1, <1>2, <1>4, <2>1, Zenon DEF Bare
<1>8. ASSUME NEW u \in Tabs \ {t} PROVE PastTab(u)' /\ Bare(u)'
  BY <1>1, <1>3, Zenon DEF PastInv, PastTab, Bare, Keeps
<1>9. PastStore' /\ \A s \in Puts : PastPut(s)' /\ Ended(s)'
  BY <1>1, Zenon DEF PastInv, PastStore, PastPut, Ended
<1>. QED  BY <1>6, <1>7, <1>8, <1>9, Zenon DEF PastInv

LEMMA PastSave ==
  ASSUME IndInv, PastInv, NEW t \in Tabs, NEW s \in Puts, Save(t, s)
  PROVE  \A r \in Puts : PastPut(r)' /\ Ended(r)'
<1>. DEFINE q == [st |-> "writing", tab |-> t, body |-> form[t], all |-> held[t],
                  todo |-> held[t], calm |-> \A r \in Puts : ~InFlight(r)]
<1>1. put' = [put EXCEPT ![s] = q] /\ put \in [Puts -> Request] /\ stamp' = stamp
  BY Zenon DEF Save, IndInv, Types, ServerTypes
<1>2. q.st = "writing" /\ q.body = form[t]
  OBVIOUS
<1>. HIDE DEF q
<1>3. put'[s] = q /\ \A r \in Puts \ {s} : put'[r] = put[r]
  BY <1>1, Zenon
<1>4. PastTab(t) /\ Past' = Past
  BY <1>1, Zenon DEF PastInv, Past
<1>5. PastPut(s)' /\ Ended(s)'
  BY <1>2, <1>3, <1>4, Zenon DEF PastTab, PastPut, Ended
<1>6. ASSUME NEW r \in Puts \ {s} PROVE PastPut(r)' /\ Ended(r)'
  BY <1>3, <1>4, Zenon DEF PastInv, PastPut, Ended
<1>. QED  BY <1>5, <1>6, Zenon

(* What a write does to the requests, to the database and to what left it. *)
LEMMA WrittenFacts ==
  ASSUME IndInv, NEW s \in Puts, NEW K \in SUBSET put[s].todo, Written(s, K)
  PROVE  /\ \A r \in Puts : put'[r].st = put[r].st /\ put'[r].tab = put[r].tab /\ put'[r].body = put[r].body
         /\ put'[s].todo = put[s].todo \ K /\ \A r \in Puts \ {s} : put'[r].todo = put[r].todo
         /\ K \subseteq Keys
         /\ \A k \in Keys : /\ k \in K => store'[k] = put[s].body[k]
                            /\ k \notin K => store'[k] = store[k]
         /\ \A k \in Keys : \A x \in retired'[k] : x \in retired[k] \/ (x \in store[k] /\ x \notin store'[k])
<1>1. ASSUME NEW r \in Puts
      PROVE  /\ put'[r].st = put[r].st /\ put'[r].tab = put[r].tab /\ put'[r].body = put[r].body
             /\ r = s => put'[r].todo = put[r].todo \ K
             /\ r # s => put'[r].todo = put[r].todo
  <2>1. put[r] \in Request
    BY Zenon DEF IndInv, Types, ServerTypes
  <2>2. \/ r = s /\ put'[r] = [put[r] EXCEPT !.todo = @ \ K]
        \/ r # s /\ (put'[r] = [put[r] EXCEPT !.calm = FALSE] \/ put'[r] = put[r])
    BY Zenon DEF Written
  <2>. QED  BY <2>1, <2>2, SMT DEF Request
<1>2. K \subseteq Keys
  <2>1. put[s] \in Request
    BY Zenon DEF IndInv, Types, ServerTypes
  <2>. QED  BY <2>1, RequestFacts, Zenon
<1>3. ASSUME NEW k \in Keys PROVE store'[k] = IF k \in K THEN put[s].body[k] ELSE store[k]
  BY Zenon DEF Written
<1>4. ASSUME NEW k \in Keys, NEW x \in retired'[k]
      PROVE  x \in retired[k] \/ (x \in store[k] /\ x \notin store'[k])
  <2>1. CASE retired' = retired
    BY <1>4, <2>1, Zenon
  <2>2. CASE retired' = [j \in Keys |-> retired[j] \cup (store[j] \ store'[j])]
    <3>1. retired'[k] = retired[k] \cup (store[k] \ store'[k])
      BY <2>2, Zenon
    <3>. QED  BY <1>4, <3>1, Zenon
  <2>. QED  BY <2>1, <2>2, Zenon DEF Written
<1>. QED  BY <1>1, <1>2, <1>3, <1>4, Zenon

LEMMA PastServer ==
  ASSUME IndInv, PastInv, NEW s \in Puts, ServerStep(s)
  PROVE  PastStore' /\ \A r \in Puts : PastPut(r)' /\ Ended(r)'
<1>1. Past' = Past /\ PastStore /\ \A r \in Puts : PastPut(r) /\ Ended(r)
  BY Zenon DEF PastInv, Past, ServerStep, WriteKey, WriteRecord, WritesEnd, WriteFails, Answered
<1>2. ASSUME NEW K \in SUBSET put[s].todo, Written(s, K), InFlight(s)
      PROVE  PastStore' /\ \A r \in Puts : PastPut(r)' /\ Ended(r)'
  <2>1. PastStore'
    <3>1. ASSUME NEW k \in Keys PROVE store'[k] \subseteq Past'
      <4>1. \A j \in Keys : (j \in K => store'[j] = put[s].body[j]) /\ (j \notin K => store'[j] = store[j])
        BY <1>2, WrittenFacts, Zenon
      <4>2. store'[k] = put[s].body[k] \/ store'[k] = store[k]
        BY <4>1, Zenon
      <4>. QED  BY <1>1, <4>2, Zenon DEF PastStore, PastPut
    <3>2. ASSUME NEW k \in Keys PROVE retired'[k] \subseteq Past'
      BY <1>1, <1>2, <3>2, WrittenFacts, Zenon DEF PastStore
    <3>. QED  BY <3>1, <3>2 DEF PastStore
  <2>2. ASSUME NEW r \in Puts PROVE PastPut(r)' /\ Ended(r)'
    <3>1. put'[r].st = put[r].st /\ put'[r].body = put[r].body
      BY <1>2, WrittenFacts, Zenon
    <3>2. r # s => put'[r].todo = put[r].todo
      <4>1. \A w \in Puts \ {s} : put'[w].todo = put[w].todo
        BY <1>2, WrittenFacts, Zenon
      <4>. QED  BY <4>1, Zenon
    <3>. QED  BY <1>1, <1>2, <3>1, <3>2, Zenon DEF PastPut, Ended, InFlight
  <2>. QED  BY <2>1, <2>2
<1>3. CASE WriteKey(s) \/ WriteRecord(s)
  <2>1. PICK K \in SUBSET put[s].todo : Written(s, K) /\ InFlight(s)
    <3>1. CASE WriteKey(s)
      <4>1. PICK k \in put[s].todo : Written(s, {k})
        BY <3>1, Zenon DEF WriteKey
      <4>2. {k} \in SUBSET put[s].todo
        OBVIOUS
      <4>. QED  BY <3>1, <4>1, <4>2, Zenon DEF WriteKey
    <3>2. CASE WriteRecord(s)
      <4>1. put[s].todo \in SUBSET put[s].todo
        OBVIOUS
      <4>. QED  BY <3>2, <4>1, Zenon DEF WriteRecord
    <3>. QED  BY <1>3, <3>1, <3>2
  <2>. QED  BY <1>2, <2>1
<1>4. ASSUME NEW e \in {"ok", "failed"}, e = "failed" => put[s].todo # {},
             put' = [put EXCEPT ![s].st = e], UNCHANGED <<store, retired>>
      PROVE  PastStore' /\ \A r \in Puts : PastPut(r)' /\ Ended(r)'
  <2>1. ASSUME NEW r \in Puts
        PROVE  /\ put'[r].body = put[r].body /\ put'[r].todo = put[r].todo
               /\ r # s => put'[r].st = put[r].st
               /\ put'[s].st = e
    <3>1. put \in [Puts -> Request]
      BY Zenon DEF IndInv, Types, ServerTypes
    <3>2. (r = s => put'[r] = [put[r] EXCEPT !.st = e]) /\ (r # s => put'[r] = put[r])
          /\ put'[s] = [put[s] EXCEPT !.st = e]
      BY <1>4, <3>1, Zenon
    <3>3. put[r] \in Request /\ put[s] \in Request
      BY <3>1
    <3>. QED  BY <3>2, <3>3, SMT DEF Request
  <2>. QED  BY <1>1, <1>4, <2>1, Zenon DEF PastStore, PastPut, Ended
<1>5. CASE WritesEnd(s) \/ WriteFails(s)
  BY <1>4, <1>5, Zenon DEF WritesEnd, WriteFails, history
<1>6. CASE Answered(s)
  <2>1. put \in [Puts -> Request] /\ put' = [put EXCEPT ![s] = Free] /\ UNCHANGED <<store, retired>>
    BY <1>6, Zenon DEF IndInv, Types, ServerTypes, Answered, history
  <2>2. Free.body = Blank /\ Free.st = "free" /\ Free.todo = {}
    BY Zenon DEF Free
  <2>3. put'[s] = Free /\ \A r \in Puts \ {s} : put'[r] = put[r]
    BY <2>1, Zenon
  <2>. QED  BY <1>1, <2>1, <2>2, <2>3, BlankFull, Zenon DEF PastStore, PastPut, Ended
<1>. QED  BY <1>3, <1>5, <1>6, Zenon DEF ServerStep

(* A tab under a step of the server: it goes on, or leaves for its list.   *)
LEMMA AnswerFacts ==
  ASSUME IndInv, NEW s \in Puts, Answered(s)
  PROVE  /\ put[s].tab \in Tabs
         /\ put'[s] = Free /\ \A r \in Puts \ {s} : put'[r] = put[r]
         /\ UNCHANGED <<page, cached, cache, store, stamp, retired, careful>>
         /\ \A u \in Tabs \ {put[s].tab} : Keeps(u)
         /\ \/ /\ saving[put[s].tab] = s /\ ~IsSettings(put[s].tab) /\ put[s].st = "ok"
               /\ AwayFrom(put[s].tab)
            \/ /\ ~(saving[put[s].tab] = s /\ ~IsSettings(put[s].tab) /\ put[s].st = "ok")
               /\ UNCHANGED <<on, form, held, shown, loading, reply>>
               /\ saving' = [saving EXCEPT ![put[s].tab] = IF @ = s THEN None ELSE @]
<1>. DEFINE t == put[s].tab
<1>1. /\ put' = [put EXCEPT ![s] = Free] /\ put[s].st # "free"
      /\ UNCHANGED <<page, cached, cache, store, stamp, retired, careful>>
  BY Zenon DEF Answered, history
<1>2. \/ /\ saving[t] = s /\ ~IsSettings(t) /\ put[s].st = "ok"
         /\ AwayFrom(t)
      \/ /\ ~(saving[t] = s /\ ~IsSettings(t) /\ put[s].st = "ok")
         /\ UNCHANGED <<on, form, held, shown, loading, reply>>
         /\ saving' = [saving EXCEPT ![t] = IF @ = s THEN None ELSE @]
  BY Zenon DEF Answered
<1>3. t \in Tabs
  BY <1>1, Zenon DEF IndInv, Linked, Sent
<1>4. put'[s] = Free /\ \A r \in Puts \ {s} : put'[r] = put[r]
  BY <1>1, Zenon DEF IndInv, Types, ServerTypes
<1>. HIDE DEF t
<1>5. ASSUME NEW u \in Tabs \ {t} PROVE Keeps(u)
  BY <1>1, <1>2, <1>3, Zenon DEF Keeps, AwayFrom, IndInv, Types, ClientTypes
<1>. QED  BY <1>1, <1>2, <1>3, <1>4, <1>5, Zenon DEF t

LEMMA PastStep == IndInv /\ PastInv /\ [Next]_vars => PastInv'
<1> SUFFICES ASSUME IndInv, PastInv, [Next]_vars PROVE PastInv'
  OBVIOUS
<1>1. ASSUME NEW t \in Tabs, TabStep(t), \A k \in Keys : ~Edit(t, k) PROVE PastInv'
  <2>1. stamp' = stamp /\ UNCHANGED <<store, retired>>
    BY <1>1, Zenon DEF TabStep, Open, Leave, Reload, Focus, ServeLoad, SettingsArrive, RecordArrives, LoadFails, Save,
       server, history
  <2>2. Past' = Past /\ page' = page /\ \A u \in Tabs \ {t} : Keeps(u)
    BY <1>1, <2>1, OthersKeep, Zenon DEF Past
  <2>3. ASSUME NEW u \in Tabs \ {t} PROVE PastTab(u)' /\ Bare(u)'
    BY <2>2, Zenon DEF PastInv, PastTab, Bare, Keeps
  <2>4. PastTab(t)' /\ Bare(t)'
    BY <1>1, <2>1, PastTabStep
  <2>5. \A r \in Puts : PastPut(r)' /\ Ended(r)'
    <3>1. CASE put' = put
      BY <2>2, <3>1, Zenon DEF PastInv, PastPut, Ended
    <3>2. CASE \E s \in Puts : Save(t, s)
      BY <3>2, PastSave
    <3>. QED  BY <1>1, <3>1, <3>2, Zenon DEF TabStep, Open, Leave, Reload, Focus, ServeLoad, SettingsArrive,
                 RecordArrives, LoadFails, server
  <2>6. PastStore'
    BY <2>1, <2>2, Zenon DEF PastInv, PastStore
  <2>. QED  BY <2>3, <2>4, <2>5, <2>6, Zenon DEF PastInv
<1>2. ASSUME NEW s \in Puts, ServerStep(s) PROVE PastInv'
  <2>1. ASSUME NEW u \in Tabs PROVE PastTab(u)' /\ Bare(u)'
    <3>1. PastTab(u) /\ Bare(u)
      BY Zenon DEF PastInv
    <3>2. CASE UNCHANGED <<client, stamp>>
      BY <3>1, <3>2, Zenon DEF PastTab, Bare, client, Past
    <3>3. CASE Answered(s)
      <4>1. page' = page /\ cache' = cache /\ Past' = Past
        BY <3>3, AnswerFacts, Zenon DEF Past
      <4>2. CASE u # put[s].tab
        <5>1. \A w \in Tabs \ {put[s].tab} : Keeps(w)
          BY <3>3, AnswerFacts, Zenon
        <5>2. Keeps(u)
          BY <4>2, <5>1, Zenon
        <5>. QED  BY <3>1, <4>1, <5>2, Zenon DEF PastTab, Bare, Keeps
      <4>3. CASE UNCHANGED <<form, shown, reply>>
        BY <3>1, <4>1, <4>3, Zenon DEF PastTab, Bare
      <4>4. CASE u = put[s].tab /\ AwayFrom(u)
        <5>1. shown'[u] = {} /\ form'[u] = Blank /\ (reply'[u] = reply[u] \/ reply'[u] = Blank)
          BY <4>4, Zenon DEF AwayFrom, IndInv, Types, ClientTypes
        <5>. QED  BY <3>1, <4>1, <5>1, BlankFull, Zenon DEF PastTab, Bare
      <4>5. AwayFrom(put[s].tab) \/ UNCHANGED <<form, shown, reply>>
        BY <3>3, AnswerFacts, Zenon
      <4>. QED  BY <4>2, <4>3, <4>4, <4>5, Zenon
    <3>. QED  BY <1>2, <3>2, <3>3, Zenon DEF ServerStep, WriteKey, WriteRecord, WritesEnd, WriteFails
  <2>. QED  BY <1>2, <2>1, PastServer, Zenon DEF PastInv
<1>3. CASE UNCHANGED vars
  BY <1>3, Zenon DEF vars, client, server, history, PastInv, PastStore, PastTab, PastPut, Ended, Bare, Past
<1>. QED  BY <1>1, <1>2, <1>3, PastEdit, Zenon DEF Next

-----------------------------------------------------------------------------
(* Careful users take turns: one tab is on its page, one request is on its *)
(* way, and the tab that is on waits for it.                               *)
OneTab == \A t, u \in Tabs : on[t] /\ on[u] => t = u
OnePut == \A r, s \in Puts : put[r].st # "free" /\ put[s].st # "free" => r = s
OneWaits == \A s \in Puts, t \in Tabs : put[s].st # "free" /\ on[t] => saving[t] = s

(* A settings page does not load while it saves.                           *)
Quiet(t) == on[t] /\ IsSettings(t) /\ saving[t] # None => loading[t] = "no"

Turns == OneTab /\ OnePut /\ OneWaits /\ \A t \in Tabs : Quiet(t)
TurnsInv == careful => Turns

LEMMA TurnsInit == Init => TurnsInv
<1> SUFFICES ASSUME Init PROVE Turns
  BY DEF TurnsInv
<1>1. (\A t \in Tabs : ~on[t]) /\ \A s \in Puts : put[s].st = "free"
  BY Zenon DEF Init, Free
<1>. QED  BY <1>1, Zenon DEF Turns, OneTab, OnePut, OneWaits, Quiet

(* Who has not been careful once, is not from then on.                     *)
LEMMA CarefulBefore == ASSUME IndInv, [Next]_vars, careful' PROVE careful
<1>1. CASE UNCHANGED vars
  BY <1>1, Zenon DEF vars, history
<1>2. ASSUME NEW t \in Tabs, TabStep(t) PROVE careful
  <2>1. careful' = careful \/ Open(t) \/ Reload(t)
    BY <1>2, Zenon DEF TabStep, Leave, Focus, ServeLoad, SettingsArrive, RecordArrives, LoadFails, Edit, Save, history
  <2>2. CASE Open(t)
    <3>1. careful' = (careful /\ CarefulOpen(t))
      BY <2>2, Zenon DEF Open
    <3>. QED  BY <3>1, Zenon
  <2>3. CASE Reload(t)
    <3>1. careful' = (careful /\ CarefulReload(t))
      BY <2>3, Zenon DEF Reload
    <3>. QED  BY <3>1, Zenon
  <2>. QED  BY <2>1, <2>2, <2>3, Zenon
<1>3. ASSUME NEW s \in Puts, ServerStep(s) PROVE careful
  BY <1>3, Zenon DEF ServerStep, WriteKey, WriteRecord, WritesEnd, WriteFails, Answered, history
<1>. QED  BY <1>1, <1>2, <1>3, Zenon DEF Next

LEMMA OpenFacts ==
  ASSUME IndInv, NEW t \in Tabs, Open(t), careful'
  PROVE  /\ \A u \in Tabs \ {t} : ~on[u]
         /\ \A s \in Puts : put[s].st = "free"
         /\ loading[t] = "no" /\ saving'[t] = None
         /\ cached[t] => cache[t] = store
<1>1. CarefulOpen(t)
  <2>1. careful' = (careful /\ CarefulOpen(t))
    BY Zenon DEF Open
  <2>. QED  BY <2>1, Zenon
<1>2. Waits(t) /\ saving[t] \in Puts \cup {None} /\ saving' = saving
  BY Zenon DEF Open, IndInv, Linked, Types, ClientTypes
<1>. QED  BY <1>1, <1>2, Zenon DEF CarefulOpen, Waits

LEMMA SaveFacts ==
  ASSUME IndInv, TurnsInv, NEW t \in Tabs, NEW s \in Puts, Save(t, s), careful
  PROVE  /\ on[t] /\ saving[t] = None /\ (IsSettings(t) => loading[t] = "no")
         /\ \A u \in Tabs \ {t} : ~on[u]
         /\ \A r \in Puts : put[r].st = "free"
         /\ put'[s].st = "writing" /\ put'[s].tab = t /\ put'[s].body = form[t] /\ put'[s].todo = held[t]
         /\ \A r \in Puts \ {s} : put'[r] = put[r]
         /\ saving'[t] = s
         /\ UNCHANGED <<page, on, loading, reply, form, held, shown, store, retired>>
<1>. DEFINE q == [st |-> "writing", tab |-> t, body |-> form[t], all |-> held[t],
                  todo |-> held[t], calm |-> \A r \in Puts : ~InFlight(r)]
<1>1. /\ put' = [put EXCEPT ![s] = q] /\ saving' = [saving EXCEPT ![t] = s]
      /\ UNCHANGED <<page, on, loading, reply, form, held, shown, store, retired>>
      /\ on[t] /\ saving[t] = None /\ (IsSettings(t) => loading[t] = "no")
  BY Zenon DEF Save, CanSave, history
<1>2. put \in [Puts -> Request] /\ saving \in [Tabs -> Puts \cup {None}]
  BY Zenon DEF IndInv, Types, ServerTypes, ClientTypes
<1>3. q.st = "writing" /\ q.tab = t /\ q.body = form[t] /\ q.todo = held[t]
  OBVIOUS
<1>. HIDE DEF q
<1>4. put'[s] = q /\ (\A r \in Puts \ {s} : put'[r] = put[r]) /\ saving'[t] = s
  BY <1>1, <1>2, Zenon
<1>5. \A u \in Tabs \ {t} : ~on[u]
  BY <1>1, Zenon DEF TurnsInv, Turns, OneTab
<1>6. ASSUME NEW r \in Puts PROVE put[r].st = "free"
  BY <1>1, FormAssumption, Zenon DEF TurnsInv, Turns, OneWaits
<1>. QED  BY <1>1, <1>3, <1>4, <1>5, <1>6, Zenon

LEMMA TurnsTab == ASSUME IndInv, TurnsInv, careful, careful', NEW t \in Tabs, TabStep(t)
                  PROVE  Turns'
<1>. USE DEF Turns
<1>1. page' = page /\ \A u \in Tabs \ {t} : Keeps(u)
  BY OthersKeep
<1>2. OneTab /\ OnePut /\ OneWaits /\ (\A u \in Tabs : Quiet(u))
  BY Zenon DEF TurnsInv
<1>3. ASSUME NEW u \in Tabs \ {t} PROVE Quiet(u)'
  BY <1>1, <1>2, Zenon DEF Quiet, Keeps, IsSettings
<1>4. CASE Open(t)
  <2>1. put' = put
    BY <1>4, Zenon DEF Open, server
  <2>. QED  BY <1>1, <1>3, <1>4, <2>1, OpenFacts, Zenon DEF OneTab, OnePut, OneWaits, Quiet, Keeps
<1>5. ASSUME NEW s \in Puts, Save(t, s) PROVE Turns'
  <2>1. /\ on' = on /\ (\A u \in Tabs \ {t} : ~on[u]) /\ saving'[t] = s
        /\ (\A r \in Puts : put[r].st = "free") /\ \A r \in Puts \ {s} : put'[r] = put[r]
    BY <1>5, SaveFacts, Zenon
  <2>2. OneTab'
    BY <2>1, Zenon DEF OneTab
  <2>3. \A r \in Puts \ {s} : put'[r].st = "free"
    BY <2>1, Zenon
  <2>4. OnePut' /\ OneWaits'
    BY <2>1, <2>3, Zenon DEF OnePut, OneWaits
  <2>5. Quiet(t)'
    BY <1>5, SaveFacts, Zenon DEF Quiet, IsSettings
  <2>. QED  BY <1>3, <2>2, <2>4, <2>5, Zenon
<1>6. CASE /\ put' = put /\ (on'[t] => on[t] /\ saving'[t] = saving[t]) /\ Quiet(t)'
  BY <1>1, <1>2, <1>3, <1>6, Zenon DEF OneTab, OnePut, OneWaits, Keeps
<1>7. CASE Leave(t)
  <2>1. put' = put /\ ~on'[t]
    BY <1>7, Zenon DEF Leave, AwayFrom, server, IndInv, Types, ClientTypes
  <2>. QED  BY <1>6, <2>1, Zenon DEF Quiet
<1>8. CASE Reload(t)
  <2>1. put' = put /\ on' = on /\ saving' = saving
    BY <1>8, Zenon DEF Reload, server
  <2>2. careful' = (careful /\ CarefulReload(t))
    BY <1>8, Zenon DEF Reload
  <2>3. saving[t] = None
    BY <2>2, Zenon DEF CarefulReload
  <2>. QED  BY <1>6, <2>1, <2>3, Zenon DEF Quiet
<1>9. CASE Focus(t)
  <2>1. put' = put /\ on' = on /\ saving' = saving /\ ~IsSettings(t)
    BY <1>9, Zenon DEF Focus, server
  <2>. QED  BY <1>1, <1>6, <2>1, Zenon DEF Quiet, IsSettings
<1>10. CASE ServeLoad(t)
  <2>1. put' = put /\ on' = on /\ saving' = saving /\ loading[t] = "asked"
    BY <1>10, Zenon DEF ServeLoad, server
  <2>. QED  BY <1>1, <1>2, <1>6, <2>1, Zenon DEF Quiet, IsSettings
<1>11. CASE SettingsArrive(t) \/ RecordArrives(t) \/ LoadFails(t)
  <2>1. put' = put /\ on' = on /\ saving' = saving /\ loading'[t] = "no"
    BY <1>11, Zenon DEF SettingsArrive, RecordArrives, LoadFails, server, IndInv, Types, ClientTypes
  <2>. QED  BY <1>6, <2>1, Zenon DEF Quiet
<1>12. CASE \E k \in Keys : Edit(t, k)
  <2>1. put' = put /\ on' = on /\ saving' = saving /\ loading' = loading
    BY <1>12, Zenon DEF Edit, server
  <2>. QED  BY <1>1, <1>2, <1>6, <2>1, Zenon DEF Quiet, IsSettings
<1>. QED  BY <1>4, <1>5, <1>7, <1>8, <1>9, <1>10, <1>11, <1>12, Zenon DEF TabStep

(* Statuses under the steps of a request before it is answered.            *)
LEMMA WriteStep ==
  ASSUME IndInv, NEW s \in Puts, WriteKey(s) \/ WriteRecord(s)
  PROVE  \E K \in SUBSET put[s].todo : /\ Written(s, K) /\ InFlight(s) /\ UNCHANGED <<client, stamp, touched, careful>>
                                       /\ ~IsSettings(put[s].tab) => K = put[s].todo
<1>1. CASE WriteKey(s)
  <2>1. PICK k \in put[s].todo : Written(s, {k})
    BY <1>1, Zenon DEF WriteKey
  <2>2. {k} \in SUBSET put[s].todo
    OBVIOUS
  <2>. QED  BY <1>1, <2>1, <2>2, Zenon DEF WriteKey
<1>2. CASE WriteRecord(s)
  <2>1. put[s].todo \in SUBSET put[s].todo
    OBVIOUS
  <2>. QED  BY <1>2, <2>1, Zenon DEF WriteRecord
<1>. QED  BY <1>1, <1>2

LEMMA EndStep ==
  ASSUME IndInv, NEW s \in Puts, WritesEnd(s) \/ WriteFails(s)
  PROVE  /\ UNCHANGED <<client, store, stamp, retired, careful>> /\ put[s].st = "writing"
         /\ put'[s].st \in {"ok", "failed"} /\ \A r \in Puts \ {s} : put'[r].st = put[r].st
         /\ \A r \in Puts : put'[r].tab = put[r].tab /\ put'[r].body = put[r].body /\ put'[r].todo = put[r].todo
<1>1. PICK e \in {"ok", "failed"} : put' = [put EXCEPT ![s].st = e]
  BY Zenon DEF WritesEnd, WriteFails
<1>2. put \in [Puts -> Request] /\ put[s] \in Request
  BY Zenon DEF IndInv, Types, ServerTypes
<1>3. put'[s] = [put[s] EXCEPT !.st = e] /\ \A r \in Puts \ {s} : put'[r] = put[r]
  BY <1>1, <1>2, Zenon
<1>4. /\ put'[s].st = e /\ put'[s].tab = put[s].tab /\ put'[s].body = put[s].body /\ put'[s].todo = put[s].todo
  BY <1>2, <1>3, SMT DEF Request
<1>. QED  BY <1>3, <1>4, Zenon DEF WritesEnd, WriteFails, history, InFlight

LEMMA TurnsServer == ASSUME IndInv, TurnsInv, careful, NEW s \in Puts, ServerStep(s)
                     PROVE  Turns'
<1>. USE DEF Turns
<1>1. OneTab /\ OnePut /\ OneWaits /\ (\A u \in Tabs : Quiet(u))
  BY Zenon DEF TurnsInv
<1>2. CASE UNCHANGED client /\ \A r \in Puts : put'[r].st # "free" => put[r].st # "free"
  BY <1>1, <1>2, Zenon DEF client, OneTab, OnePut, OneWaits, Quiet, IsSettings
<1>3. CASE WriteKey(s) \/ WriteRecord(s)
  <2>1. PICK K \in SUBSET put[s].todo : Written(s, K) /\ UNCHANGED client
    BY <1>3, WriteStep, Zenon
  <2>2. \A r \in Puts : put'[r].st = put[r].st
    BY <2>1, WrittenFacts, Zenon
  <2>. QED  BY <1>2, <2>1, <2>2, Zenon
<1>4. CASE WritesEnd(s) \/ WriteFails(s)
  <2>1. UNCHANGED client /\ put[s].st = "writing" /\ \A r \in Puts \ {s} : put'[r].st = put[r].st
    BY <1>4, EndStep, Zenon
  <2>. QED  BY <1>2, <2>1, Zenon
<1>5. CASE Answered(s)
  <2>. DEFINE t == put[s].tab
  <2>1. /\ t \in Tabs /\ put'[s] = Free /\ (\A r \in Puts \ {s} : put'[r] = put[r])
        /\ page' = page /\ \A u \in Tabs \ {t} : Keeps(u)
    BY <1>5, AnswerFacts, Zenon
  <2>2. /\ on'[t] => on[t]
        /\ on'[t] => loading'[t] = loading[t] /\ saving'[t] \in {None, saving[t]}
    <3>1. CASE AwayFrom(t)
      BY <2>1, <3>1, Zenon DEF AwayFrom, IndInv, Types, ClientTypes
    <3>2. CASE UNCHANGED <<on, loading>> /\ saving' = [saving EXCEPT ![t] = IF @ = s THEN None ELSE @]
      BY <2>1, <3>2, Zenon DEF IndInv, Types, ClientTypes
    <3>. QED  BY <1>5, <3>1, <3>2, AnswerFacts, Zenon
  <2>. HIDE DEF t
  <2>3. ASSUME NEW r \in Puts PROVE put'[r].st = "free"
    <3>1. put[s].st # "free" /\ Free.st = "free"
      BY <1>5, Zenon DEF Answered, Free
    <3>. QED  BY <1>1, <2>1, <3>1, Zenon DEF OnePut
  <2>4. OneTab'
    BY <1>1, <2>1, <2>2, Zenon DEF OneTab, Keeps
  <2>5. ASSUME NEW u \in Tabs PROVE Quiet(u)'
    BY <1>1, <2>1, <2>2, Zenon DEF Quiet, Keeps, IsSettings
  <2>. QED  BY <2>3, <2>4, <2>5, Zenon DEF OnePut, OneWaits
<1>. QED  BY <1>3, <1>4, <1>5, Zenon DEF ServerStep

LEMMA TurnsStep == IndInv /\ TurnsInv /\ [Next]_vars => TurnsInv'
<1> SUFFICES ASSUME IndInv, TurnsInv, [Next]_vars, careful' PROVE Turns'
  BY DEF TurnsInv
<1>1. careful
  BY CarefulBefore
<1>2. CASE UNCHANGED vars
  BY <1>1, <1>2, Zenon DEF TurnsInv, Turns, OneTab, OnePut, OneWaits, Quiet, IsSettings, vars, client, server
<1>. QED  BY <1>1, <1>2, TurnsTab, TurnsServer, Zenon DEF Next

-----------------------------------------------------------------------------
(* A stamp that a tab could send for a key, now or after an edit.          *)
Has(t, k, x) == x \in form[t][k] \/ (k = "whitelist" /\ x \in shown[t])

(* The editor whose record is written waits for the answer only to leave.  *)
AboutToLeave(t) == ~IsSettings(t) /\ saving[t] # None /\ put[saving[t]].todo = {}

(* A tab holds nothing that was replaced, and awaits what is stored.       *)
Current(t) == on[t] /\ ~AboutToLeave(t) =>
                /\ \A k \in Keys : \A x \in retired[k] : ~Has(t, k, x)
                /\ loading[t] = "served" => reply[t] = store

(* A number on the screen that is stored, or about to be, is in the list   *)
(* that a save would send.                                                 *)
Listed(t) == on[t] /\ "whitelist" \in held[t] => \A x \in shown[t] :
               x \in store["whitelist"] \/ (\E s \in Puts : "whitelist" \in put[s].todo /\ x \in put[s].body["whitelist"])
                 => x \in form[t]["whitelist"]

(* What a request is about to take out of the database, the tab has not    *)
(* got any more.                                                           *)
Dropped(t) == on[t] /\ IsSettings(t) =>
                \A s \in Puts : \A k \in put[s].todo : \A x \in store[k] : Has(t, k, x) => x \in put[s].body[k]

(* A request brings nothing back, and nothing has come back.               *)
Unretired(s) == \A k \in put[s].todo : \A x \in retired[k] : x \notin put[s].body[k]
StoreCurrent == \A k \in Keys : \A x \in retired[k] : x \notin store[k]

CurrentAll == /\ StoreCurrent /\ \A s \in Puts : Unretired(s)
              /\ \A t \in Tabs : Current(t) /\ Listed(t) /\ Dropped(t)
CurrentInv == careful => CurrentAll

LEMMA CurrentInit == Init => CurrentInv
<1> SUFFICES ASSUME Init PROVE CurrentAll
  BY DEF CurrentInv
<1>1. (\A t \in Tabs : ~on[t]) /\ (\A k \in Keys : retired[k] = {}) /\ \A s \in Puts : put[s].todo = {}
  BY Zenon DEF Init, Free
<1>. QED  BY <1>1, Zenon DEF CurrentAll, StoreCurrent, Unretired, Current, Listed, Dropped

(* What holds before a step of careful users.                              *)
Before == IndInv /\ PastInv /\ Turns /\ CurrentAll /\ careful

LEMMA CurrentKept ==
  ASSUME Before, NEW u \in Tabs, UNCHANGED <<page, put, store, retired>>, Keeps(u)
  PROVE  Current(u)' /\ Listed(u)' /\ Dropped(u)'
<1>1. Current(u) /\ Listed(u) /\ Dropped(u)
  BY Zenon DEF Before, CurrentAll
<1>2. AboutToLeave(u)' <=> AboutToLeave(u)
  BY Zenon DEF AboutToLeave, IsSettings, Keeps
<1>3. \A k, x : Has(u, k, x)' <=> Has(u, k, x)
  BY Zenon DEF Has, Keeps
<1>4. Current(u)'
  BY <1>1, <1>2, <1>3, Zenon DEF Current, Keeps
<1>5. Listed(u)'
  BY <1>1, Zenon DEF Listed, Keeps
<1>6. Dropped(u)'
  BY <1>1, <1>3, Zenon DEF Dropped, IsSettings, Keeps
<1>. QED  BY <1>4, <1>5, <1>6

(* Nobody saves: only the tab that moves has to be looked at.              *)
LEMMA CurrentFrame ==
  ASSUME Before, NEW t \in Tabs, TabStep(t), UNCHANGED <<put, store, retired>>,
         Current(t)' /\ Listed(t)' /\ Dropped(t)'
  PROVE  CurrentAll'
<1>1. page' = page /\ \A u \in Tabs \ {t} : Keeps(u)
  BY OthersKeep, Zenon DEF Before
<1>2. ASSUME NEW u \in Tabs PROVE Current(u)' /\ Listed(u)' /\ Dropped(u)'
  <2>1. CASE u = t
    BY <2>1
  <2>2. CASE u # t
    BY <1>1, <2>2, CurrentKept, Zenon
  <2>. QED  BY <2>1, <2>2
<1>3. StoreCurrent' /\ \A s \in Puts : Unretired(s)'
  BY Zenon DEF Before, CurrentAll, StoreCurrent, Unretired
<1>. QED  BY <1>2, <1>3, Zenon DEF CurrentAll

LEMMA NothingLeft == ASSUME Before, NEW s \in Puts, put[s].st = "free" PROVE put[s].todo = {}
  BY Zenon DEF Before, PastInv, Ended

LEMMA OpenCurrent == ASSUME Before, NEW t \in Tabs, Open(t), careful' PROVE CurrentAll'
<1>1. /\ UNCHANGED <<put, store, retired, page>>
      /\ shown'[t] = {} /\ (form'[t] = Blank \/ (cached[t] /\ form'[t] = cache[t]))
      /\ loading[t] = "no" => loading'[t] # "served"
  BY Zenon DEF Open, server, Before, IndInv, Types, ClientTypes
<1>2. /\ \A s \in Puts : put[s].st = "free"
      /\ loading[t] = "no" /\ (cached[t] => cache[t] = store)
  BY OpenFacts, Zenon DEF Before
<1>3. \A s \in Puts : put[s].todo = {}
  BY <1>2, NothingLeft, Zenon
<1>4. ASSUME NEW k \in Keys, NEW x \in retired[k] PROVE ~Has(t, k, x)'
  BY <1>1, <1>2, BlankFull, Zenon DEF Has, Before, CurrentAll, StoreCurrent
<1>5. Current(t)'
  BY <1>1, <1>2, <1>4, Zenon DEF Current
<1>6. Listed(t)' /\ Dropped(t)'
  BY <1>1, <1>3, Zenon DEF Listed, Dropped
<1>. QED  BY <1>1, <1>5, <1>6, CurrentFrame, Zenon DEF TabStep

LEMMA LeaveCurrent == ASSUME Before, NEW t \in Tabs, Leave(t) PROVE CurrentAll'
<1>1. UNCHANGED <<put, store, retired>> /\ ~on'[t]
  BY Zenon DEF Leave, AwayFrom, server, history, Before, IndInv, Types, ClientTypes
<1>2. Current(t)' /\ Listed(t)' /\ Dropped(t)'
  BY <1>1, Zenon DEF Current, Listed, Dropped
<1>. QED  BY <1>1, <1>2, CurrentFrame, Zenon DEF TabStep

(* The form stays: an answer is served, or none is awaited.                *)
LEMMA SameForm ==
  ASSUME Before, NEW t \in Tabs, TabStep(t), UNCHANGED <<put, store, retired, page, on, form, held, shown, saving>>,
         loading'[t] = "served" => reply'[t] = store
  PROVE  CurrentAll'
<1>1. Current(t) /\ Listed(t) /\ Dropped(t)
  BY Zenon DEF Before, CurrentAll
<1>2. Current(t)'
  BY <1>1, Zenon DEF Current, AboutToLeave, IsSettings, Has
<1>3. Listed(t)' /\ Dropped(t)'
  BY <1>1, Zenon DEF Listed, Dropped, IsSettings, Has
<1>. QED  BY <1>2, <1>3, CurrentFrame, Zenon

LEMMA LoadCurrent ==
  ASSUME Before, NEW t \in Tabs, Reload(t) \/ Focus(t) \/ ServeLoad(t) \/ LoadFails(t) PROVE CurrentAll'
<1>1. UNCHANGED <<put, store, retired, page, on, form, held, shown, saving>>
  BY Zenon DEF Reload, Focus, ServeLoad, LoadFails, server, history
<1>2. loading'[t] = "served" => reply'[t] = store
  BY Zenon DEF Reload, Focus, ServeLoad, LoadFails, Before, IndInv, Types, ClientTypes
<1>. QED  BY <1>1, <1>2, SameForm, Zenon DEF TabStep

LEMMA SettingsCurrent == ASSUME Before, NEW t \in Tabs, SettingsArrive(t) PROVE CurrentAll'
<1>1. /\ UNCHANGED <<put, store, retired, page, on, saving>> /\ IsSettings(t) /\ loading[t] = "served"
      /\ loading'[t] = "no"
  BY Zenon DEF SettingsArrive, server, history, Before, IndInv, Types, ClientTypes
<1>a. PICK got \in Answers :
           /\ form'[t] = Answer(t, got) /\ held'[t] = got
           /\ shown'[t] = shown[t] \/ shown'[t] = Answer(t, got)["whitelist"]
  BY Zenon DEF SettingsArrive, Before, IndInv, Types, ClientTypes
<1>b. /\ \A k \in Keys : Answer(t, got)[k] \in {reply[t][k], {}}
      /\ \A k \in got : Answer(t, got)[k] = reply[t][k]
  BY AnswerRead, Zenon DEF Before, IndInv
<1>2. Current(t) /\ (on[t] => reply[t] = store)
  BY <1>1, Zenon DEF Before, CurrentAll, Current, AboutToLeave
<1>3. ASSUME on[t], NEW s \in Puts PROVE put[s].todo = {}
  <2>1. saving[t] = None
    BY <1>1, <1>3, Zenon DEF Before, Turns, Quiet
  <2>2. put[s].st = "free"
    BY <1>3, <2>1, FormAssumption, Zenon DEF Before, Turns, OneWaits
  <2>. QED  BY <2>2, NothingLeft
<1>4. ASSUME on[t], NEW k \in Keys, NEW x \in retired[k] PROVE ~Has(t, k, x)'
  <2>1. ~Has(t, k, x) /\ x \notin store[k]
    BY <1>1, <1>2, <1>4, Zenon DEF Before, CurrentAll, StoreCurrent, Current, AboutToLeave
  <2>2. x \notin Answer(t, got)[k] /\ (k = "whitelist" => x \notin Answer(t, got)["whitelist"])
    BY <1>2, <1>b, <1>4, <2>1, Zenon
  <2>. QED  BY <1>a, <1>4, <2>1, <2>2, Zenon DEF Has
<1>5. Current(t)'
  BY <1>1, <1>4, Zenon DEF Current
<1>6. Listed(t)'
  <2>1. "whitelist" \in got /\ on[t] => form'[t]["whitelist"] = store["whitelist"]
    BY <1>a, <1>b, <1>2, Zenon
  <2>. QED  BY <1>1, <1>a, <1>3, <2>1, Zenon DEF Listed
<1>7. Dropped(t)'
  BY <1>1, <1>3, Zenon DEF Dropped
<1>. QED  BY <1>1, <1>5, <1>6, <1>7, CurrentFrame, Zenon DEF TabStep

LEMMA RecordCurrent == ASSUME Before, NEW t \in Tabs, RecordArrives(t) PROVE CurrentAll'
<1>1. /\ UNCHANGED <<put, store, retired, page, on, shown, saving>> /\ ~IsSettings(t) /\ loading[t] = "served"
      /\ form'[t] = form[t] \/ form'[t] = Filled(t)
      /\ loading'[t] = "no"
  BY Zenon DEF RecordArrives, server, history, Before, IndInv, Types, ClientTypes
<1>2. shown[t] = {}
  BY <1>1, PhonePage, Zenon DEF Before, PastInv, Bare, IndInv, Types, ClientTypes
<1>3. AboutToLeave(t)' <=> AboutToLeave(t)
  BY <1>1, Zenon DEF AboutToLeave, IsSettings
<1>4. ASSUME on[t], ~AboutToLeave(t), NEW k \in Keys, NEW x \in retired[k] PROVE ~Has(t, k, x)'
  <2>1. ~Has(t, k, x) /\ x \notin store[k] /\ reply[t] = store
    BY <1>1, <1>4, Zenon DEF Before, CurrentAll, StoreCurrent, Current
  <2>2. Filled(t)[k] = reply[t][k] \/ Filled(t)[k] = form[t][k]
    BY Zenon DEF Filled
  <2>. QED  BY <1>1, <2>1, <2>2, Zenon DEF Has
<1>5. Current(t)'
  BY <1>1, <1>3, <1>4, Zenon DEF Current
<1>6. Listed(t)' /\ Dropped(t)'
  BY <1>1, <1>2, Zenon DEF Listed, Dropped, IsSettings
<1>. QED  BY <1>1, <1>5, <1>6, CurrentFrame, Zenon DEF TabStep

(* An edit brings a stamp that nothing holds yet, and takes some away.     *)
LEMMA EditCurrent == ASSUME Before, NEW t \in Tabs, NEW k \in Keys, Edit(t, k) PROVE CurrentAll'
<1>1. UNCHANGED <<put, store, retired, page, on, saving, loading, reply>> /\ stamp' = stamp + 1
  BY Zenon DEF Edit, server
<1>2. PICK v \in EditsOf(t, k) :
           /\ form'[t][k] = v /\ \A j \in Keys \ {k} : form'[t][j] = form[t][j]
           /\ k = "whitelist" => shown'[t] = v
           /\ k # "whitelist" => shown'[t] = shown[t]
           /\ \A x \in v : x \in OnScreen(t, k) \/ x = stamp + 1
  BY EditFacts, Zenon DEF Before
<1>3. ASSUME NEW j \in Keys, NEW x, Has(t, j, x)' PROVE Has(t, j, x) \/ x = stamp + 1
  <2>1. CASE j = k
    <3>1. x \in v
      BY <1>2, <1>3, <2>1, Zenon DEF Has
    <3>. QED  BY <1>2, <2>1, <3>1, Zenon DEF Has, OnScreen
  <2>2. CASE j # k
    BY <1>2, <1>3, <2>2, Zenon DEF Has
  <2>. QED  BY <2>1, <2>2
<1>4. \A j \in Keys : stamp + 1 \notin retired[j] /\ stamp + 1 \notin store[j]
  <2>1. stamp + 1 \notin Past
    BY <1>1, NewStamp, Zenon DEF Before
  <2>. QED  BY <2>1, Zenon DEF Before, PastInv, PastStore
<1>5. Current(t) /\ Listed(t) /\ Dropped(t)
  BY Zenon DEF Before, CurrentAll
<1>6. Current(t)'
  <2>1. AboutToLeave(t)' <=> AboutToLeave(t)
    BY <1>1, Zenon DEF AboutToLeave, IsSettings
  <2>. QED  BY <1>1, <1>3, <1>4, <1>5, <2>1, Zenon DEF Current
<1>7. Listed(t)'
  <2>1. CASE k = "whitelist"
    BY <1>2, <2>1, Zenon DEF Listed
  <2>2. CASE k # "whitelist"
    <3>1. "whitelist" \in held'[t] => "whitelist" \in held[t]
      BY <2>2, Zenon DEF Edit, Before, IndInv, Types, ClientTypes
    <3>. QED  BY <1>1, <1>2, <1>5, <2>2, <3>1, KeyFacts, Zenon DEF Listed
  <2>. QED  BY <2>1, <2>2
<1>8. Dropped(t)'
  <2> SUFFICES ASSUME on[t], IsSettings(t), NEW s \in Puts, NEW j \in put[s].todo, NEW x \in store[j], Has(t, j, x)'
               PROVE  x \in put[s].body[j]
    BY <1>1, Zenon DEF Dropped, IsSettings
  <2>1. j \in Keys
    BY RequestFacts, Zenon DEF Before, IndInv, Types, ServerTypes
  <2>. QED  BY <1>3, <1>4, <1>5, <2>1, Zenon DEF Dropped
<1>. QED  BY <1>1, <1>6, <1>7, <1>8, CurrentFrame, Zenon DEF TabStep

(* What is sent is what the form holds, and nobody else has anything open. *)
LEMMA SaveCurrent == ASSUME Before, NEW t \in Tabs, NEW s \in Puts, Save(t, s) PROVE CurrentAll'
<1>1. /\ on[t] /\ saving[t] = None
      /\ \A u \in Tabs \ {t} : ~on[u]
      /\ \A r \in Puts : put[r].st = "free"
      /\ put'[s].body = form[t] /\ put'[s].todo = held[t]
      /\ \A r \in Puts \ {s} : put'[r] = put[r]
      /\ UNCHANGED <<page, on, loading, reply, form, held, shown, store, retired>>
  BY SaveFacts, Zenon DEF Before, TurnsInv
<1>2. \A r \in Puts \ {s} : put'[r].todo = {}
  BY <1>1, NothingLeft, Zenon
<1>3. held[t] \subseteq Keys
  BY Zenon DEF Before, IndInv, Types, ClientTypes
<1>4. Current(t) /\ Listed(t) /\ ~AboutToLeave(t) /\ StoreCurrent
  BY <1>1, Zenon DEF Before, CurrentAll, AboutToLeave
<1>5. Current(t)'
  BY <1>1, <1>4, Zenon DEF Current, Has
<1>6. Listed(t)'
  BY <1>1, <1>2, <1>4, Zenon DEF Listed
<1>7. Dropped(t)'
  BY <1>1, <1>2, <1>4, Zenon DEF Dropped, Listed, Has
<1>8. ASSUME NEW u \in Tabs \ {t} PROVE Current(u)' /\ Listed(u)' /\ Dropped(u)'
  BY <1>1, Zenon DEF Current, Listed, Dropped
<1>9. Unretired(s)'
  BY <1>1, <1>3, <1>4, Zenon DEF Unretired, Current, Has
<1>10. ASSUME NEW r \in Puts \ {s} PROVE Unretired(r)'
  BY <1>2, Zenon DEF Unretired
<1>11. StoreCurrent'
  BY <1>1, <1>4, Zenon DEF StoreCurrent
<1>. QED  BY <1>5, <1>6, <1>7, <1>8, <1>9, <1>10, <1>11, Zenon DEF CurrentAll

(* A write takes out of the database what its tab has not got any more; a  *)
(* record is written at once, and then its tab only leaves.                *)
LEMMA WriteCurrent ==
  ASSUME Before, NEW s \in Puts, NEW K \in SUBSET put[s].todo, Written(s, K), InFlight(s), UNCHANGED client,
         ~IsSettings(put[s].tab) => K = put[s].todo
  PROVE  CurrentAll'
<1>1. /\ \A r \in Puts : put'[r].body = put[r].body
      /\ put'[s].todo = put[s].todo \ K /\ \A r \in Puts \ {s} : put'[r].todo = put[r].todo
      /\ K \subseteq Keys
  BY WrittenFacts, Zenon DEF Before
<1>2. \A k \in Keys : (k \in K => store'[k] = put[s].body[k]) /\ (k \notin K => store'[k] = store[k])
  BY WrittenFacts, Zenon DEF Before
<1>3. \A k \in Keys : \A x \in retired'[k] : x \in retired[k] \/ (x \in store[k] /\ x \notin store'[k])
  BY WrittenFacts, Zenon DEF Before
<1>4. /\ UNCHANGED <<page, on, loading, reply, form, held, shown, saving>>
      /\ put[s].st # "free" /\ put[s].todo \subseteq Keys /\ s # None
  <2>1. put[s] \in Request
    BY Zenon DEF Before, IndInv, Types, ServerTypes
  <2>. QED  BY <2>1, RequestFacts, FormAssumption, Zenon DEF client, InFlight
<1>5. ASSUME NEW r \in Puts \ {s} PROVE put[r].todo = {} /\ put'[r].todo = {}
  <2>1. put[r].st = "free"
    BY <1>4, Zenon DEF Before, Turns, OnePut
  <2>. QED  BY <1>1, <2>1, NothingLeft, Zenon
<1>6. StoreCurrent /\ Unretired(s)
  BY Zenon DEF Before, CurrentAll
<1>7. StoreCurrent'
  <2> SUFFICES ASSUME NEW k \in Keys, NEW x \in retired'[k] PROVE x \notin store'[k]
    BY Zenon DEF StoreCurrent
  <2>1. CASE x \in store[k] /\ x \notin store'[k]
    BY <2>1
  <2>2. CASE x \in retired[k] /\ k \in K
    BY <1>2, <1>6, <2>2, Zenon DEF Unretired
  <2>3. CASE x \in retired[k] /\ k \notin K
    BY <1>2, <1>6, <2>3, Zenon DEF StoreCurrent
  <2>. QED  BY <1>3, <2>1, <2>2, <2>3, Zenon
<1>8. ASSUME NEW r \in Puts PROVE Unretired(r)'
  <2>1. CASE r # s
    BY <1>5, <2>1, Zenon DEF Unretired
  <2>2. ASSUME NEW k \in put[s].todo \ K, NEW x \in retired'[k] PROVE x \notin put[s].body[k]
    <3>1. k \in Keys /\ store'[k] = store[k]
      BY <1>2, <1>4, Zenon
    <3>2. x \in retired[k]
      BY <1>3, <3>1, Zenon
    <3>. QED  BY <1>6, <3>2, Zenon DEF Unretired
  <2>. QED  BY <1>1, <2>1, <2>2, Zenon DEF Unretired
<1>9. ASSUME NEW t \in Tabs PROVE Current(t)' /\ Listed(t)' /\ Dropped(t)'
  <2>1. CASE ~on[t]
    BY <1>4, <2>1, Zenon DEF Current, Listed, Dropped
  <2>2. CASE on[t]
    <3>1. saving[t] = s /\ put[s].tab = t /\ (IsSettings(t) => loading[t] = "no")
      BY <1>4, <2>2, Zenon DEF Before, Turns, OneWaits, Quiet, IndInv, Linked, Waits
    <3>2. Current(t) /\ Listed(t) /\ Dropped(t)
      BY Zenon DEF Before, CurrentAll
    <3>3. Current(t)'
      <4>1. CASE ~IsSettings(t)
        <5>1. put'[s].todo = {}
          BY <1>1, <3>1, <4>1, Zenon
        <5>2. AboutToLeave(t)'
          BY <1>4, <3>1, <4>1, <5>1, Zenon DEF AboutToLeave, IsSettings
        <5>. QED  BY <5>2 DEF Current
      <4>2. CASE IsSettings(t)
        <5>1. ASSUME NEW k \in Keys, NEW x \in retired'[k], Has(t, k, x) PROVE FALSE
          <6>1. x \in store[k] /\ x \notin store'[k]
            BY <1>3, <2>2, <3>2, <4>2, <5>1, Zenon DEF Current, AboutToLeave
          <6>2. k \in K /\ x \notin put[s].body[k]
            BY <1>2, <6>1, Zenon
          <6>. QED  BY <2>2, <3>2, <4>2, <5>1, <6>1, <6>2, Zenon DEF Dropped
        <5>2. loading'[t] = "no"
          BY <1>4, <3>1, <4>2
        <5>. QED  BY <1>4, <5>1, <5>2, Zenon DEF Current, Has
      <4>. QED  BY <4>1, <4>2
    <3>4. Listed(t)'
      <4> SUFFICES ASSUME "whitelist" \in held[t], NEW x \in shown[t],
                          \/ x \in store'["whitelist"]
                          \/ \E r \in Puts : "whitelist" \in put'[r].todo /\ x \in put'[r].body["whitelist"]
                   PROVE  x \in form[t]["whitelist"]
        BY <1>4, Zenon DEF Listed
      <4>1. CASE x \in store'["whitelist"]
        <5>1. x \in store["whitelist"] \/ ("whitelist" \in put[s].todo /\ x \in put[s].body["whitelist"])
          BY <1>2, <4>1, KeyFacts, Zenon
        <5>. QED  BY <2>2, <3>2, <5>1, Zenon DEF Listed
      <4>2. ASSUME NEW r \in Puts, "whitelist" \in put'[r].todo, x \in put'[r].body["whitelist"]
            PROVE  x \in form[t]["whitelist"]
        <5>1. "whitelist" \in put[r].todo
          BY <1>1, <1>5, <4>2, Zenon
        <5>. QED  BY <1>1, <2>2, <3>2, <4>2, <5>1, Zenon DEF Listed
      <4>. QED  BY <4>1, <4>2
    <3>5. Dropped(t)'
      <4> SUFFICES ASSUME IsSettings(t), NEW r \in Puts, NEW k \in put'[r].todo, NEW x \in store'[k], Has(t, k, x)
                   PROVE  x \in put[r].body[k]
        BY <1>1, <1>4, Zenon DEF Dropped, IsSettings, Has
      <4>1. r = s /\ k \in put[s].todo /\ k \notin K
        BY <1>1, <1>5, Zenon
      <4>2. x \in store[k]
        BY <1>2, <1>4, <4>1, Zenon
      <4>. QED  BY <2>2, <3>2, <4>1, <4>2, Zenon DEF Dropped
    <3>. QED  BY <3>3, <3>4, <3>5
  <2>. QED  BY <2>1, <2>2
<1>. QED  BY <1>7, <1>8, <1>9, Zenon DEF CurrentAll

LEMMA EndCurrent == ASSUME Before, NEW s \in Puts, WritesEnd(s) \/ WriteFails(s) PROVE CurrentAll'
<1>1. /\ UNCHANGED <<page, on, loading, reply, form, held, shown, saving, store, retired>>
      /\ \A r \in Puts : put'[r].body = put[r].body /\ put'[r].todo = put[r].todo
  BY EndStep, Zenon DEF Before, client
<1>2. ASSUME NEW t \in Tabs PROVE Current(t)' /\ Listed(t)' /\ Dropped(t)'
  <2>1. Current(t) /\ Listed(t) /\ Dropped(t) /\ saving[t] \in Puts \cup {None}
    BY Zenon DEF Before, CurrentAll, IndInv, Types, ClientTypes
  <2>2. AboutToLeave(t)' <=> AboutToLeave(t)
    BY <1>1, <2>1, Zenon DEF AboutToLeave, IsSettings
  <2>3. Current(t)'
    BY <1>1, <2>1, <2>2, Zenon DEF Current, Has
  <2>4. Listed(t)'
    BY <1>1, <2>1, Zenon DEF Listed
  <2>5. Dropped(t)'
    BY <1>1, <2>1, Zenon DEF Dropped, IsSettings, Has
  <2>. QED  BY <2>3, <2>4, <2>5
<1>3. StoreCurrent' /\ \A r \in Puts : Unretired(r)'
  BY <1>1, Zenon DEF Before, CurrentAll, StoreCurrent, Unretired
<1>. QED  BY <1>2, <1>3, Zenon DEF CurrentAll

(* What a tab shows, and what it waits for from a read, stays.             *)
Looks(u) == /\ on'[u] = on[u] /\ loading'[u] = loading[u] /\ reply'[u] = reply[u]
            /\ form'[u] = form[u] /\ held'[u] = held[u] /\ shown'[u] = shown[u]

(* The editor of a record that was written leaves; a tab that goes on has  *)
(* saved settings, or nothing of its record was written.                   *)
LEMMA AnsweredCurrent == ASSUME Before, NEW s \in Puts, Answered(s) PROVE CurrentAll'
<1>0. PICK t \in Tabs : put[s].tab = t
  BY AnswerFacts, Zenon DEF Before
<1>1. /\ put'[s] = Free /\ (\A r \in Puts \ {s} : put'[r] = put[r])
      /\ UNCHANGED <<page, store, retired>>
  BY AnswerFacts, Zenon DEF Before
<1>2. \A u \in Tabs \ {t} : Keeps(u)
  BY <1>0, AnswerFacts, Zenon DEF Before
<1>3. \/ AwayFrom(t)
      \/ /\ ~(saving[t] = s /\ ~IsSettings(t) /\ put[s].st = "ok")
         /\ UNCHANGED <<on, form, held, shown, loading, reply>>
         /\ saving' = [saving EXCEPT ![t] = IF @ = s THEN None ELSE @]
  BY <1>0, AnswerFacts, Zenon DEF Before
<1>4. put[s].st \in {"ok", "failed"}
  BY Zenon DEF Answered
<1>5. Free.todo = {}
  BY Zenon DEF Free
<1>6. \A r \in Puts : \A k \in put'[r].todo : r # s /\ put'[r] = put[r]
  BY <1>1, <1>5, Zenon
<1>7. StoreCurrent' /\ \A r \in Puts : Unretired(r)'
  BY <1>1, <1>6, Zenon DEF Before, CurrentAll, StoreCurrent, Unretired
<1>8. ASSUME NEW u \in Tabs PROVE saving[u] \in Puts \cup {None} /\ (saving[u] = s => u = t)
  <2>1. s # None
    BY FormAssumption, Zenon
  <2>. QED  BY <1>0, <2>1, Zenon DEF Before, IndInv, Types, ClientTypes, Linked, Waits
<1>9. ASSUME NEW u \in Tabs, Looks(u), AboutToLeave(u) => AboutToLeave(u)'
      PROVE  Current(u)' /\ Listed(u)' /\ Dropped(u)'
  <2>1. Current(u) /\ Listed(u) /\ Dropped(u)
    BY Zenon DEF Before, CurrentAll
  <2>2. Current(u)'
    BY <1>1, <1>9, <2>1, Zenon DEF Current, Has, Looks
  <2>3. Listed(u)'
    BY <1>1, <1>6, <1>9, <2>1, Zenon DEF Listed, Looks
  <2>4. Dropped(u)'
    BY <1>1, <1>6, <1>9, <2>1, Zenon DEF Dropped, Has, IsSettings, Looks
  <2>. QED  BY <2>2, <2>3, <2>4
<1>10. ASSUME NEW u \in Tabs \ {t} PROVE Current(u)' /\ Listed(u)' /\ Dropped(u)'
  <2>1. Keeps(u) /\ saving[u] \in Puts \cup {None} /\ saving[u] # s
    BY <1>2, <1>8, Zenon
  <2>2. saving'[u] = saving[u] /\ Looks(u)
    BY <2>1, Zenon DEF Keeps, Looks
  <2>3. saving[u] # None => put'[saving[u]] = put[saving[u]]
    BY <1>1, <2>1, Zenon
  <2>4. AboutToLeave(u) => AboutToLeave(u)'
    BY <1>1, <2>2, <2>3, Zenon DEF AboutToLeave, IsSettings
  <2>. QED  BY <1>9, <2>2, <2>4, Zenon
<1>11. Current(t)' /\ Listed(t)' /\ Dropped(t)'
  <2>1. CASE AwayFrom(t)
    <3>1. ~on'[t]
      BY <1>1, <2>1, Zenon DEF AwayFrom, Before, IndInv, Types, ClientTypes
    <3>. QED  BY <3>1, Zenon DEF Current, Listed, Dropped
  <2>2. CASE /\ ~(saving[t] = s /\ ~IsSettings(t) /\ put[s].st = "ok")
             /\ UNCHANGED <<on, form, held, shown, loading, reply>>
             /\ saving' = [saving EXCEPT ![t] = IF @ = s THEN None ELSE @]
    <3>1. AboutToLeave(t) => AboutToLeave(t)'
      <4>1. CASE saving[t] = s
        <5>1. ~IsSettings(t) => put[s].todo # {}
          BY <1>4, <2>2, <4>1, Zenon DEF Before, PastInv, Ended
        <5>. QED  BY <4>1, <5>1, Zenon DEF AboutToLeave
      <4>2. CASE saving[t] # s
        <5>1. saving'[t] = saving[t]
          BY <1>1, <2>2, <4>2, Zenon DEF Before, IndInv, Types, ClientTypes
        <5>2. saving[t] # None => put'[saving[t]] = put[saving[t]]
          BY <1>1, <1>8, <4>2, Zenon
        <5>. QED  BY <1>1, <5>1, <5>2, Zenon DEF AboutToLeave, IsSettings
      <4>. QED  BY <4>1, <4>2
    <3>2. Looks(t)
      BY <2>2, Zenon DEF Looks
    <3>. QED  BY <1>1, <1>9, <3>1, <3>2, Zenon
  <2>. QED  BY <1>3, <2>1, <2>2
<1>. QED  BY <1>7, <1>10, <1>11, Zenon DEF CurrentAll

LEMMA CurrentStep == IndInv /\ PastInv /\ TurnsInv /\ CurrentInv /\ [Next]_vars => CurrentInv'
<1> SUFFICES ASSUME IndInv, PastInv, TurnsInv, CurrentInv, [Next]_vars, careful' PROVE CurrentAll'
  BY DEF CurrentInv
<1>1. careful
  BY CarefulBefore
<1>2. Before
  BY <1>1, Zenon DEF Before, TurnsInv, CurrentInv
<1>3. ASSUME NEW t \in Tabs, TabStep(t) PROVE CurrentAll'
  BY <1>2, <1>3, OpenCurrent, LeaveCurrent, LoadCurrent, SettingsCurrent, RecordCurrent, EditCurrent, SaveCurrent,
     Zenon DEF TabStep
<1>4. ASSUME NEW s \in Puts, ServerStep(s) PROVE CurrentAll'
  <2>1. CASE WriteKey(s) \/ WriteRecord(s)
    <3>1. PICK K \in SUBSET put[s].todo : /\ Written(s, K) /\ InFlight(s) /\ UNCHANGED client
                                          /\ ~IsSettings(put[s].tab) => K = put[s].todo
      BY <2>1, WriteStep, Zenon
    <3>. QED  BY <1>2, <3>1, WriteCurrent, Zenon
  <2>2. CASE WritesEnd(s) \/ WriteFails(s)
    BY <1>2, <2>2, EndCurrent
  <2>3. CASE Answered(s)
    BY <1>2, <2>3, AnsweredCurrent
  <2>. QED  BY <1>4, <2>1, <2>2, <2>3, Zenon DEF ServerStep
<1>5. CASE UNCHANGED vars
  <2>1. UNCHANGED <<page, put, store, retired>> /\ \A u \in Tabs : Keeps(u)
    BY <1>5, Zenon DEF vars, client, server, history, Keeps
  <2>2. \A u \in Tabs : Current(u)' /\ Listed(u)' /\ Dropped(u)'
    BY <1>2, <2>1, CurrentKept, Zenon
  <2>. QED  BY <1>2, <2>1, <2>2, Zenon DEF Before, CurrentAll, StoreCurrent, Unretired
<1>. QED  BY <1>3, <1>4, <1>5, Zenon DEF Next

(* No save of careful users brings back a value that was replaced in the   *)
(* database: the pages disable their inputs and buttons where it matters.  *)
THEOREM NothingReturns == Spec => []NothingComesBack
<1>1. Init => IndInv /\ PastInv /\ TurnsInv /\ CurrentInv
  BY InitInv, PastInit, TurnsInit, CurrentInit
<1>2. IndInv /\ PastInv /\ TurnsInv /\ CurrentInv /\ [Next]_vars => (IndInv /\ PastInv /\ TurnsInv /\ CurrentInv)'
  BY NextInv, PastStep, TurnsStep, CurrentStep
<1>3. CurrentInv => NothingComesBack
  BY Zenon DEF CurrentInv, CurrentAll, StoreCurrent, NothingComesBack
<1>. QED  BY <1>1, <1>2, <1>3, PTL DEF Spec
=============================================================================

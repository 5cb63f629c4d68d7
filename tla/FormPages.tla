------------------------------ MODULE FormPages ------------------------------
(***************************************************************************)
(* The pages of the dashboard that load a value from the server, let the   *)
(* user change parts of it and write it back as a whole: the seven pages   *)
(* over the settings table S_SETTINGS, and the editors of one network, one *)
(* schema and one node.  A tab of a browser shows one of these pages; all  *)
(* tabs here work on the same settings, or on the same record.             *)
(*                                                                         *)
(* A key stands for the settings (or the fields of a record) that the same *)
(* pages edit, a value is the set of the edits (stamps) that are in effect *)
(* in it: one for a field, any number for a list.  0 is what was there     *)
(* before anybody edited, and {} the blank value of a field.               *)
(***************************************************************************)
EXTENDS Naturals, FiniteSets

CONSTANTS Tabs,         \* browser tabs
          Puts,         \* the save requests they may send
          Layouts,      \* which tab shows which page, of those defined below
          SettingKeys,  \* groups of rows of S_SETTINGS
          Answers,      \* those that an answer of GetSettings may hold
          MaxEdits,     \* bound on the edits the users make
          None          \* no request

RecordKeys == {"fields", "rules", "source", "target"}
Keys == SettingKeys \cup RecordKeys
ListKeys == {"whitelist", "rules"}
Stamp == 0..MaxEdits
Value == SUBSET Stamp
Blank == [k \in Keys |-> {}]

-----------------------------------------------------------------------------
(* The inputs of the pages: the keys that they change.                     *)

ConsolidationInputs == {"cons"}
LoggingInputs == {"log"}
GatewayInputs == {"sms"}
TwoFactorInputs == {"otp"}
WhitelistInputs == {"whitelist"}
PlatformInputs == {"platform"}
WebhookInputs == {"authws"}
GatewayShortcut == {"sms"}
AuthWSInputs == {"authws"}
PortInputs == {"ports"}
TopologyInputs == {"fields"}
SourceInputs == {"source"}
TargetInputs == {"target"}
SchemaInputs == {"fields"}
RuleInputs == {"rules"}
NodeInputs == {"fields"}

(* The pages.  kind: the settings table, or the kind of record.  reload:   *)
(* it has a refresh button and disables its save button while it loads.    *)
(* covered: a spinner replaces inputs and save button while it loads.      *)
(* volatile: the record also changes by itself (a node's last_seen, a      *)
(* network's last_sync_value), so that two answers may differ although     *)
(* nobody saved.                                                           *)

SettingsPage(inputs, hasReload) ==
  [kind |-> "settings", fields |-> inputs, reload |-> hasReload, covered |-> ~hasReload, volatile |-> FALSE]
Editor(what, inputs, changesItself) ==
  [kind |-> what, fields |-> inputs, reload |-> FALSE, covered |-> FALSE, volatile |-> changesItself]

ConsolidationSettings == SettingsPage(ConsolidationInputs, TRUE)
ExternalLogging == SettingsPage(LoggingInputs, TRUE)
SMSGateway == SettingsPage(GatewayInputs, TRUE)
SMSAuth == SettingsPage(TwoFactorInputs \cup WhitelistInputs, TRUE)
MasterSettings == SettingsPage(PlatformInputs \cup WebhookInputs \cup GatewayShortcut, FALSE)
AuthWS == SettingsPage(AuthWSInputs, FALSE)
InterfaceSettings == SettingsPage(PortInputs, FALSE)

NetworkEdit == Editor("network", TopologyInputs \cup SourceInputs \cup TargetInputs, TRUE)
SchemaEdit == Editor("schema", SchemaInputs \cup RuleInputs, FALSE)
NodeEdit == Editor("node", NodeInputs, TRUE)
Elsewhere == Editor("none", {}, FALSE)

SettingsPages == {ConsolidationSettings, ExternalLogging, SMSGateway, SMSAuth,
                  MasterSettings, AuthWS, InterfaceSettings}
RecordPages == {NetworkEdit, SchemaEdit, NodeEdit}
Pages == SettingsPages \cup RecordPages \cup {Elsewhere}

ASSUME FormAssumption ==
  /\ Layouts \subseteq [Tabs -> Pages]
  /\ \A page \in Layouts : \A t, u \in Tabs : page[t].kind \in {page[u].kind, "none"} \/ page[u].kind = "none"
  /\ Answers \subseteq SUBSET SettingKeys
  /\ SettingKeys \cap RecordKeys = {} /\ "whitelist" \in SettingKeys
  /\ MaxEdits \in Nat
  /\ None \notin Puts

-----------------------------------------------------------------------------
VARIABLES
  page,     \* page[t]: the page that tab t shows when it is on it
  on,       \* on[t]: tab t is on its page, not elsewhere in the dashboard
  loading,  \* loading[t]: a read is not under way, sent, or answered by the server
  reply,    \* reply[t]: what the server answered
  form,     \* form[t]: what the inputs hold
  held,     \* held[t]: the keys that the form's object has, hence that a save sends
  shown,    \* shown[t]: the list of phone numbers on the screen (sms-auth only)
  cached,   \* cached[t]: the query cache of the tab has the record
  cache,    \* cache[t]: the record in it
  saving,   \* saving[t]: the request whose answer the page waits for
  put,      \* put[s]: a save request on its way through the server
  store,    \* store[k]: the value in the database
  stamp     \* the last edit made

(* History: the keys edited so far, the stamps that left the database, and *)
(* whether all users have kept to the habits that CarefulOpen and          *)
(* CarefulReload state.  No action reads them.                             *)
VARIABLES touched, retired, careful

client == <<page, on, loading, reply, form, held, shown, cached, cache, saving>>
server == <<put, store>>
history == <<touched, retired, careful>>
vars == <<client, server, stamp, history>>

Free == [st |-> "free", tab |-> None, body |-> Blank, all |-> {}, todo |-> {}, calm |-> TRUE]
Request == [st : {"free", "writing", "ok", "failed"}, tab : Tabs \cup {None},
            body : [Keys -> Value], all : SUBSET Keys, todo : SUBSET Keys, calm : BOOLEAN]

IsSettings(t) == page[t].kind = "settings"
InFlight(s) == put[s].st = "writing"

(* The inputs and the buttons of the pages.                                *)
Editable(t) == on[t] /\ (page[t].covered => loading[t] = "no")
CanReload(t) == on[t] /\ page[t].reload /\ loading[t] = "no"

(* Variant: leaves the save button enabled during a load. *)
CanSaveWhileLoading(t) == on[t] /\ saving[t] = None

CanSave(t) == /\ on[t]
              /\ saving[t] = None
              /\ IsSettings(t) => loading[t] = "no"
              /\ page[t].kind = "schema" => form[t]["fields"] # {}

(* Habits under which no old value is expected to come back.               *)
CarefulOpen(t) == /\ \A u \in Tabs \ {t} : ~on[u]
                  /\ \A s \in Puts : put[s].st = "free"
                  /\ loading[t] = "no"
                  /\ cached[t] => cache[t] = store
CarefulReload(t) == saving[t] = None

-----------------------------------------------------------------------------
(* The page is mounted.  The settings pages start with an empty object and *)
(* load; the editors show what the query cache of the tab has and ask the  *)
(* server when that is missing or a minute old (whether it is, is left     *)
(* open).                                                                  *)
Open(t) ==
  /\ ~on[t] /\ page[t] # Elsewhere
  /\ on' = [on EXCEPT ![t] = TRUE]
  /\ form' = [form EXCEPT ![t] = IF cached[t] THEN cache[t] ELSE Blank]
  /\ held' = [held EXCEPT ![t] = IF IsSettings(t) THEN {} ELSE RecordKeys]
  /\ shown' = [shown EXCEPT ![t] = {}]
  /\ \E stale \in BOOLEAN :
       loading' = [loading EXCEPT ![t] = IF (cached[t] => stale) /\ @ = "no" THEN "asked" ELSE @]
  /\ careful' = (careful /\ CarefulOpen(t))
  /\ UNCHANGED <<page, reply, cached, cache, saving, server, stamp, touched, retired>>

(* The page is unmounted: its state is gone, a settings load is forgotten, *)
(* a query goes on for the cache, a save goes on at the server.            *)
AwayFrom(t) ==
  /\ on' = [on EXCEPT ![t] = FALSE]
  /\ form' = [form EXCEPT ![t] = Blank]
  /\ held' = [held EXCEPT ![t] = {}]
  /\ shown' = [shown EXCEPT ![t] = {}]
  /\ saving' = [saving EXCEPT ![t] = None]
  /\ loading' = [loading EXCEPT ![t] = IF IsSettings(t) THEN "no" ELSE @]
  /\ reply' = [reply EXCEPT ![t] = IF IsSettings(t) THEN Blank ELSE @]

Leave(t) ==
  /\ on[t]
  /\ AwayFrom(t)
  /\ UNCHANGED <<page, cached, cache, server, stamp, history>>

(* The refresh button of a settings page calls loadSettings.               *)
Reload(t) ==
  /\ CanReload(t)
  /\ loading' = [loading EXCEPT ![t] = "asked"]
  /\ careful' = (careful /\ CarefulReload(t))
  /\ UNCHANGED <<page, on, reply, form, held, shown, cached, cache, saving, server, stamp, touched, retired>>

(* A query whose record is a minute old is repeated when the window gets   *)
(* the focus.                                                              *)
Focus(t) ==
  /\ on[t] /\ ~IsSettings(t)
  /\ cached[t] /\ loading[t] = "no"
  /\ loading' = [loading EXCEPT ![t] = "asked"]
  /\ UNCHANGED <<page, on, reply, form, held, shown, cached, cache, saving, server, stamp, history>>

(* GetSettings, GetNetwork, GetSchema, GetNode: one read of the database.  *)
ServeLoad(t) ==
  /\ loading[t] = "asked"
  /\ loading' = [loading EXCEPT ![t] = "served"]
  /\ reply' = [reply EXCEPT ![t] = store]
  /\ UNCHANGED <<page, on, form, held, shown, cached, cache, saving, server, stamp, history>>

(* The answer of GetSettings has the rows that it could scan and that were *)
(* read before an error ended the loop: with 200, whatever is missing.     *)
Answer(t, got) == [k \in Keys |-> IF k \in SettingKeys \ got THEN {} ELSE reply[t][k]]

(* setSettings(data): the answer replaces whatever the form holds; sms-auth*)
(* fills its list from it only when the answer's list is not empty.        *)
SettingsArrive(t) ==
  /\ loading[t] = "served" /\ IsSettings(t)
  /\ \E got \in Answers :
       /\ form' = [form EXCEPT ![t] = Answer(t, got)]
       /\ held' = [held EXCEPT ![t] = got]
       /\ shown' = [shown EXCEPT ![t] = IF "whitelist" \in page[t].fields /\ Answer(t, got)["whitelist"] # {}
                                       THEN Answer(t, got)["whitelist"] ELSE @]
  /\ loading' = [loading EXCEPT ![t] = "no"]
  /\ reply' = [reply EXCEPT ![t] = Blank]
  /\ UNCHANGED <<page, on, cached, cache, saving, server, stamp, history>>

(* The effect on [netData], [schemaData], [nodeData] copies the record     *)
(* into the form when it is another object: the client keeps the old one   *)
(* when the answer is equal to it.  The schema editor keeps its rules when *)
(* the record has none.                                                    *)
Filled(t) == [k \in Keys |-> IF k = "rules" /\ reply[t][k] = {} THEN form[t][k] ELSE reply[t][k]]

RecordArrives(t) ==
  /\ loading[t] = "served" /\ ~IsSettings(t)
  /\ \/ /\ ~cached[t] \/ reply[t] # cache[t] \/ page[t].volatile
        /\ form' = [form EXCEPT ![t] = IF on[t] THEN Filled(t) ELSE @]
     \/ /\ cached[t] /\ reply[t] = cache[t]
        /\ UNCHANGED form
  /\ cached' = [cached EXCEPT ![t] = TRUE]
  /\ cache' = [cache EXCEPT ![t] = reply[t]]
  /\ loading' = [loading EXCEPT ![t] = "no"]
  /\ reply' = [reply EXCEPT ![t] = Blank]
  /\ UNCHANGED <<page, on, held, shown, saving, server, stamp, history>>

(* Variant: a failed load empties the form and marks all keys as present. *)
LoadFailsBlank(t) ==
  /\ loading[t] # "no"
  /\ loading' = [loading EXCEPT ![t] = "no"]
  /\ reply' = [reply EXCEPT ![t] = Blank]
  /\ form' = [form EXCEPT ![t] = Blank]
  /\ held' = [held EXCEPT ![t] = Keys]
  /\ UNCHANGED <<page, on, shown, cached, cache, saving, server, stamp, history>>

(* The request fails: the form stays as it is and the page comes back.     *)
LoadFails(t) ==
  /\ loading[t] # "no"
  /\ loading' = [loading EXCEPT ![t] = "no"]
  /\ reply' = [reply EXCEPT ![t] = Blank]
  /\ UNCHANGED <<page, on, form, held, shown, cached, cache, saving, server, stamp, history>>

-----------------------------------------------------------------------------
(* handleChange, setForm: an input sets its own key.  handleAddPhone,      *)
(* handleRemovePhone, addQuery, removeQuery and updateQuery make a new     *)
(* list out of the one on the screen.                                      *)
OnScreen(t, k) == IF k = "whitelist" THEN shown[t] ELSE form[t][k]
EditsOf(t, k) == IF k \in ListKeys
                 THEN {OnScreen(t, k) \cup {stamp + 1}} \cup {OnScreen(t, k) \ {x} : x \in OnScreen(t, k)}
                 ELSE {{stamp + 1}}

(* Variant: the handlers of the phone list forget handleChange. *)
EditScreenOnly(t, k) ==
  /\ Editable(t) /\ k \in page[t].fields \cap Keys
  /\ stamp < MaxEdits
  /\ \E v \in EditsOf(t, k) :
       /\ form' = [form EXCEPT ![t][k] = IF k = "whitelist" THEN @ ELSE v]
       /\ shown' = [shown EXCEPT ![t] = IF k = "whitelist" THEN v ELSE @]
  /\ held' = [held EXCEPT ![t] = @ \cup {k}]
  /\ stamp' = stamp + 1
  /\ touched' = touched \cup ({k} \cap SettingKeys)
  /\ UNCHANGED <<page, on, loading, reply, cached, cache, saving, server, retired, careful>>

Edit(t, k) ==
  /\ Editable(t) /\ k \in page[t].fields \cap Keys
  /\ stamp < MaxEdits
  /\ \E v \in EditsOf(t, k) :
       /\ form' = [form EXCEPT ![t][k] = v]
       /\ shown' = [shown EXCEPT ![t] = IF k = "whitelist" THEN v ELSE @]
  /\ held' = [held EXCEPT ![t] = @ \cup {k}]
  /\ stamp' = stamp + 1
  /\ touched' = touched \cup ({k} \cap SettingKeys)
  /\ UNCHANGED <<page, on, loading, reply, cached, cache, saving, server, retired, careful>>

(* handleSave, saveMutation: the whole object is sent.                     *)
Save(t, s) ==
  /\ CanSave(t) /\ put[s].st = "free"
  /\ put' = [put EXCEPT ![s] = [st |-> "writing", tab |-> t, body |-> form[t], all |-> held[t],
                                todo |-> held[t], calm |-> \A r \in Puts : ~InFlight(r)]]
  /\ saving' = [saving EXCEPT ![t] = s]
  /\ UNCHANGED <<page, on, loading, reply, form, held, shown, cached, cache, store, stamp, history>>

-----------------------------------------------------------------------------
(* The server.  A write of the keys of K by request s.                     *)
Written(s, K) ==
  /\ store' = [k \in Keys |-> IF k \in K THEN put[s].body[k] ELSE store[k]]
  /\ retired' = IF careful THEN [k \in Keys |-> retired[k] \cup (store[k] \ store'[k])] ELSE retired
  /\ put' = [r \in Puts |-> IF r = s THEN [put[r] EXCEPT !.todo = @ \ K]
                            ELSE IF InFlight(r) \/ put[r].st = "ok" THEN [put[r] EXCEPT !.calm = FALSE]
                            ELSE put[r]]

(* UpdateSettings upserts one key after the other, in no order.            *)
WriteKey(s) ==
  /\ InFlight(s) /\ IsSettings(put[s].tab)
  /\ \E k \in put[s].todo : Written(s, {k})
  /\ UNCHANGED <<client, stamp, touched, careful>>

(* UpdateNetwork, UpdateSchema and UpdateNode write the record in one      *)
(* statement or one transaction.                                           *)
WriteRecord(s) ==
  /\ InFlight(s) /\ ~IsSettings(put[s].tab) /\ put[s].todo # {}
  /\ Written(s, put[s].todo)
  /\ UNCHANGED <<client, stamp, touched, careful>>

(* All is written, or the first statement that fails ends the request.     *)
WritesEnd(s) ==
  /\ InFlight(s) /\ put[s].todo = {}
  /\ put' = [put EXCEPT ![s].st = "ok"]
  /\ UNCHANGED <<client, store, stamp, history>>

(* Variant: the first statement that fails ends the request with success. *)
WriteFailsSilently(s) ==
  /\ InFlight(s) /\ put[s].todo # {}
  /\ put' = [put EXCEPT ![s].st = "ok"]
  /\ UNCHANGED <<client, store, stamp, history>>

WriteFails(s) ==
  /\ InFlight(s) /\ put[s].todo # {}
  /\ put' = [put EXCEPT ![s].st = "failed"]
  /\ UNCHANGED <<client, store, stamp, history>>

(* Variant: forgets to reset the flag after a failure. *)
AnsweredWithoutFinally(s) ==
  /\ put[s].st \in {"ok", "failed"}
  /\ put' = [put EXCEPT ![s] = Free]
  /\ LET t == put[s].tab IN
     /\ IF saving[t] = s /\ ~IsSettings(t) /\ put[s].st = "ok" THEN AwayFrom(t)
        ELSE /\ saving' = [saving EXCEPT ![t] = IF @ = s /\ put[s].st = "ok" THEN None ELSE @]
             /\ UNCHANGED <<on, form, held, shown, loading, reply>>
  /\ UNCHANGED <<page, cached, cache, store, stamp, history>>

(* The answer: finally { setIsSaving(false) }; the editors leave for their *)
(* list after a success.  Nobody hears it when the page is gone.           *)
Answered(s) ==
  /\ put[s].st \in {"ok", "failed"}
  /\ put' = [put EXCEPT ![s] = Free]
  /\ LET t == put[s].tab IN
     \/ /\ saving[t] = s /\ ~IsSettings(t) /\ put[s].st = "ok"
        /\ AwayFrom(t)
     \/ /\ ~(saving[t] = s /\ ~IsSettings(t) /\ put[s].st = "ok")
        /\ saving' = [saving EXCEPT ![t] = IF @ = s THEN None ELSE @]
        /\ UNCHANGED <<on, form, held, shown, loading, reply>>
  /\ UNCHANGED <<page, cached, cache, store, stamp, history>>

-----------------------------------------------------------------------------
Init ==
  /\ page \in Layouts
  /\ on = [t \in Tabs |-> FALSE]
  /\ loading = [t \in Tabs |-> "no"]
  /\ reply = [t \in Tabs |-> Blank] /\ form = [t \in Tabs |-> Blank] /\ cache = [t \in Tabs |-> Blank]
  /\ held = [t \in Tabs |-> {}] /\ shown = [t \in Tabs |-> {}]
  /\ cached = [t \in Tabs |-> FALSE]
  /\ saving = [t \in Tabs |-> None]
  /\ put = [s \in Puts |-> Free]
  /\ store = [k \in Keys |-> {0}]
  /\ stamp = 0
  /\ touched = {} /\ retired = [k \in Keys |-> {}] /\ careful = TRUE

TabStep(t) == \/ Open(t) \/ Leave(t) \/ Reload(t) \/ Focus(t)
              \/ ServeLoad(t) \/ SettingsArrive(t) \/ RecordArrives(t) \/ LoadFails(t)
              \/ \E k \in Keys : Edit(t, k)
              \/ \E s \in Puts : Save(t, s)

ServerStep(s) == WriteKey(s) \/ WriteRecord(s) \/ WritesEnd(s) \/ WriteFails(s) \/ Answered(s)

Next == (\E t \in Tabs : TabStep(t)) \/ (\E s \in Puts : ServerStep(s))

Spec == Init /\ [][Next]_vars

-----------------------------------------------------------------------------
(* Types of the state; and a page that waits for an answer waits for a     *)
(* request that it sent and that is still to be answered.                  *)
TypeOK ==
  /\ page \in Layouts
  /\ on \in [Tabs -> BOOLEAN] /\ cached \in [Tabs -> BOOLEAN]
  /\ loading \in [Tabs -> {"no", "asked", "served"}]
  /\ reply \in [Tabs -> [Keys -> Value]] /\ form \in [Tabs -> [Keys -> Value]]
  /\ cache \in [Tabs -> [Keys -> Value]] /\ store \in [Keys -> Value]
  /\ held \in [Tabs -> SUBSET Keys] /\ shown \in [Tabs -> Value]
  /\ saving \in [Tabs -> Puts \cup {None}]
  /\ put \in [Puts -> Request]
  /\ \A t \in Tabs : saving[t] # None => put[saving[t]].tab = t /\ put[saving[t]].st # "free"
  /\ \A s \in Puts : put[s].st # "free" => put[s].tab \in Tabs
  /\ stamp \in Stamp
  /\ touched \in SUBSET Keys /\ retired \in [Keys -> Value] /\ careful \in BOOLEAN

(* A value that was replaced in the database does not come back, as long   *)
(* as tabs take turns, nobody refreshes during a save and no editor is     *)
(* opened on an outdated cache entry.  It rests on the spinners and the    *)
(* disabled buttons of every page.                                         *)
NothingComesBack == careful => \A k \in Keys : store[k] \cap retired[k] = {}

(* A setting that nobody edits keeps its value, whatever tabs save the     *)
(* whole table, however their saves interleave or break off, and whether   *)
(* their loads failed or brought a part of the table.                      *)
UntouchedSettings == \A k \in SettingKeys \ touched : store[k] = {0}

(* The phone numbers on the screen of sms-auth are those that a save would *)
(* send, except that the screen may keep numbers when the form has none.   *)
WhitelistShown == \A t \in Tabs : \/ "whitelist" \notin page[t].fields
                                  \/ form[t]["whitelist"] \in {shown[t], {}}

(* A save that is answered with success, and that no other request wrote   *)
(* across, has stored everything the form sent.                            *)
SavedMeansStored == \A s \in Puts : put[s].st = "ok" /\ put[s].calm =>
                      \A k \in put[s].all : store[k] = put[s].body[k]
=============================================================================

------------------------------ MODULE Settings ------------------------------
(***************************************************************************)
(* The settings panel of one page (frontend/js/settings-panel.js): the     *)
(* keys of the AI providers, saved and deleted at the hub                  *)
(* (internal/ai/store.go), and the tabs that only show the configuration.  *)
(* What the panel shows comes from a refresh, which is three calls in a    *)
(* row; several refreshes may be under way, and nothing orders their       *)
(* answers.  Every rendering makes new buttons, so that a button disabled  *)
(* by a call does not keep a second call from being made.                  *)
(***************************************************************************)
EXTENDS Naturals

CONSTANTS
  Providers,  \* "claude", "gemini"
  Configured, \* the tabs of TABS the configuration has something for
  Refreshes,  \* bound: refreshes under way
  Changes     \* bound: saves and deletions under way

\* TABS less "ai": they only show the configuration.
ConfigTabs == {"telegram", "github", "alerts"}
TABS == ConfigTabs \cup {"ai"}

ASSUME SettingsConstants ==
  /\ Providers \cap ConfigTabs = {}
  /\ Configured \subseteq ConfigTabs

VARIABLES
  keys,       \* hub: the providers with a key
  open,       \* state.open
  tab,        \* state.activeTab
  me,         \* state.me is known; the hub sends no role, so it may edit
  providers,  \* state.providers
  config,     \* state.serverConfig is known
  pills,      \* what the body shows as set: providers with a key, or the tab
  editable,   \* the body has Save and Delete
  refresh,    \* refresh -> the call it awaits, and the keys it was answered
  change,     \* the saves and deletions under way
  untold,     \* history: since the last list a key changed and no answer tells it here
  failed,     \* history: the last answer about the keys was an error
  crossed     \* history: two refreshes were under way since the panel was idle

bodyVars == <<pills, editable>>
stateVars == <<open, tab, me, providers, config>>
historyVars == <<untold, failed, crossed>>
settingsVars == <<keys, stateVars, bodyVars, refresh, change, historyVars>>

IdleRefresh == [stage |-> "idle", got |-> {}]
IdleChange == [stage |-> "idle"]

SettingsInit ==
  /\ keys \in SUBSET Providers
  /\ open = FALSE /\ tab = "ai" /\ me = FALSE
  /\ providers = {} /\ config = FALSE
  /\ pills = {} /\ editable = FALSE
  /\ refresh = [r \in Refreshes |-> IdleRefresh]
  /\ change = [c \in Changes |-> IdleChange]
  /\ untold = FALSE /\ failed = FALSE /\ crossed = FALSE

Refreshing == \E r \in Refreshes : refresh[r] # IdleRefresh
Changing == \E c \in Changes : change[c] # IdleChange

-----------------------------------------------------------------------------
(* Rendering. *)

RenderAI ==
  /\ pills' = providers
  /\ editable' = me

\* renderTelegram, renderGithub and renderAlerts show nothing set while the
\* configuration is not known, and have nothing to edit.
RenderConfig(t, known) ==
  /\ pills' = IF known THEN {t} \cap Configured ELSE {}
  /\ editable' = FALSE

\* renderBody of a tab, over the state the page has by now.
RenderBody(t, known) ==
  \/ t = "ai" /\ RenderAI
  \/ t \in ConfigTabs /\ RenderConfig(t, known)

\* render while the panel is closed: "Loading..." and no handler.
RenderLoading == pills' = {} /\ editable' = FALSE

-----------------------------------------------------------------------------
(* Opening, closing and the tabs. *)

\* A refresh starts by asking who the user is.
StartRefresh(r) ==
  /\ refresh[r] = IdleRefresh
  /\ refresh' = [refresh EXCEPT ![r] = [stage |-> "me", got |-> {}]]
  /\ crossed' = Refreshing

\* The button, Ctrl-comma, or openSettings with the tab of another module; the
\* button and openSettings render and refresh an open panel again.
Open(r, t) ==
  /\ t \in {tab, "ai"}
  /\ open' = TRUE
  /\ tab' = t
  /\ RenderBody(t, config)
  /\ StartRefresh(r)
  /\ UNCHANGED <<keys, me, providers, config, change, untold, failed>>

\* The button, Escape, or Ctrl-comma; what is under way goes on.
Close ==
  /\ open
  /\ open' = FALSE
  /\ RenderLoading
  /\ UNCHANGED <<keys, tab, me, providers, config, refresh, change, historyVars>>

SelectTab(t) ==
  /\ open
  /\ tab' = t
  /\ RenderBody(t, config)
  /\ UNCHANGED <<keys, open, me, providers, config, refresh, change, historyVars>>

-----------------------------------------------------------------------------
(* A refresh. *)

\* /api/auth/me, or its failure.
RefreshMe(r, ok) ==
  /\ refresh[r].stage = "me"
  /\ me' = ok
  /\ refresh' = [refresh EXCEPT ![r].stage = "asked"]
  /\ UNCHANGED <<keys, open, tab, providers, config, bodyVars, change, historyVars>>

\* The hub lists the providers.
ListProviders(r) ==
  /\ refresh[r].stage = "asked"
  /\ refresh' = [refresh EXCEPT ![r] = [stage |-> "answered", got |-> keys]]
  /\ untold' = FALSE
  /\ UNCHANGED <<keys, stateVars, bodyVars, change, failed, crossed>>

\* The list arrives; a failure leaves an empty one.
RefreshProviders(r, ok) ==
  /\ refresh[r].stage = (IF ok THEN "answered" ELSE "asked")
  /\ providers' = IF ok THEN refresh[r].got ELSE {}
  /\ failed' = ~ok
  /\ refresh' = [refresh EXCEPT ![r] = [stage |-> "config", got |-> {}]]
  /\ UNCHANGED <<keys, open, tab, me, config, bodyVars, change, untold, crossed>>

\* /api/config came or failed, and the body is rendered, be it hidden.
RefreshEnds(r, ok) ==
  /\ refresh[r].stage = "config"
  /\ refresh' = [refresh EXCEPT ![r] = IdleRefresh]
  /\ config' = ok
  /\ RenderBody(tab, ok)
  /\ UNCHANGED <<keys, open, tab, me, providers, change, historyVars>>

-----------------------------------------------------------------------------
(* Saving and deleting a key. *)

\* The hub: INSERT OR REPLACE, and DELETE.
SetKey(p) == keys' = keys \cup {p}
DeleteKey(p) == keys' = keys \ {p}

\* Save with a key typed; Delete after its confirmation.
ClickKey(c, p, op) ==
  /\ open /\ editable
  /\ op = "delete" => p \in pills
  /\ change[c] = IdleChange
  /\ change' = [change EXCEPT ![c] = [stage |-> op, provider |-> p]]
  /\ UNCHANGED <<keys, stateVars, bodyVars, refresh, historyVars>>

\* The hub changes the key, and its answer will be heard or is lost.
HubChanges(c, heard) ==
  /\ \/ change[c].stage = "save" /\ SetKey(change[c].provider)
     \/ change[c].stage = "delete" /\ DeleteKey(change[c].provider)
  /\ change' = [change EXCEPT ![c] = [stage |-> IF heard THEN "done" ELSE "lost"]]
  /\ untold' = (untold \/ ~heard)
  /\ UNCHANGED <<stateVars, bodyVars, refresh, failed, crossed>>

\* Mutant: the page shows what it asked for and reads nothing back.
ThenNothing(r) == UNCHANGED <<refresh, crossed>>

\* A change whose answer arrived is followed by a refresh.
ThenRefresh(r) == StartRefresh(r)

ChangeDone(c, r) ==
  /\ change[c].stage = "done"
  /\ change' = [change EXCEPT ![c] = IdleChange]
  /\ ThenRefresh(r)
  /\ UNCHANGED <<keys, stateVars, bodyVars, untold, failed>>

\* The hub refuses it or is out of reach, or it changed the key and the answer
\* was lost: the same toast, and no refresh.
ChangeFails(c) ==
  /\ change[c].stage \in {"save", "delete", "lost"}
  /\ change' = [change EXCEPT ![c] = IdleChange]
  /\ UNCHANGED <<keys, stateVars, bodyVars, refresh, historyVars>>

\* Another page, of this user or another.
ChangedElsewhere(p) ==
  /\ SetKey(p) \/ DeleteKey(p)
  /\ untold' = TRUE
  /\ UNCHANGED <<stateVars, bodyVars, refresh, change, failed, crossed>>

-----------------------------------------------------------------------------
RefreshNext(r) ==
  \/ \E t \in TABS : Open(r, t)
  \/ ListProviders(r)
  \/ \E ok \in BOOLEAN : RefreshMe(r, ok) \/ RefreshProviders(r, ok) \/ RefreshEnds(r, ok)

ChangeNext(c) ==
  \/ \E p \in Providers, op \in {"save", "delete"} : ClickKey(c, p, op)
  \/ \E heard \in BOOLEAN : HubChanges(c, heard)
  \/ ChangeFails(c)
  \/ \E r \in Refreshes : ChangeDone(c, r)

SettingsNext ==
  \/ Close
  \/ \E t \in TABS : SelectTab(t)
  \/ \E r \in Refreshes : RefreshNext(r)
  \/ \E c \in Changes : ChangeNext(c)
  \/ \E p \in Providers : ChangedElsewhere(p)

SettingsSpec == SettingsInit /\ [][SettingsNext]_settingsVars

-----------------------------------------------------------------------------
(* Properties. *)

RefreshStages == {"idle", "me", "asked", "answered", "config"}

ChangesUnderWay ==
  [stage : {"idle", "done", "lost"}] \cup [stage : {"save", "delete"}, provider : Providers]

\* Type invariant: the keys, what the panel knows and shows, and its calls.
SettingsTypeOK ==
  /\ keys \subseteq Providers /\ providers \subseteq Providers
  /\ pills \subseteq Providers \cup ConfigTabs /\ config \in BOOLEAN
  /\ open \in BOOLEAN /\ me \in BOOLEAN /\ editable \in BOOLEAN /\ tab \in TABS
  /\ refresh \in [Refreshes -> [stage : RefreshStages, got : SUBSET Providers]]
  /\ change \in [Changes -> ChangesUnderWay]
  /\ untold \in BOOLEAN /\ failed \in BOOLEAN /\ crossed \in BOOLEAN

\* When nothing is under way the pills of the panel are the keys of the hub,
\* after any number of saves, deletions, openings, closings, tab changes and
\* failures: only a key changed since the last list, elsewhere or with its answer
\* lost, a list that failed, or refreshes that crossed each other make them differ
\* (refresh and the handlers of Save and Delete).  The other tabs show what is configured as soon as it is known,
\* however the refreshes cross.
PillsTrue ==
  open =>
    IF tab = "ai"
    THEN ~Refreshing /\ ~Changing /\ ~untold /\ ~failed /\ ~crossed => pills = keys
    ELSE config => pills = {tab} \cap Configured
=============================================================================

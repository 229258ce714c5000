----------------------------- MODULE ServerTabs -----------------------------
(***************************************************************************)
(* The tab strip and the overview (frontend/js/multi-server.js) with the   *)
(* GitHub Actions panel (frontend/js/actions-panel.js), against the        *)
(* registry of the hub: the list is fetched every 15 s, changed on the     *)
(* spot by an added or removed server and by the metrics that arrive, and  *)
(* the tab is chosen by clicks and by the location's hash, whose events    *)
(* come later than the assignment.                                         *)
(*                                                                         *)
(* The tabs are rendered at every change of the list; the cards of the     *)
(* overview are not, so they are a variable.                               *)
(***************************************************************************)
EXTENDS Naturals, Sequences, FiniteSets, SequencesExt

CONSTANTS
  Ids,          \* servers that exist at some time
  Local,        \* "local", which cannot be removed
  ALL_SERVERS,  \* "__all__", also its route
  GITHUB_TAB,   \* "__github__"
  MaxPolls,     \* bound: fetches of the list in flight
  Requests      \* bound: one per DELETE or POST of the page in flight

ASSUME TabsConstants ==
  /\ Local \in Ids /\ IsFiniteSet(Ids) /\ MaxPolls \in Nat
  /\ ALL_SERVERS \notin Ids /\ GITHUB_TAB \notin Ids /\ ALL_SERVERS # GITHUB_TAB

VARIABLES
  registry,   \* hub: the servers it has
  online,     \* hub: the servers whose agent is connected
  unminted,   \* hub: the ids Mint has not given out
  boot,       \* initMultiServer: "servers", "actions", "answered", "ready"
  servers,    \* state.servers
  currentId,  \* state.currentId
  hash,       \* window.location.hash, as the tab it names
  changed,    \* a hashchange event is queued
  cards,      \* the servers whose card the overview shows
  asked,      \* fetches of the list the hub has not answered
  answers,    \* answers on their way
  request,    \* the DELETEs and POSTs of the page: their server and their stage
  panel,      \* the runs of the panel: "none", "latest" or "stale"
  dropped     \* history: listed servers that the list fetched since lacks

hubVars == <<registry, online, unminted>>
viewVars == <<currentId, hash, changed>>
pollVars == <<asked, answers>>
tabsVars == <<hubVars, servers, viewVars, cards, pollVars, request, panel, boot, dropped>>

NoRequest == [kind |-> "none", id |-> Local, stage |-> "sent"]

\* state.githubAvailable.
available == boot = "ready" /\ panel # "none"

Listed(list) == {list[i].id : i \in 1..Len(list)}

\* What GET /api/v2/servers answers.
View ==
  SetToSeq({[id |-> i, status |-> IF i \in online THEN "online" ELSE "offline"] :
              i \in registry})

TabsInit ==
  /\ registry \in {R \in SUBSET Ids : Local \in R}
  /\ online = {Local}
  /\ unminted = Ids \ registry
  /\ boot = "servers"
  /\ servers = <<>>
  /\ currentId = ALL_SERVERS
  /\ hash \in Ids \cup {ALL_SERVERS, GITHUB_TAB}
  /\ changed = FALSE
  /\ cards = {}
  /\ asked = 0 /\ answers = {}
  /\ request = [r \in Requests |-> NoRequest]
  /\ panel = "none"
  /\ dropped = {}

-----------------------------------------------------------------------------
(* The hub, and the other browsers that use it. *)

AgentConnects(i) ==
  /\ i \in registry \ online
  /\ online' = online \cup {i}
  /\ UNCHANGED <<registry, unminted, servers, viewVars, cards, pollVars, request,
                 panel, boot, dropped>>

AgentLeaves(i) ==
  /\ i \in online \ {Local}
  /\ online' = online \ {i}
  /\ UNCHANGED <<registry, unminted, servers, viewVars, cards, pollVars, request,
                 panel, boot, dropped>>

\* Another browser removes a server.
RemovedElsewhere(i) ==
  /\ i \in registry \ {Local}
  /\ registry' = registry \ {i}
  /\ online' = online \ {i}
  /\ UNCHANGED <<unminted, servers, viewVars, cards, pollVars, request, panel,
                 boot, dropped>>

-----------------------------------------------------------------------------
(* Rendering and routing. *)

RenderOverview(list) == cards' = Listed(list)

\* Mutant: the location keeps the route of the tab the page came from.
SelectNoHash(id, list) ==
  /\ currentId' = id
  /\ UNCHANGED <<hash, changed>>
  /\ IF id = ALL_SERVERS THEN RenderOverview(list) ELSE UNCHANGED cards

\* setCurrentServer; assigning the hash queues an event when it changes.  The
\* filter it sets is in Dashboard.
Select(id, list) ==
  /\ currentId' = id
  /\ hash' = id
  /\ changed' = (changed \/ hash # id)
  /\ IF id = ALL_SERVERS THEN RenderOverview(list) ELSE UNCHANGED cards

\* applyRoute: an unknown route falls back to the overview.
Route(h, list) ==
  IF (h = GITHUB_TAB /\ available) \/ h \in Listed(list) THEN h ELSE ALL_SERVERS

\* The hashchange event.
ApplyRoute ==
  /\ boot = "ready"
  /\ changed
  /\ LET id == Route(hash, servers)
     IN  /\ currentId' = id
         /\ hash' = id
         /\ changed' = (hash # id)
         /\ IF id = ALL_SERVERS THEN RenderOverview(servers) ELSE UNCHANGED cards
  /\ UNCHANGED <<hubVars, servers, pollVars, request, panel, boot, dropped>>

\* The user goes back, edits the location, or a suggestion of the assistant
\* names a server; before the listener is there nobody is told.
Navigate(h) ==
  /\ hash # h
  /\ hash' = h
  /\ changed' = (boot = "ready")
  /\ UNCHANGED <<hubVars, servers, currentId, cards, pollVars, request, panel,
                 boot, dropped>>

\* A click on a tab, or on a card of the overview.
Click(id) ==
  /\ boot = "ready"
  /\ \/ id = ALL_SERVERS
     \/ (id = GITHUB_TAB /\ available)
     \/ id \in Listed(servers)
     \/ currentId = ALL_SERVERS /\ id \in cards
  /\ Select(id, servers)
  /\ UNCHANGED <<hubVars, servers, pollVars, request, panel, boot, dropped>>

-----------------------------------------------------------------------------
(* initMultiServer. *)

\* The first list, or the first fetch fails.
FirstList ==
  /\ boot = "servers"
  /\ servers' \in {View, <<>>}
  /\ boot' = "actions"
  /\ UNCHANGED <<hubVars, viewVars, cards, pollVars, request, panel,
                 dropped>>

\* The hub answers fetchSnapshot; what it sent ages from here on.
AnswerSnapshot ==
  /\ boot = "actions"
  /\ boot' = "answered"
  /\ panel' = "latest"
  /\ UNCHANGED <<hubVars, servers, viewVars, cards, pollVars, request, dropped>>

\* The answer arrives, or the poller is off (404) or out of reach: the page
\* listens only from here on, and follows the route.
Ready ==
  /\ boot \in {"actions", "answered"}
  /\ boot' = "ready"
  /\ LET id == IF hash = GITHUB_TAB /\ boot = "answered" THEN hash ELSE Route(hash, servers)
     IN  Select(id, servers)
  /\ UNCHANGED <<hubVars, servers, pollVars, request, panel, dropped>>

\* Mutant: the panel keeps the runs of its own fetch.
IngestRunsOnce(delivered) ==
  panel' = IF panel = "none" THEN "none" ELSE "stale"

\* GH_WORKFLOW_RUNS replaces what the panel has, once it listens.
IngestRuns(delivered) ==
  panel' = IF panel = "none" THEN "none"
           ELSE IF delivered /\ available THEN "latest" ELSE "stale"

\* What the page has of the panel: show draws it, an envelope draws it again
\* while it is visible, hide takes it away.
Drawn == IF currentId = GITHUB_TAB /\ available THEN panel ELSE "none"

\* The poller has other runs; its envelope may be lost.
Refresh(delivered) ==
  /\ IngestRuns(delivered)
  /\ UNCHANGED <<hubVars, servers, viewVars, cards, pollVars, request, boot, dropped>>

-----------------------------------------------------------------------------
(* The list. *)

\* Every 15 s, whether or not the fetch before has ended.
Poll ==
  /\ boot = "ready"
  /\ asked + Cardinality(answers) < MaxPolls
  /\ asked' = asked + 1
  /\ UNCHANGED <<hubVars, servers, viewVars, cards, answers, request, panel,
                 boot, dropped>>

AnswerPoll ==
  /\ asked > 0
  /\ asked' = asked - 1
  /\ answers' = answers \cup {View}
  /\ UNCHANGED <<hubVars, servers, viewVars, cards, request, panel, boot,
                 dropped>>

PollFails ==
  /\ asked > 0
  /\ asked' = asked - 1
  /\ UNCHANGED <<hubVars, servers, viewVars, cards, answers, request, panel,
                 boot, dropped>>

\* Mutant: the answer is merged into the list and takes nothing out.
MergeAnswer(a) == a \o SelectSeq(servers, LAMBDA r : r.id \notin Listed(a))

\* state.servers = await res.json()
TakeAnswer(a) == a

\* An answer arrives, in any order; the overview is drawn if it is on.
FetchServers(a) ==
  /\ a \in answers
  /\ answers' = answers \ {a}
  /\ servers' = TakeAnswer(a)
  /\ dropped' = (dropped \cup Listed(servers)) \ Listed(servers')
  /\ IF currentId = ALL_SERVERS THEN RenderOverview(servers') ELSE UNCHANGED cards
  /\ UNCHANGED <<hubVars, viewVars, asked, request, panel, boot>>

\* ingestEnvelope, of SYSTEM_METRICS: the sender is online, whatever the
\* registry said; a sender that is not on the list stays off it.
IngestEnvelope(i) ==
  /\ boot = "ready"
  /\ i \in online
  /\ servers' = [n \in 1..Len(servers) |->
                   IF /\ servers[n].id = i
                      /\ \A m \in 1..(n - 1) : servers[m].id # i
                   THEN [servers[n] EXCEPT !.status = "online"] ELSE servers[n]]
  /\ IF currentId = ALL_SERVERS THEN RenderOverview(servers') ELSE UNCHANGED cards
  /\ UNCHANGED <<hubVars, viewVars, pollVars, request, panel, boot, dropped>>

-----------------------------------------------------------------------------
(* Adding and removing a server.  Neither button is disabled meanwhile. *)

\* The user confirms the removal of a server whose tab is on the strip.
DeleteServer(r, i) ==
  /\ boot = "ready"
  /\ i \in Listed(servers) \ {Local}
  /\ request[r] = NoRequest
  /\ request' = [request EXCEPT ![r] = [kind |-> "delete", id |-> i, stage |-> "sent"]]
  /\ UNCHANGED <<hubVars, servers, viewVars, cards, pollVars, panel, boot, dropped>>

\* The hub removes it; one that is gone already is an error.
HubDeletes(r) ==
  /\ request[r].kind = "delete" /\ request[r].stage = "sent"
  /\ request[r].id \in registry
  /\ request' = [request EXCEPT ![r].stage = "done"]
  /\ registry' = registry \ {request[r].id}
  /\ online' = online \ {request[r].id}
  /\ UNCHANGED <<unminted, servers, viewVars, cards, pollVars, panel, boot, dropped>>

\* The page leaves the tab of the removed server; the cards are not drawn again.
LeaveRemoved(i, list) ==
  IF currentId = i THEN Select(ALL_SERVERS, list) ELSE UNCHANGED <<viewVars, cards>>

\* servers.filter(...): the entries of the other servers, in their order.
Without(list, i) ==
  LET kept == {n \in DOMAIN list : list[n].id # i}
  IN  [k \in 1..Cardinality(kept) |->
         list[CHOOSE n \in kept : Cardinality({m \in kept : m <= n}) = k]]

Deleted(r) ==
  /\ request[r].kind = "delete" /\ request[r].stage = "done"
  /\ request' = [request EXCEPT ![r] = NoRequest]
  /\ servers' = Without(servers, request[r].id)
  /\ LeaveRemoved(request[r].id, servers')
  /\ UNCHANGED <<hubVars, pollVars, panel, boot, dropped>>

MintServer(r) ==
  /\ boot = "ready"
  /\ request[r] = NoRequest
  /\ request' = [request EXCEPT ![r] = [kind |-> "add", id |-> Local, stage |-> "sent"]]
  /\ UNCHANGED <<hubVars, servers, viewVars, cards, pollVars, panel, boot, dropped>>

HubMints(r, i) ==
  /\ request[r].kind = "add" /\ request[r].stage = "sent"
  /\ i \in unminted
  /\ request' = [request EXCEPT ![r] = [kind |-> "add", id |-> i, stage |-> "done"]]
  /\ registry' = registry \cup {i}
  /\ unminted' = unminted \ {i}
  /\ UNCHANGED <<online, servers, viewVars, cards, pollVars, panel, boot, dropped>>

\* The new server goes on the list, a second time if a fetch was faster.
Minted(r) ==
  /\ request[r].kind = "add" /\ request[r].stage = "done"
  /\ request' = [request EXCEPT ![r] = NoRequest]
  /\ servers' = Append(servers, [id |-> request[r].id, status |-> "offline"])
  /\ dropped' = dropped \ {request[r].id}
  /\ UNCHANGED <<hubVars, viewVars, cards, pollVars, panel, boot>>

\* The request or its answer is lost, or the hub answers an error: an alert, and
\* the list stays as it is, whatever the hub has done.
RequestFails(r) ==
  /\ request[r] # NoRequest
  /\ request' = [request EXCEPT ![r] = NoRequest]
  /\ UNCHANGED <<hubVars, servers, viewVars, cards, pollVars, panel, boot, dropped>>

-----------------------------------------------------------------------------
HubNext ==
  \/ \E i \in Ids : AgentConnects(i) \/ AgentLeaves(i) \/ RemovedElsewhere(i)
  \/ \E delivered \in BOOLEAN : Refresh(delivered)

RouteNext ==
  \/ ApplyRoute
  \/ \E h \in Ids \cup {ALL_SERVERS, GITHUB_TAB} : Navigate(h) \/ Click(h)

ListNext ==
  \/ Poll \/ AnswerPoll \/ PollFails
  \/ \E a \in answers : FetchServers(a)
  \/ \E i \in Ids : IngestEnvelope(i)

AddOrRemove ==
  \E r \in Requests :
    \/ HubDeletes(r) \/ Deleted(r) \/ MintServer(r) \/ Minted(r) \/ RequestFails(r)
    \/ \E i \in Ids : DeleteServer(r, i) \/ HubMints(r, i)

TabsNext ==
  \/ FirstList \/ AnswerSnapshot \/ Ready
  \/ HubNext \/ RouteNext \/ ListNext \/ AddOrRemove

\* Events and answers are delivered, the interval goes on, failures of a fetch
\* and losses of the poller's envelope are transient.
TabsFairness ==
  /\ WF_tabsVars(FirstList) /\ WF_tabsVars(Ready)
  /\ WF_tabsVars(ApplyRoute)
  /\ WF_tabsVars(Poll) /\ SF_tabsVars(AnswerPoll)
  /\ WF_tabsVars(\E a \in answers : FetchServers(a))
  /\ WF_tabsVars(Refresh(TRUE))

TabsSpec == TabsInit /\ [][TabsNext]_tabsVars
FairTabsSpec == TabsSpec /\ TabsFairness

-----------------------------------------------------------------------------
(* Properties. *)

\* Type invariant: the hub, the list and what is on its way.
TabsTypeOK ==
  /\ registry \subseteq Ids /\ online \subseteq registry
  /\ unminted \subseteq Ids \ registry
  /\ boot \in {"servers", "actions", "answered", "ready"}
  /\ servers \in Seq([id : Ids, status : {"online", "offline"}])
  /\ currentId \in Ids \cup {ALL_SERVERS, GITHUB_TAB}
  /\ hash \in Ids \cup {ALL_SERVERS, GITHUB_TAB}
  /\ changed \in BOOLEAN
  /\ cards \subseteq Ids
  /\ asked \in 0..MaxPolls /\ answers \subseteq Seq([id : Ids, status : {"online", "offline"}])
  /\ request \in [Requests -> [kind : {"none", "delete", "add"}, id : Ids,
                              stage : {"sent", "done"}]]
  /\ panel \in {"none", "latest", "stale"}
  /\ dropped \subseteq Ids

\* When no hashchange is queued the location names the chosen tab, and that tab
\* is on the strip unless a fetch has just taken its server off: a card that is
\* still drawn, an edited location, a tab of a removed server, or an answer that
\* is late never leave the page on a server it does not list (setCurrentServer,
\* applyRoute, the handler of .tab-close).
SelectionListed ==
  boot = "ready" /\ ~changed =>
    /\ hash = currentId
    /\ \/ currentId = ALL_SERVERS
       \/ currentId = GITHUB_TAB /\ available
       \/ currentId \in Listed(servers) \cup dropped

\* Once servers are no longer added, removed, connected or lost, the list
\* becomes the registry's: each server once, with its status, in spite of
\* answers that overtake each other, of an added server that is listed twice, of
\* a removed one that an old answer has brought back and of a server added or
\* removed whose answer never came (fetchServers).
Reconciles ==
  <>[][registry' = registry /\ online' = online]_tabsVars =>
    <>[](/\ Len(servers) = Cardinality(registry)
         /\ ToSet(servers) = ToSet(View))

\* A page that stays on the GitHub tab comes to show the poller's snapshot, when
\* one was broadcast between the answer to its fetch and its subscription too
\* (actions-panel.js:58-73).
PanelCatchesUp ==
  currentId = GITHUB_TAB /\ available ~> Drawn = "latest" \/ currentId # GITHUB_TAB
=============================================================================

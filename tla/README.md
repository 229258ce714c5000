# ArgonWatchGo: TLA+ models and proofs

ArgonWatchGo is a monitoring hub in Go with a browser front end. One binary is the
*hub* (web server, SQLite, alert engine, fan-out to browsers, an in-process "local"
monitor) or, started with `--mode=agent`, an *agent* that dials the hub over one
WebSocket and streams metrics to it. Through the same WebSocket a browser can open a
terminal on the agent's host. The repository has no test that runs two goroutines
against each other, and none at all of the pages, whose every call is an `await` that the
user may overtake; this project states and checks what those parts promise.

Paths below are relative to `src/backend/internal/` unless they start with `src/`; those that
end in `.js` are in `src/frontend/js/`, whose copy in `assets/frontend/`, the one that the
binary embeds, is identical.

## Inventory

| Component | State | Operations | Talks to |
|---|---|---|---|
| Server registry, `hub/registry.go` | `cache` (status per ID) and the table `servers` | `Mint`, `Authenticate`, `Delete`, `MarkOnline`, `MarkOffline`, load at start | connections, server endpoints |
| Agent connections, `hub/connections.go` | `byID`; per connection a queue of 32, `closed` | `Attach`, `Detach`, `SendTo`, `IsConnected`, `Close`, write pump | registry, agent handler, terminal proxy |
| Agent handler, `hub/agent_ws.go` | one goroutine per agent, 60 s read deadline | authenticate, attach, read loop, deferred detach | registry, storage, alert engine, proxy, browser hub |
| Server endpoints, `api/v2_servers.go` | none | list, create, delete | registry, connections |
| Terminal proxy, `hub/terminal_proxy.go` | `sessions`, their browser, table `terminal_sessions` | `Mint` with a 30 s reaper, `HandleRoute`, `pumpBrowser`, `DeliverFromAgent`, `endSession` | connections, browsers, SQLite |
| Agent terminal manager, `agent/terminal_manager.go`, `agent/terminal/` | `sessions`, one PTY child each | open, input, resize, close, `CloseAll`, output pump | agent's outbound queue |
| Agent process, `agent/agent.go` | one connection, outbound queue of 64, backoff | dial, writer, heartbeat, read loop, reconnect | hub, monitors, terminal manager |
| Browser hub, `realtime/websocket.go` | `clients`, `broadcast` (64), `send` (256 each) | `Run`, `ServeWS`, read and write pump, `BroadcastFor`, `SendMessage` | every producer of messages, browsers |
| Alert engine, `alerts/alerts.go` | `alertStates`, `alertHistory` | `CheckMetricsForServer`, `GetActiveAlerts`, `GetHistory` | browser hub, notifier, diagnoser |
| Notifier, `alerts/notifier.go` | none | one HTTP or mail call per channel | external services |
| AI: diagnoser, reporter, chat, `ai/` | daily token count, conversations, keys, last report | `Diagnose`, `GenerateNow`, `Chat`, key and conversation store, tools | alert engine, storage, providers |
| Accounts, `auth/` | `users` and a JSON file, JWT secret | setup, login, 2FA, role checks | every endpoint |
| Metric storage, `storage/`, `storage/sqlite/` | table `metrics`, schema version, legacy JSONL file | migrations, import, insert, history, prune | handlers, monitors |
| GitHub poller, `github/` | last snapshot | refresh on a timer | GitHub, browser hub |
| Runner probe, `agent/ghrunner/` | none | probe and push on a timer | outbound queue |
| Monitors, `monitor/` | previous counters | sample on a timer | browser hub or outbound queue |
| Configuration, vault, router, install scripts | constant after start | parse, encrypt, route | |
| Browser connection, `utils/websocket.js` | socket, attempts, server filter, listeners | connect, retry, filter, dispatch | browser hub, the dashboard |
| Dashboard, `app.js`, `chart-enhancer.js`, `utils/gauge.js` | chart series, window, plotted range, gauges | push, load history, trim, fetch a range, mark anomalies | connection, storage |
| Server tabs, `multi-server.js`; Actions panel, `actions-panel.js` | list, chosen tab, location, cards, snapshot of runs | poll, add, remove, choose, refresh | registry, poller, connection |
| Terminal panel, `terminal-panel.js` | terminal, socket, session, suggestion in the window | open, teardown, resize, type | terminal proxy |
| Assistant sidebar, `ai-chat.js` | conversation, messages, `sending` | send, load, delete, new, suggest | chat service, terminal panel |
| Sign-in pages, `auth.js`, `setup.js`, `session-check.js` | token in `localStorage`, forms | check, redirect, sign in, set up | accounts |
| Settings panel, `settings-panel.js` | tab, providers, configuration, pills | refresh, save and delete keys | AI store, configuration |
| Theme, toast, service worker, `utils/charts.js` | one class, one element, one cache | | |

The hard behaviours, by component, and what makes each correct:

* **Registry and connections.** `conns.mu` and `registry.mu` are taken one after the
  other, never together; `Attach` kicks, `Detach` removes *by server ID* and is
  deferred by every handler and called by every delete request; and a handler writes terminal
  output to browsers itself, with no deadline. Correct: no connection
  leaks, each registered one is served, cache and table agree, a revoked server never
  returns, and the status converges.
* **Terminals.** Three goroutines may end a session; the browser is attached without
  looking whether the session still is there; two goroutines write to one WebSocket, which may
  panic; either queue may drop an envelope; the link may break. On the agent a shell is started,
  put in the table, taken out of it and killed in four steps of two goroutines. Correct: somebody
  always ends a session, once, and no shell outlives the link that owns it.
* **Browser hub.** A client's channel is closed by `Run` in two places while its pumps
  use it. Correct: no double close, no send on a closed channel, no hole in a stream,
  no leaked goroutine.
* **Alert engine.** Durations, cooldowns, samples without the metric and several
  servers interact over long sequences. Correct: it alerts on exactly the sustained
  conditions, and says so to the clients that poll and to those that listen alike.
* **Agent link.** Two read deadlines, pings, heartbeats and a backoff. Correct: a
  healthy link stays up, a dead one is noticed by both ends and re-established.
* **AI.** A chat reads a conversation, waits for the provider and writes the conversation back
  whole, while other pages chat in it, load it and delete it. Correct: a turn is stored once and
  in one place, and what a page shows is stored. The diagnoser tests its budget before a call
  and charges it after.
* **Dashboard.** Pushes, late answers and ranges go into one set of series while the tab and the
  window change. Correct: labels and data agree, the series of a tab are of its server, the
  page converges, the connection is retried.
* **Server tabs.** Polls overlap, and tabs, cards and locations outlive their servers. Correct:
  the chosen tab exists, the list becomes the registry's, the panel catches up.
* **Terminal panel.** Two awaits lie between the teardown of one terminal and the socket of the
  next. Correct: no shell out of reach, a suggestion typed once and where it belongs, the
  shell has the size of the page.
* **Sign-in.** Three pages redirect to each other by one token that all tabs share. Correct: they
  come to rest.
* **Settings.** Refreshes of three awaits each, and buttons that work during all of them. Correct: the
  panel comes to show the keys the hub has.
* **Accounts, storage.** Setup tests and creates in two steps; the import commits and
  renames in two.

## Modules

| Module | Models | Properties and proofs |
|---|---|---|
| `ServerDirectory` | what the registry promises, with no lock, connection or table | abstract specification |
| `AgentConnections` | registry, connections, agent handler, delete endpoint, restart | `AgentConnectionsProofs` |
| `AlertEngine` | the rule loop over messages of several servers | `AlertEngineProofs` |
| `TerminalSessions` | proxy, agent's manager, PTYs, the link | `TerminalSessionsProofs` |
| `BrowserHub` | `Run`, the pumps, `BroadcastFor`, `SendMessage` | `BrowserHubProofs` |
| `AgentLink` | both ends of the agent's WebSocket in time: deadlines, pings, heartbeats, backoff | `AgentLinkProofs` |
| `WebSocketClient` | the page's connection: connect, retries, server filter | implemented by `Dashboard`; `DashboardProofs` |
| `Dashboard` | the widgets, series and ranges of a page, on top of `WebSocketClient` | `DashboardProofs` |
| `ServerTabs` | tab strip, overview and Actions panel against the registry | `PageControlsProofs` |
| `TerminalPanel` | the terminal of the page and the suggestions it types | `PageControlsProofs` |
| `Assistant` | the sidebars of several browsers and the hub's conversations | `AssistantProofs` |
| `SignIn` | the pages of several tabs, their token and the hub's accounts | `PageControlsProofs` |
| `Settings` | the settings panel and the hub's keys | `PageControlsProofs` |
| `MC...` | the instance that TLC checks | |

### AgentConnections

A member of `Sessions` is one `/agent` request with its handler goroutine and its
WebSocket, a member of `Deleters` one `DELETE /servers/{id}` request. An action is one
critical section, or one step between two: `Authenticate` is a cache lookup under the
lock (`LookUp`) and a table read outside it (`CheckToken`); `Attach` is the part under
`conns.mu` (`Attach`) and the `MarkOnline` after it (`ReportAttached`); `Detach` is
`DetachUnlink`, `DetachClose`, `DetachMark`. `victim[p]` is Detach's local variable `a`.
`Restart` kills the hub and reloads the table. A handler in its read loop is reading
(`"serving"`) or passing terminal output on to a browser (`"relaying"`, between `Relay` and
`Relayed`; agent_ws.go:103, terminal_proxy.go:272). A read may fail at any moment, which
stands for the peer leaving, the deadline passing and a closed connection, and a buffered
frame may still be read after `Close`; but closing its connection does not wake a handler that
writes to a browser, and no such write is assumed to return. `RelayPanics` is a write that
meets another one: the panic runs the deferred `Detach`.

Left out: names, tags and token contents (`CheckToken` or `Refuse` is a free choice
while the row is there), metrics, and a failing `upsert` (the code ignores its error,
and the row is there already whenever the cache has the ID).

### AlertEngine

`CheckMetricsForServer` holds `e.mu` for a whole message. An action is one turn of its
loop, `at` is the loop's position, and `Receive` takes the mutex. `Skip`, `Quiet`,
`FirstBad`, `StillBad` and `Resolve` are the branches of the loop body. A missing map
entry and a state whose `Triggered` is false are one value, as the code treats them
alike. `shown`, `streak`, `lastBad` and `fired` are history variables: the last event
broadcast for a key and what the samples themselves say, computed without looking at the
engine's state. Rules are identified by position: two rules configured with one ID
would share a state in the code and do not here.

### TerminalSessions

A session ID names its entry in the proxy, its audit row and its entry in the agent's table; the
reaper of a session goes by that name. `Unlink`, `Capture`, `CloseBrowser`, `Release` are the four
steps of `endSession`, run by a reaper, a browser's handler or an agent read loop. A write
to a browser begins in one step, which sets `target`, and ends in a later one, as it may
block. `toAgent` is the hub's queue and the wire together, `toHub` the agent's; a full
queue drops. `live` turns false when the link breaks; `HubDetaches` and the agent's
`CloseAll` follow independently.

Two writes to one WebSocket at once may panic in gorilla/websocket, whose own test for it is
a race: `met` holds the goroutines whose write overlaps one that has ended meanwhile, and `MayPanic`
says when a panic is possible. What it does depends on whose goroutine it is. The panic of a
browser's handler is recovered by net/http and leaves the WebSocket, which was hijacked, open
(`HandlerPanics`); that of an agent's read loop is recovered after the deferred `Detach`, so the link
goes (`LoopPanics`); nobody recovers a reaper's, so the hub ends and starts again with the rows
that it left open (`ReaperPanics`). In each case the rest of `endSession` is skipped: neither
`TERMINAL_CLOSE` nor the end of the row follows. `cut` is history: the sessions whose end a panic
cut short.

On the agent a shell is known by its PTY, a member of `Ptys`, since one session may get several.
`OpenShell` starts it and `EnterShell` puts it in the table and starts its pump (terminal_manager.go:105,
:117-119). A close takes the entry out under the lock (`TakeOut`, in `CloseShell`, `PumpEnds` and
`CloseAll`) and kills outside it (`Kill`), so between the two the shell is in the hands of one
goroutine (`hand`). `CloseAll` finds only what is in the table: a pump that took its entry out before
may kill it after `runOnce` has returned and even after the agent has dialled again (`pump` is
`"late"`). A shell that is started and not yet in the table is no such case, as `runOnce` handles an
open in its own read loop and runs `CloseAll` after it.

SQLite statements are taken to succeed; byte counts and window sizes are left out.

### BrowserHub

`Run` holds `h.mu` for a whole case of its select, one action each: `Register`,
`Unregister`, `Relay`. A panic stops everything (`crash`), as it does in Go. `Answer` is
the message handler's `SendMessage`. Envelopes are numbered in the order in which
`BroadcastFor` was called, dropped ones included. A browser connects once per name.

### AgentLink

One agent, its hub and the network between them. Time runs in units of ten seconds, and the
constants are the code's own: heartbeat 1, ping 2, deadlines 6 and 9, backoff up to 6 (its
first second is rounded up to a unit). What is due goes before the next unit. The agent's
`reader`, `writer` and WebSocket (`mine`) are apart because they end apart: the read loop waits
for the writer before it closes the WebSocket (agent.go:237-239), and a write has no deadline.
A close is never assumed to reach the other end: it may be seen at once, late or only by the
deadline. `Attach` and `Detach` are single steps here, with `closing` for the handlers whose
deferred `Detach` is still to come. `relaying` has the handlers that a browser holds in a write
(`Relay`, `Relayed`): such a handler reads nothing, its deadline fires nowhere and closing its
WebSocket does not wake it; `backlog` says whether something has come in meanwhile, which it will
read before it looks at the deadline. A pong is a write on the agent's WebSocket, so there is none
while the agent's writer is blocked or after one of its writes has failed, whose error gorilla
keeps. A message that the agent cannot encode is left empty on the wire and ends the hub's read. `HubEnvelope` stands for terminal traffic, the only data a
hub sends to an agent. `silence` and `outage` are history variables; an outage is counted while the
network is up, no browser holds a handler and the two are not linked, and starts over at a
failure of the hub's or the agent's own (a restart, a panic, a failed encoding).

Left out: refused tokens, several agents, the contents of the outbound queue (an envelope that
is dropped is one that the network did not carry) and the time that a dial takes to succeed.

### WebSocketClient and Dashboard

`WebSocketClient` has the chain of sockets as one variable, since each socket closes once and only
its close sets the timer that makes the next. `failures` counts closes since the last opening
and is history. `Dashboard` extends it, and implements `WsSpec`: every action of the page is an
action of the socket, or leaves it alone. A value is abstracted to the server it was measured on, which is what the
properties tell apart: `series[c]` has a sequence of servers for its labels and one for its
data, `shown[w]` is the server a group of widgets shows. `Carries` says which groups an envelope
fills in, so a server that reports less leaves the rest of the page as it was. A chart plots its
own series or a fetched range (`plotted`), and `anomalies` are the points that its markers stand for.
`asked` and `fetching` are requests whose answers come when they come. The history that the hub
answers is the local machine's whatever the tab, as in the code (storage.go:111,
cmd/server/main.go:85-98).

### ServerTabs

`registry` and `online` are the hub's; `servers` is the page's list, with its order and with the
doubles that an added server may have; `answers` are lists on their way, in any order. `hash` and
`changed` are the location and its queued event: the code assigns the hash first and gets
the event later. `cards` are drawn when the overview is shown and are not redrawn when the list
changes. `dropped` is history. The panel is `none`, `latest` or `stale` against the poller's
snapshot. `request` holds the POSTs and DELETEs under way; each, or its answer, may be lost
(`RequestFails`), in which case the hub may or may not have done it. `Refresh(FALSE)` is a lost envelope and `PollFails` a poll that fails. `Without` is the
page's `filter`, written by the ranks of the entries that stay, which a proof can follow.

### TerminalPanel

`Openings` are the clicks on Open, each with its stage: loading xterm.js, minting a session,
connecting, open, closing, closed. `current` is the opening that has the panel; `state.ws`,
`state.term` and `state.sessionId` are set and cleared together. `pending` is the global in
which `ai-chat.js` leaves a command, `timer` the 350 ms before it is typed. `Server` is one
server, because the code never changes `currentServerId` (app.js:27). `overlapped` is
history.

### Assistant

A call of a page is a record with its stage: asked, running at the hub (a chat only), answered or
failed; the page may do anything else meanwhile, and any answer may be lost. A page has one chat at
a time, as `sending` guards it, and any number of loads and deletions, as nothing guards those
(`call`). `ChatStarts` reads the conversation, `SaveConversation` writes it back with the turn, and
whatever happens to the conversation in between happens. When the read fails, for whatever reason,
the chat goes on with an empty conversation under the same id and the save overwrites what was
stored (service.go:78-83). A turn is a number and its text is left out; the tool rounds
of a chat read only. All pages belong to one user. `contested`,
`deleted` and `misread` are history.

### SignIn

The tabs share `stored`, the token in `localStorage`. A page loads, checks (`check` is where its
own script is), and goes where the answer sends it; its form is apart from the check, as users
type while it runs. Setup tests for users and creates one in two steps, as
`auth/handlers.go` does. A token is a number; `Expire`, the network and what users do are counted by
`acts`.

### Settings

`refresh` holds the refreshes under way with the call each awaits and what it was answered,
`change` the saves and deletions. `pills` is what the panel shows as set. A rendering makes new
buttons, so nothing keeps two changes from overlapping; the button and the shortcut refresh a panel
that is open as well. The answer to a change arrives or is lost after the hub has made it
(`HubChanges`), and a lost one is a toast without a refresh. `untold`, `failed` and `crossed` are
history: they say when the panel has reason to be wrong.

## Runs

| Run | Instance | States | Shows |
|---|---|---|---|
| `agent_connections` | 2 servers and the local one, 2 handlers, 1 delete request | about 266,000 | safety of the connection table, refinement of `ServerDirectory`, kicked handlers finish and status heals if browsers let the handlers go |
| `alert_engine` | 2 servers, 2 rules, 2 metrics, 4 ticks, 4 history entries, cap 2 | about 1.8 million | exact alerting, independence of servers, history |
| `terminal_sessions` | 1 session, 2 browsers, 2 agent connections, 1 PTY, queues of 1 | about 1.43 million | sessions are accounted for and end, shells die with the link |
| `browser_hub` | 2 browsers, queues of 1, 3 envelopes | about 604,000 | unbroken streams, no double close, no leaked pump |
| `agent_link` | 3 WebSocket names, 1 handler held, the code's deadlines | about 789,000 | an online agent whose handler no browser holds was heard within 60 s; with none held and a network that stays up an outage ends within 240 s |
| `dashboard` | 2 servers, an overview, 2 charts, windows of 1 and 2, histories of 3, 2 retries | about 143,000 | labels and data agree, series of a tab are its server's, the page converges, the connection returns or has used its retries |
| `server_tabs` | the local server and another, 2 polls and 2 requests in flight | about 503,000 | the chosen tab is listed, the list becomes the registry's, the panel catches up |
| `terminal_panel` | 2 openings, 2 suggestions (one for another server), 2 sizes | about 210,000 | the panel has the shell, a suggestion is typed once, sizes follow |
| `assistant` | 2 pages, 2 conversations, 3 turns, 1 load or deletion in flight | about 3.2 million | what is shown is stored, turns are stored once |
| `sign_in` | 2 tabs, 3 tokens, 5 acts | about 83,000 | the pages come to rest, every check brings its tab nearer to it |
| `settings` | 2 providers, 2 refreshes, 2 changes | about 1.9 million | the pills become true |
| `slow_consumer_panics` | that of `browser_hub` | | violated: `SlowConsumerHarmless`, websocket.go:110 |

Why the bounds are enough. Two handlers and one delete request give every order of kick,
detach and revoke: a third handler repeats what the second does to the first. Handlers'
names are used again, so a server is attached and kicked any number of times. Two browsers
on one session give the overwritten browser and the three concurrent callers of
`endSession`, with every pair of writes that can meet; sessions share nothing but the queues, and
a queue of one is full half of the time. One PTY is started, taken out and killed late, before or
after the next connection; a second one under the same ID, which the first one's pump may close, is in
`TerminalSessions_TwoShells.cfg` (1,234,345 states), which is not among the runs. A client of the browser hub meets the others only in `Relay`, and queues of one make
"full" common. In `alert_engine` a rule with a duration of one tick and an allow-list
stands beside an instant one with a cooldown of two ticks, each message may lack either
metric, and four ticks hold a trigger, a resolve and a second trigger within the cooldown.
In `agent_link` the timers end at their deadlines, and the bound is `MaxHeld`, one handler that a
browser holds. Three names are then enough: one for that handler's WebSocket, replaced or closed, one
attached at the hub and one of the agent's. The bound of 24 units is reached: with one less the
invariant fails.

In `dashboard` the remote server reports less than the local one, one chart has history and the
other has none, and the history is longer than either window, so that each of trim, push and load
meets a series that is too short, full and too long. Retries are used again after every opening.
Two polls are enough for one answer to overtake another, and two requests for a removal and an
addition, each lost or answered, to cross; a server goes and another comes under
its own card. Two openings of the terminal overlap, follow each other, or stand alone; the
suggestions are one that fits and one that does not. Two pages with two conversations and
three turns give a conversation that both chat in, a chat that outlives a deletion, and a third turn
after each; one load or deletion beside the two chats gives each its races with them; two
at once, with two turns, are in `Assistant_TwoCalls.cfg` (660,415 states), which is not among the runs. The pages are alike and so are the ids, which is why symmetry is sound there, as it
is for the refreshes and changes of `settings`: no liveness is checked in either. Two tabs are all
that a check and another's sign-in need; five acts hold a sign-in in two steps beside an expiry and
an outage.

Deadlock is checked in every run but three: `alert_engine` stops when its clock and its history are
used up, `browser_hub` when every client is done or the process has panicked, and `sign_in` is
meant to come to rest. `MaxTime`, `MaxHistory`, `MaxMessages`, `Ptys`, `MaxHeld`, `MaxAsked`, `MaxFetches`, `MaxPolls`,
`Requests`, `Openings`, `MaxTurns`, `Calls`, `MaxTokens`, `MaxActs`, `Refreshes` and `Changes` are the bounds of the models;
`HistoryCap`, `QueueCap`, `BroadcastCap`, `SendCap`, `MaxReconnectAttempts`, `SPARK_POINTS`, `Windows` and
`ANOMALY_MIN` are the code's own numbers made small. Where there is a theorem, it holds for every
value of either.

The violated property is a behaviour of the code, not of the model; `PROJECT.json` quotes the
sentence it contradicts. The type invariant of every module is proved, whether or not a run lists it;
those that no run lists were checked on the same instances before.

## Where the code departs from its text

Nine more properties state what a comment says and the code does not do. Each stands at the end
of its module, and each has a configuration that makes TLC print the trace, for example
`tlc -config TerminalSessions_OneWriter.cfg MCTerminalSessions`.

| Configuration | The text | What happens |
|---|---|---|
| `AgentConnections_HandlerClosesOwn` | connections.go:13 | a kicked handler's deferred `Detach` goes by server ID and closes the connection that replaced its own |
| `AgentConnections_LocalAlwaysOnline` | registry.go:37 | a refused `DELETE` of the local server marks it offline first, and nothing marks it online again |
| `AlertEngine_CooldownHonoured` | config.go:65 | the time of the last notification is deleted with the state, so the cooldown holds nothing back |
| `TerminalSessions_EndedShellsReleased` | terminal_proxy.go:307 | `TERMINAL_CLOSE` is given up on a full queue, or sent before the open: the shell stays |
| `TerminalSessions_OneWriter` | agent.go:93 | agent output and the closing message are written to one browser WebSocket by two goroutines |
| `AgentLink_HealthyLinkKept` | agent.go:80 | the agent's 90 s deadline is extended by data alone, which a healthy hub has no need to send: a link without terminal traffic is dropped |
| `Dashboard_ActiveServerOnly` | app.js:941 | groups of widgets that the new server does not report keep the values of the old one (app.js:464) |
| `Assistant_OnlyMissingStartsAnew` | service.go:81 | any error of the read, not only a missing row, starts an empty conversation under the same id, and the save overwrites the stored turns |
| `TerminalPanel_HintKept` | ai-chat.js:302 | the timer clears a suggestion that was never typed, or a newer one (terminal-panel.js:164-170) |

They are the reason for what the checked properties do *not* say. `OpenIsReachable` allows a
handler to close a newer connection, `StatusHeals` is the promise left after a stale `Detach`,
`AlertedIffSustained` has no cooldown in it, and `HistoryKeepsRecent` bounds what is dropped, since
nothing bounds what is kept: a trigger and its resolve add two entries and drop one at most, for all
that alerts.go:200 says "Keep history small". `OutageBounded` charges one stale `Detach` to every
reconnection, and `OnlineIsRecent` counts a pong as a sign of life, so an agent that is too slow to
send a heartbeat stays online as long as it answers pings.

What the properties of the hub except, and why:

* `KickedFinishes`, `StatusHeals`, `OnlineIsRecent` and `OutageBounded` except handlers that a browser
  holds in a write: terminal output is passed on in the agent's read loop, without a deadline
  (agent_ws.go:103, terminal_proxy.go:272), so one browser that stops reading keeps an agent shown
  online that was last heard long ago, and its handler from ending.
* `AuditMatchesSessions` and `AuditCloses` except the rows in `cut`: the panic of two writes that
  meet (terminal_proxy.go:272, :304) skips what follows in `endSession`, and nothing else ever writes
  `ended_at`. `AuditCloses` also leaves out an `endSession` that stays in its write to a browser.
* `ShellsDieWithLink` lets a shell outlive `runOnce` in the hands of a pump that took it out of the
  table and has still to kill it.
* `CacheIsTable` and `DirectorySpec` are about the registry: they do not see the connection of a
  server that was revoked between its authentication and its `Attach`, which stays open
  (v2_servers.go:88).

What the properties of the pages except, and why:

* `PanelHasTheShell` and `HintTypedOnce` except openings that overlap. A second click on Open while the
  first awaits leaves the first socket behind, open and out of reach, and types the suggestion
  into both (terminal-panel.js:95, :107); Close does not stop an opening under way; the close
  event of an old socket overwrites the status line (:190).
* `ShownIsStored` excepts conversations that were deleted, that two browsers chatted in at once or
  that could not be read: an error of the read is taken for a missing row, and
  the save then overwrites the stored turns (service.go:78-83);
  the save of a running chat brings a deleted conversation back, and of two chats that read the
  same state the second save drops the turn of the first (service.go:79-142). It says nothing of
  where the page is: an answer pulls it back to its conversation and an error lands in
  another one (ai-chat.js:95-105), and an answer that is lost shows an error though its turn is stored.
* `PillsTrue` excepts changes of which the panel was not told, because the answer was lost
  (settings-panel.js:157, :188) or another page made them, refreshes that crossed and lists that failed: the older answer may win, and a
  failure shows every provider without a key (settings-panel.js:70). A rendering wipes
  what is typed and makes a Save that can be pressed again.
* `Settles` says that pages come to rest, not where: a check that fails late removes the fresh
  token of another tab (session-check.js:36), and an error of the network removes one that is
  valid (:42). Setup requests that race create two users (auth/handlers.go:107), and a lost answer to a
  setup with 2FA leaves an account whose secret nobody saw (setup.js:93).
* `SelectionListed` excepts a server that a fetch has just taken off the list; cards are not redrawn
  after a removal (multi-server.js:199) and a server may be on the strip twice until the next poll
  (:316).
* `PointsOfTab` and `Converges` are about pushes. History and ranges are the hub's own machine's
  whatever the tab, because `currentServerId` stays `'local'` (app.js:27) and `GetAllHistory` knows no other
  (storage.go:111), for all that multi-server.js:103 and chart-enhancer.js:12 say; for the same reason
  the terminal is the local one and a suggestion for another server is never typed. A fetched
  range is overwritten by the next envelope (app.js:364-397).
* `Converges` supposes that the server goes on sending: nothing clears the page, so the tab of an
  agent that is offline keeps the values of the tab before. `Reconnects` leaves out a page that
  gave up after the last retry (websocket.js:79-84).
* `PanelCatchesUp` is a promise about the next broadcast: one between the answer to the panel's fetch
  and its subscription is missed (actions-panel.js:71).

## Fairness

Weak fairness, except where strong fairness is named, and only of what the code runs by itself.

* `AgentConnections`: a started handler or request is scheduled; a connected agent sends its
  10 s heartbeat (agent.go:214-221); a read on a closed connection fails. These last two are strong,
  as a handler is away from its read again and again while it passes output on. Nothing is assumed
  of dials, deletes or restarts, nor of a write to a browser: `KickedFinishes` and `StatusHeals`
  say of which handlers they suppose that it returns.
* `TerminalSessions`: goroutines are scheduled, the 30 s sleep ends, a read on a closed
  WebSocket fails, and so does a write to a browser that has left. A write to a browser that stays is
  not assumed to return. Browsers, shells and the link owe nothing.
* `BrowserHub`: the pumps are scheduled, `Run` serves the clients that wait (its select picks
  among ready cases at random), a write on a closed WebSocket fails. A write to an open one
  is not assumed to return: the code sets no deadline.
* `AgentLink`: goroutines are scheduled, timers fire, time passes, a write to a peer that is
  reachable returns. The network, restarts and terminal traffic owe nothing, and no end is
  assumed to see the other's close before its deadline. A writer whose session was cancelled chooses
  between that and its next message again and again, which is strong fairness of `Leave`. Writes to
  browsers owe nothing: `Reconnects` is claimed of a network that is up from some time on and
  of browsers that hold no handler again and again.
* `Dashboard`: the retry's timer fires, a hub that can be reached is reached, a connection that
  cannot be made fails. No server owes an envelope, and answers to requests for history and
  ranges are owed by nobody; `Converges` supposes that the user stays on the tab, its server goes on
  sending (`GoesOnSending`) and no history is outstanding, `Reconnects` that the hub stays reachable.
* `ServerTabs`: the page starts, hash events and answers are delivered, the interval goes on, the poller
  goes on. A poll may fail any number of times but not for ever (strong fairness of
  `AnswerPoll`). Requests to add and to remove owe no answer. Users owe nothing.
* `SignIn`: a check that was begun ends, with an answer or an error, and its redirect happens.
* `AlertEngine`, `TerminalPanel`, `Assistant` and `Settings` state no liveness: they act when a message
  arrives or a user does something, and a provider or a network may keep them waiting.

## Proofs

All theorems hold for every value of the constants that the named assumption of the module
allows (`ConnectionConstants`, `AlertConstants`, `TerminalConstants`, `HubConstants`, `LinkConstants`,
`ClientConstants`, `DashboardConstants`, `PanelConstants`, `TabsConstants`, `SettingsConstants`,
`SignInConstants`, `AssistantConstants`: names are distinct, servers are finitely many,
capacities and periods are positive, a handshake is given up before the agent's deadline, and only
`SYSTEM_METRICS` moves a gauge).

* **AgentConnections.** `TypeCorrect`. `ConnectionsSafe` (`RegisteredIsServed`,
  `OpenIsReachable`) by the inductive `ConnInv`, which adds to the two that a goroutine holds
  a victim only between unlinking and closing it: every open connection is either in `byID`,
  with its handler reading, or in the hands of the one `Detach` that unlinked it. `RegistryAgrees` (`CacheIsTable`) needs
  `RegInv`: the local row is always there, every other row was minted, and a handler past
  its lookup works for a remote server. `OnlineIsServed` adds that between `MarkOnline` and
  the last `MarkOffline` there is a handler on its way to the latter. `Refinement` maps each
  step to a step of `ServerDirectory` or a stutter, from `RegInv`: the guard in `MarkOnline`
  is what keeps a late heartbeat from being a resurrection.
* **AlertEngine.** `TypeCorrect`; `EngineCorrect`, whose strengthening relates each key's
  state to the run of bad samples: triggered if and only if a run is on, `since` its first
  sample, `notified` zero until it alerts. That last part is why the cooldown can be left
  out of `AlertedIffSustained`, and the proof shows the defect as clearly as the run does.
  `Independence` and `HistoryKept` are action properties.
* **TerminalSessions.** `TypeCorrect`; `SessionsAccounted` (`HeldHasKeeper` and
  `AuditMatchesSessions`), from an invariant that says which rows a session may have at each
  step of its reaper (`RowInv`), that at most one goroutine is past `Unlink` for a session and only when
  it is not held (`AuditInv`), and that a session without a browser is still in its reaper's hands
  (`KeeperInv`); a row that is open without either belongs to a session in `cut`.
  `NoShellLeftBehind` (`ShellsDieWithLink`) needs to know whose each PTY is (`PtyInv`): one that runs
  is being started, in the table under its session, or in the hands of one goroutine
  that will kill it; and which of these there may be at each step of `runOnce` (`ShellInv`).
* **BrowserHub.** `TypeCorrect`; `ChannelsClosedOnce` (`ClosedOnce`): a client is in or closed
  exactly when its write pump was started, and never both. `StreamsUnbroken` (`NoHoles`) adds the
  the envelopes relayed and waiting in the order of their numbers (`RelayInv`), pumps that hold a
  message only while they write (`HeldInv`), and the stream itself (`StreamInv`): what the page has
  read, what its pump holds and its queue, one after the other, carry the envelopes relayed from its
  registration up to some point, which is the last one as long as it is a client.
* **AgentLink.** `TypeCorrect`; `OnlineWasHeard` (`OnlineIsRecent`), as the silence of an agent
  that is shown online never exceeds the hub's running deadline; `ReconnectsInTime`
  (`OutageBounded`). Its invariant follows an outage through the places the ends can be in: while
  the hub has the WebSocket that the agent left, the hub's deadline runs along with the outage, and it is passed only while a browser holds the handler
  (`OverdueIsHeld`), when no outage is counted;
  while the agent has one that the hub left, the agent's does; with neither, only the sleep is
  left. A link made during the first is exposed to a stale handler once, and no later one is.

* **Dashboard.** `SeriesAreSound` (`SeriesSound`) by an invariant in parts: the socket and its counters
  (`SocketInv`), the page (`PageTyped`), the filter, which on the tab of a server is that server
  (`FilterInv`), gauges that end on their caption (`GaugeInv`), and series whose labels are their data
  and which fit their window or their history (`ChartInv`); lemmas say that a push, a trim and a load
  each keep a series sound. `OnlyPointsOfTab` (`PointsOfTab`) follows from `FilterInv`: the gate lets one
  server in. `ConnectionRefined` shows that the page implements `WsSpec`, and `RetriesAreUsed` (`GivesUpLate`)
  that the client gives up only after every retry in a row, by itself and so under the page.
* **TerminalPanel.** `PanelTypeCorrect`; `ShellIsReached` (`PanelHasTheShell`) needs that the openings that
  await together are recorded as overlapping and that the panel is an opening that was built
  (`ShellInv`); `HintOnce` (`HintTypedOnce`) that a timer runs only for a socket that was opened, and
  that what was typed is gone from the window and awaited by no other live socket (`HintInv`);
  `ShellHasSize` (`SizeFollows`) that a terminal whose observer has run has the size of the host, and
  its shell was told it if the socket is open (`SizeInv`).
* **ServerTabs.** `TabsTypeCorrect`; `TabIsListed` (`SelectionListed`) by `TabsInv`: a snapshot that the
  hub answered is still there when the page is ready, and the property itself, whose every step hangs
  on who queues a hash event and who follows one. Lemmas say what the list is after an answer, a
  `filter` and a push.
* **Settings.** `SettingsTypeCorrect`; `PillsAreKeys` (`PillsTrue`). At rest the pills are the keys because a
  rendering shows the list that came last (`BodyTrue`), refreshes that did not cross are one at most
  (`OneRefresh`), and what that one was answered, and then the panel knows, are the keys
  unless a change is done whose refresh has still to start (`KnowsKeys`), or the answer to one was
  lost (`untold`).
* **SignIn.** `SignInTypeCorrect`; `PagesComeToRest` (`RedirectsEnd`): `ChecksLeft` bounds the checks
  left to a tab by what is stored, valid and set up; each check lowers that of its tab and raises no
  other, because the only thing a check does to the other tabs is to remove the token. This is the
  argument behind `Settles`, for any number of tabs.
* **Assistant.** `TypeCorrect`; `TurnsAreOnce` (`TurnsOnce`). What is stored says too little: a chat
  holds a copy that it will write. `IdsInv` confines all ids to the minted ones, `TurnInv` keeps the turn of
  a chat apart from every other chat, every copy and everything stored, and `ApartInv` keeps
  copies of different conversations apart as it does the stored ones.
  `PagesShowTheirConversation` (`ShownIsStored`) follows the turns of a conversation that nobody deleted
  or shared (`ViewInv`): what a page shows is a prefix of what is stored (`ShownInv`), a chat at the
  hub has read what is still stored and is the only one (`RunsInv`), unless the conversation is in
  `misread`, and an answer on its way is
  the beginning of what is stored (`AnswerInv`).

Every invariant and action property of the runs is proved. Model-checked only: the liveness
properties (`KickedFinishes`, `StatusHeals`, `AuditCloses`, `PumpsEnd`, both `Reconnects`, `Converges`,
`Reconciles`, `PanelCatchesUp`, `Settles`), as the prover does not handle fairness and ENABLED. Sequences
that the code filters are said by ranks and positions (`Without`, `Stream`, `Carries`, `Shows`)
and not with the library's recursive `SelectSeq`, about which nothing can be proved without
induction over data.

## Not modelled

* The AI diagnoser and reporter: prompts built for one call. The diagnoser's budget is tested before
  the call and charged after it, and the day is swapped in a step of its own (diagnose.go:102, :226);
  no text says by how much the cap may be passed.
* The provider clients, the notifier, mail and the GitHub client: one request each, to a service
  outside. Notifications of one alert are sent by a goroutine each and may arrive out of order
  (alerts.go:208).
* Metric storage: sequential SQL. An import that crashes between commit and rename is repeated at
  the next start (storage.go:208).
* The user store: a map and a file. Handlers change a user they share outside the lock
  (auth/user.go:172).
* Monitors, the runner probe, configuration, vault, routing and install scripts: readings,
  parsing and formatting, with no state that two actors share.
* Theme, toast, service worker and `utils/charts.js`: one class on the body, whose button two scripts
  toggle (theme.js:48, app.js:962); one element per diagnosis; a cache of static files; a class that
  nothing imports.
* Of the dashboard: tables and modals, which show the last envelope of their type, and the buttons of
  services and processes. Of the pages in general: markup, wording and layout. The listeners
  for `PM2_METRICS`, `RUNNER_STATUS` and `COMMAND_RESULT` are never called: nothing that the hub sends
  matches them.
* Restarts of the hub at any moment are in `AgentConnections` and `AgentLink`. In `TerminalSessions` the hub
  restarts when a reaper panics: it forgets its sessions and leaves their audit rows open, which no
  code repairs (terminal_proxy.go:93).

## What is left

A `Diagnoser` with concurrent calls and the bound of its overshoot; the user store with failing
saves; import and prune with crashes between their steps; a composition of `AlertEngine` with
`BrowserHub` and `Dashboard` that follows an alert from the sample to the page. For proofs: a rank
like `ChecksLeft` for the other liveness properties, as far as they rest on a chain of steps that
cannot be prolonged: `KickedFinishes`, `AuditCloses` and `PumpsEnd`.

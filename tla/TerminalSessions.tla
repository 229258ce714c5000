-------------------------- MODULE TerminalSessions --------------------------
(***************************************************************************)
(* A browser terminal on one server: the hub's TerminalProxy               *)
(* (hub/terminal_proxy.go), the agent's terminalManager                    *)
(* (agent/terminal_manager.go, agent/terminal/pty_unix.go) and the link    *)
(* between them.  A session ID names its entry in the proxy, its audit row *)
(* and its entry in the manager's table; a session may get several PTYs.   *)
(*                                                                         *)
(* On the hub, the reaper goroutine of a session, the /ws/terminal handler *)
(* of a browser and the read loop of the agent connection may each run     *)
(* endSession; a WebSocket write begins in one step and ends in a later    *)
(* one, as it may block.  gorilla/websocket panics when it meets two       *)
(* writes on one connection: net/http recovers the panic of a handler, a   *)
(* reaper's ends the hub.  The two ends of the link notice that it broke   *)
(* independently.  SQLite statements are taken to succeed.                 *)
(*                                                                         *)
(* On the agent, runOnce handles what the hub sends and, when the          *)
(* connection is gone, closes all shells; the pump of each PTY closes its  *)
(* session's shell when a read fails.  A close takes the entry out under   *)
(* the lock and kills outside it.                                          *)
(***************************************************************************)
EXTENDS Naturals, Sequences, FiniteSets

CONSTANTS
  Ids,        \* session IDs that generateSessionID returns
  Browsers,   \* /ws/terminal requests, each with its WebSocket
  Loops,      \* read loops of agent connections (AgentWSHandler)
  NoBrowser,  \* sess.browser == nil
  NoId,       \* works for no session
  NoLoop,     \* no agent connection attached
  Ptys,       \* bound: the PTYs that the agent starts
  NoPty,      \* none of them
  RunOnce,    \* the agent's goroutine that reads and calls CloseAll
  QueueCap    \* bound of both queues: 32 envelopes in the hub, 64 in the agent

ASSUME TerminalConstants ==
  /\ Ids \cap Browsers = {} /\ Ids \cap Loops = {} /\ Browsers \cap Loops = {}
  /\ NoBrowser \notin Browsers
  /\ NoId \notin Ids
  /\ NoLoop \notin Loops
  /\ NoPty \notin Ptys /\ RunOnce \notin Ptys
  /\ QueueCap \in Nat \ {0}

\* The reaper of session s goes by the name s.
Procs == Ids \cup Browsers \cup Loops

\* The pump of a PTY goes by the name of the PTY.
Closers == Ptys \cup {RunOnce}

VARIABLES
  held,     \* TerminalProxy.sessions
  row,      \* terminal_sessions: "none", "open" (ended_at is NULL), "ended"
  browser,  \* terminalSession.browser
  open,     \* browser WebSockets that are open
  pc,       \* where each hub goroutine stands
  job,      \* the session it works on
  target,   \* the browser WebSocket it is writing to
  met,      \* goroutines whose write overlaps one that has ended meanwhile
  cut,      \* history: sessions whose end a panic cut short
  reader,   \* the read loop of the attached agent connection
  live,     \* that connection still reaches the agent
  toAgent,  \* envelopes on their way to the agent
  toHub,    \* envelopes on their way to the hub
  agent,    \* the agent's runOnce: "connected", "closing" (CloseAll), "down"
  table,    \* terminalManager.sessions: session -> PTY
  of,       \* PTY -> the session it was started for
  shells,   \* PTYs whose shell runs
  starting, \* the PTY that open has started and not yet put in the table
  pump,     \* PTY -> its pumpOutput: "none", "reading", "done", or "killing" the
            \* shell it took out of the table, "late" when runOnce has returned
  hand      \* closer -> the PTY that it took out of the table and will kill

hubVars == <<held, row, browser, open, pc, job, target, met, cut>>
linkVars == <<reader, live, agent>>
agentVars == <<table, of, shells, starting, pump, hand>>
vars == <<held, row, browser, open, pc, job, target, met, cut, reader, live, toAgent,
          toHub, agent, table, of, shells, starting, pump, hand>>

Ending == {"unlinking", "capturing", "notifying", "releasing"}

Init ==
  /\ held = {}
  /\ row = [s \in Ids |-> "none"]
  /\ browser = [s \in Ids |-> NoBrowser]
  /\ open = {}
  /\ pc = [p \in Procs |-> "idle"]
  /\ job = [p \in Procs |-> IF p \in Ids THEN p ELSE NoId]
  /\ target = [p \in Procs |-> NoBrowser]
  /\ met = {} /\ cut = {}
  /\ reader = NoLoop
  /\ live = FALSE
  /\ toAgent = <<>>
  /\ toHub = <<>>
  /\ agent = "down"
  /\ table = [s \in Ids |-> NoPty]
  /\ of = [y \in Ptys |-> NoId]
  /\ shells = {}
  /\ starting = NoPty
  /\ pump = [y \in Ptys |-> "none"]
  /\ hand = [c \in Closers |-> NoPty]

Goto(p, step) == pc' = [pc EXCEPT ![p] = step]

Msg(kind, s) == [kind |-> kind, id |-> s]

\* Connections.SendTo: false without a connection, lost when the connection is
\* dead, given up after 2 s on a full queue.
SendTo(kind, s) ==
  toAgent' = IF live /\ Len(toAgent) < QueueCap
             THEN Append(toAgent, Msg(kind, s)) ELSE toAgent

\* termSend: a full outbound queue drops the envelope, and so does a dead link.
Send(kind, s) ==
  toHub' = IF live /\ Len(toHub) < QueueCap
           THEN Append(toHub, Msg(kind, s)) ELSE toHub

-----------------------------------------------------------------------------
(* The hub: minting and reaping. *)

\* Mint's IsConnected.
CheckConnected(s) ==
  /\ pc[s] = "idle" /\ row[s] = "none"
  /\ reader # NoLoop
  /\ Goto(s, "minting")
  /\ UNCHANGED <<held, row, browser, open, job, target, met, cut, linkVars, toAgent, toHub, agentVars>>

\* The entry, the start row, and the 30 s grace period begins.
Mint(s) ==
  /\ pc[s] = "minting"
  /\ held' = held \cup {s}
  /\ row' = [row EXCEPT ![s] = "open"]
  /\ Goto(s, "armed")
  /\ UNCHANGED <<browser, open, job, target, met, cut, linkVars, toAgent, toHub, agentVars>>

\* Mutant: the test of s.browser is inverted.
ReapInverted(s) ==
  /\ pc[s] = "armed"
  /\ Goto(s, IF s \in held /\ browser[s] # NoBrowser THEN "unlinking" ELSE "done")
  /\ UNCHANGED <<held, row, browser, open, job, target, met, cut, linkVars, toAgent, toHub, agentVars>>

\* The grace period is over: a session that no browser opened is ended.
Reap(s) ==
  /\ pc[s] = "armed"
  /\ Goto(s, IF s \in held /\ browser[s] = NoBrowser THEN "unlinking" ELSE "done")
  /\ UNCHANGED <<held, row, browser, open, job, target, met, cut, linkVars, toAgent, toHub, agentVars>>

-----------------------------------------------------------------------------
(* The hub: the browser's handler. *)

\* A caller of role operator or admin who minted the session (any other one is
\* refused here), and the session is found.
FindSession(b, s) ==
  /\ pc[b] = "idle"
  /\ s \in held
  /\ job' = [job EXCEPT ![b] = s]
  /\ Goto(b, "found")
  /\ UNCHANGED <<held, row, browser, open, target, met, cut, linkVars, toAgent, toHub, agentVars>>

\* The upgrade fails, and the handler returns.
UpgradeFails(b) ==
  /\ pc[b] = "found"
  /\ Goto(b, "done")
  /\ UNCHANGED <<held, row, browser, open, job, target, met, cut, linkVars, toAgent, toHub, agentVars>>

\* The upgrade succeeds and the session takes this browser, whatever became of
\* the session since it was found and whichever browser it had.
AttachBrowser(b) ==
  /\ pc[b] = "found"
  /\ browser' = [browser EXCEPT ![job[b]] = b]
  /\ open' = open \cup {b}
  /\ Goto(b, "opening")
  /\ UNCHANGED <<held, row, job, target, met, cut, linkVars, toAgent, toHub, agentVars>>

\* TERMINAL_OPEN.
RequestShell(b) ==
  /\ pc[b] = "opening"
  /\ SendTo("OPEN", job[b])
  /\ Goto(b, "pumping")
  /\ UNCHANGED <<held, row, browser, open, job, target, met, cut, linkVars, toHub, agentVars>>

\* pumpBrowser forwards an input or a resize.
Input(b) ==
  /\ pc[b] = "pumping" /\ b \in open
  /\ SendTo("DATA", job[b])
  /\ UNCHANGED <<hubVars, linkVars, toHub, agentVars>>

\* The browser leaves.
BrowserLeaves(b) ==
  /\ b \in open
  /\ open' = open \ {b}
  /\ UNCHANGED <<held, row, browser, pc, job, target, met, cut, linkVars, toAgent, toHub, agentVars>>

\* Mutant: pumpBrowser does not defer endSession.
ReadFailsNoDefer(b) ==
  /\ pc[b] = "pumping" /\ b \notin open
  /\ Goto(b, "done")
  /\ UNCHANGED <<held, row, browser, open, job, target, met, cut, linkVars, toAgent, toHub, agentVars>>

\* ReadMessage fails, and the deferred endSession runs.
ReadFails(b) ==
  /\ pc[b] = "pumping" /\ b \notin open
  /\ Goto(b, "unlinking")
  /\ UNCHANGED <<held, row, browser, open, job, target, met, cut, linkVars, toAgent, toHub, agentVars>>

-----------------------------------------------------------------------------
(* The hub: endSession, run by a reaper, a handler or a read loop. *)

\* What a goroutine does when endSession returns.
After(p) == IF p \in Loops THEN "idle" ELSE "done"

\* Mutant: a goroutine that finds no entry goes on.
UnlinkUnchecked(p) ==
  /\ pc[p] = "unlinking"
  /\ held' = held \ {job[p]}
  /\ Goto(p, "capturing")
  /\ UNCHANGED <<row, browser, open, job, target, met, cut, linkVars, toAgent, toHub, agentVars>>

\* Under t.mu: the entry goes, and only the goroutine that removed it goes on.
Unlink(p) ==
  /\ pc[p] = "unlinking"
  /\ held' = held \ {job[p]}
  /\ Goto(p, IF job[p] \in held THEN "capturing" ELSE After(p))
  /\ UNCHANGED <<row, browser, open, job, target, met, cut, linkVars, toAgent, toHub, agentVars>>

\* Under sess.mu: the browser to tell, if the session has one; the write of the
\* "closed" message begins.
Capture(p) ==
  /\ pc[p] = "capturing"
  /\ target' = [target EXCEPT ![p] = browser[job[p]]]
  /\ Goto(p, "notifying")
  /\ UNCHANGED <<held, row, browser, open, job, met, cut, linkVars, toAgent, toHub, agentVars>>

\* The write of goroutine p ends; the others that write to the same WebSocket
\* have met it.
EndWrite(p) ==
  /\ target' = [target EXCEPT ![p] = NoBrowser]
  /\ met' = (met \cup {q \in Procs : target[q] # NoBrowser /\ target[q] = target[p]}) \ {p}

\* It ended, and the browser's WebSocket is closed.
CloseBrowser(p) ==
  /\ pc[p] = "notifying"
  /\ open' = open \ {target[p]}
  /\ EndWrite(p)
  /\ Goto(p, "releasing")
  /\ UNCHANGED <<held, row, browser, job, cut, linkVars, toAgent, toHub, agentVars>>

\* TERMINAL_CLOSE, then the end of the audit row.
Release(p) ==
  /\ pc[p] = "releasing"
  /\ SendTo("CLOSE", job[p])
  /\ row' = [row EXCEPT ![job[p]] = "ended"]
  /\ Goto(p, After(p))
  /\ UNCHANGED <<held, browser, open, job, target, met, cut, linkVars, toHub, agentVars>>

-----------------------------------------------------------------------------
(* The hub: DeliverFromAgent. *)

Take(l, kind) ==
  /\ reader = l /\ live
  /\ pc[l] = "idle"
  /\ toHub # <<>> /\ Head(toHub).kind = kind
  /\ toHub' = Tail(toHub)
  /\ job' = [job EXCEPT ![l] = Head(toHub).id]

\* TERMINAL_OUTPUT of a session that is held and has a browser: the write to
\* the browser begins.
DeliverOutput(l) ==
  /\ Take(l, "OUT")
  /\ LET s == Head(toHub).id IN
       IF s \in held /\ browser[s] # NoBrowser
       THEN Goto(l, "delivering") /\ target' = [target EXCEPT ![l] = browser[s]]
       ELSE UNCHANGED <<pc, target>>
  /\ UNCHANGED <<held, row, browser, open, met, cut, linkVars, toAgent, agentVars>>

\* The write ends, with or without an error.
OutputWritten(l) ==
  /\ pc[l] = "delivering"
  /\ EndWrite(l)
  /\ Goto(l, "idle")
  /\ UNCHANGED <<held, row, browser, open, job, cut, linkVars, toAgent, toHub, agentVars>>

\* TERMINAL_EXIT.
DeliverExit(l) ==
  /\ Take(l, "EXIT")
  /\ Goto(l, "unlinking")
  /\ UNCHANGED <<held, row, browser, open, target, met, cut, linkVars, toAgent, agentVars>>

-----------------------------------------------------------------------------
(* The link. *)

\* The agent dials and the hub attaches the new connection, in the place of a
\* dead one it may still have.
Connect(l) ==
  /\ agent = "down"
  /\ pc[l] = "idle" /\ reader # l
  /\ agent' = "connected"
  /\ live' = TRUE
  /\ reader' = l
  /\ toAgent' = <<>> /\ toHub' = <<>>
  /\ UNCHANGED <<hubVars, agentVars>>

\* The connection dies with everything on it; the agent's read fails.
LinkBreaks ==
  /\ live
  /\ live' = FALSE
  /\ toAgent' = <<>> /\ toHub' = <<>>
  /\ agent' = "closing"
  /\ UNCHANGED <<hubVars, reader, agentVars>>

\* The hub's read fails and a Detach follows; the proxy is not told.
HubDetaches ==
  /\ reader # NoLoop /\ ~live
  /\ reader' = NoLoop
  /\ UNCHANGED <<hubVars, live, agent, toAgent, toHub, agentVars>>

-----------------------------------------------------------------------------
(* "concurrent write to websocket connection". *)

\* A write that finds another on its WebSocket, at its start or at its end, may
\* panic; WriteMessage's test of it is itself a race.
MayPanic(p) ==
  /\ pc[p] \in {"delivering", "notifying"} /\ target[p] # NoBrowser
  /\ p \in met \/ \E q \in Procs \ {p} : target[q] = target[p]

\* The session that goroutine p was ending stays as it is.
CutShort(p) == cut' = IF pc[p] = "notifying" THEN cut \cup {job[p]} ELSE cut

Unwind(p, step) ==
  /\ target' = [target EXCEPT ![p] = NoBrowser]
  /\ met' = met \ {p}
  /\ CutShort(p)
  /\ Goto(p, step)

\* net/http recovers a handler; the WebSocket, hijacked, stays open.
HandlerPanics(b) ==
  /\ MayPanic(b)
  /\ Unwind(b, "done")
  /\ UNCHANGED <<held, row, browser, open, job, linkVars, toAgent, toHub, agentVars>>

\* The read loop's deferred Detach takes away whichever connection is attached.
LoopPanics(l) ==
  /\ MayPanic(l)
  /\ Unwind(l, "idle")
  /\ reader' = NoLoop
  /\ live' = FALSE
  /\ toAgent' = <<>> /\ toHub' = <<>>
  /\ agent' = IF live THEN "closing" ELSE agent
  /\ UNCHANGED <<held, row, browser, open, job, agentVars>>

\* Nobody recovers a reaper: the hub ends with every goroutine and connection,
\* and starts again with the rows that it left.
ReaperPanics(s) ==
  /\ MayPanic(s)
  /\ held' = {}
  /\ browser' = [t \in Ids |-> NoBrowser]
  /\ open' = {}
  /\ pc' = [p \in Procs |-> IF \/ p \in Loops
                               \/ p \in Ids /\ row[p] = "none"
                               \/ p \in Browsers /\ pc[p] = "idle"
                            THEN "idle" ELSE "done"]
  /\ target' = [p \in Procs |-> NoBrowser]
  /\ met' = {}
  /\ cut' = cut \cup {t \in Ids : row[t] = "open"}
  /\ reader' = NoLoop
  /\ live' = FALSE
  /\ toAgent' = <<>> /\ toHub' = <<>>
  /\ agent' = IF live THEN "closing" ELSE agent
  /\ UNCHANGED <<row, job, agentVars>>

-----------------------------------------------------------------------------
(* The agent. *)

\* runOnce is between two envelopes.
Reading == starting = NoPty /\ hand[RunOnce] = NoPty

Receive(kind, s) ==
  /\ agent = "connected" /\ Reading
  /\ toAgent # <<>> /\ Head(toAgent) = Msg(kind, s)
  /\ toAgent' = Tail(toAgent)

\* NewSession: a shell on a PTY of its own.
Spawn(s) ==
  LET y == CHOOSE z \in Ptys : of[z] = NoId
  IN  /\ \E z \in Ptys : of[z] = NoId
      /\ of' = [of EXCEPT ![y] = s]
      /\ shells' = shells \cup {y}
      /\ starting' = y

\* open: nothing for an ID it has; otherwise a shell, which is not in the table.
OpenShell(s) ==
  /\ Receive("OPEN", s)
  /\ IF table[s] # NoPty THEN UNCHANGED <<of, shells, starting>> ELSE Spawn(s)
  /\ UNCHANGED <<hubVars, linkVars, toHub, table, pump, hand>>

\* The entry is made, and the pump of the PTY starts.
EnterShell ==
  /\ starting # NoPty
  /\ table' = [table EXCEPT ![of[starting]] = starting]
  /\ pump' = [pump EXCEPT ![starting] = "reading"]
  /\ starting' = NoPty
  /\ UNCHANGED <<hubVars, linkVars, toAgent, toHub, of, shells, hand>>

\* open fails: terminals disabled, running as root, no shell.
OpenFails(s) ==
  /\ Receive("OPEN", s)
  /\ table[s] = NoPty
  /\ Send("EXIT", s)
  /\ UNCHANGED <<hubVars, linkVars, agentVars>>

\* input and resize change nothing the model keeps.
TakeInput(s) ==
  /\ Receive("DATA", s)
  /\ UNCHANGED <<hubVars, linkVars, toHub, agentVars>>

\* close, under m.mu: the entry, if there is one, goes.
TakeOut(c, s) ==
  /\ table' = [table EXCEPT ![s] = NoPty]
  /\ hand' = [hand EXCEPT ![c] = table[s]]

\* Mutant: the agent answers with the envelope the hub sent.
KillEchoed(c) ==
  /\ hand[c] # NoPty
  /\ hand' = [hand EXCEPT ![c] = NoPty]
  /\ shells' = shells \ {hand[c]}
  /\ pump' = IF c \in Ptys THEN [pump EXCEPT ![c] = "done"] ELSE pump
  /\ IF c \in Ptys /\ pump[c] = "late" THEN UNCHANGED toHub ELSE Send("CLOSE", of[hand[c]])
  /\ UNCHANGED <<hubVars, linkVars, toAgent, table, of, starting>>

\* close, outside m.mu: the shell of the entry is killed, and its end reported
\* on the connection that the caller works for.
Kill(c) ==
  /\ hand[c] # NoPty
  /\ hand' = [hand EXCEPT ![c] = NoPty]
  /\ shells' = shells \ {hand[c]}
  /\ pump' = IF c \in Ptys THEN [pump EXCEPT ![c] = "done"] ELSE pump
  /\ IF c \in Ptys /\ pump[c] = "late" THEN UNCHANGED toHub ELSE Send("EXIT", of[hand[c]])
  /\ UNCHANGED <<hubVars, linkVars, toAgent, table, of, starting>>

CloseShell(s) ==
  /\ Receive("CLOSE", s)
  /\ TakeOut(RunOnce, s)
  /\ UNCHANGED <<hubVars, linkVars, toHub, of, shells, starting, pump>>

\* pumpOutput: a chunk of output.
ShellWrites(y) ==
  /\ pump[y] = "reading"
  /\ Send("OUT", of[y])
  /\ UNCHANGED <<hubVars, linkVars, toAgent, agentVars>>

\* The shell exits on its own.
ShellExits(y) ==
  /\ y \in shells
  /\ shells' = shells \ {y}
  /\ UNCHANGED <<hubVars, linkVars, toAgent, toHub, table, of, starting, pump, hand>>

\* A read fails, most often because the shell has ended: the pump closes the
\* session, whichever PTY has its entry by then.
PumpEnds(y) ==
  /\ pump[y] = "reading"
  /\ TakeOut(y, of[y])
  /\ pump' = [pump EXCEPT ![y] = IF table[of[y]] # NoPty THEN "killing" ELSE "done"]
  /\ UNCHANGED <<hubVars, linkVars, toAgent, toHub, of, shells, starting>>

\* runOnce's deferred CloseAll, one session at a time.
CloseAll(s) ==
  /\ agent = "closing" /\ Reading
  /\ table[s] # NoPty
  /\ TakeOut(RunOnce, s)
  /\ UNCHANGED <<hubVars, linkVars, toAgent, toHub, of, shells, starting, pump>>

\* The pumps that outlive their runOnce have the manager and the queue of a
\* connection that is gone: a close finds nothing there.
OutliveRunOnce ==
  pump' = [y \in Ptys |-> IF pump[y] = "reading" THEN "done"
                         ELSE IF pump[y] = "killing" THEN "late" ELSE pump[y]]

\* Mutant: runOnce does not defer CloseAll.
RunOnceReturnsAtOnce ==
  /\ agent = "closing" /\ Reading
  /\ agent' = "down"
  /\ OutliveRunOnce
  /\ UNCHANGED <<hubVars, reader, live, toAgent, toHub, table, of, shells, starting, hand>>

\* runOnce returns, and the agent sleeps before it dials again.
RunOnceReturns ==
  /\ agent = "closing" /\ Reading
  /\ \A s \in Ids : table[s] = NoPty
  /\ agent' = "down"
  /\ OutliveRunOnce
  /\ UNCHANGED <<hubVars, reader, live, toAgent, toHub, table, of, shells, starting, hand>>

-----------------------------------------------------------------------------
ReaperNext(s) == CheckConnected(s) \/ Mint(s) \/ Reap(s)

HandlerNext(b) ==
  \/ \E s \in Ids : FindSession(b, s)
  \/ UpgradeFails(b) \/ AttachBrowser(b)
  \/ RequestShell(b)
  \/ Input(b) \/ BrowserLeaves(b) \/ ReadFails(b)

EndNext(p) == Unlink(p) \/ Capture(p) \/ CloseBrowser(p) \/ Release(p)

LoopNext(l) ==
  \/ DeliverOutput(l) \/ OutputWritten(l) \/ DeliverExit(l)
  \/ Connect(l)

PanicNext ==
  \/ \E b \in Browsers : HandlerPanics(b)
  \/ \E l \in Loops : LoopPanics(l)
  \/ \E s \in Ids : ReaperPanics(s)

LinkNext == LinkBreaks \/ HubDetaches

SessionNext(s) ==
  \/ OpenShell(s) \/ OpenFails(s)
  \/ TakeInput(s)
  \/ CloseShell(s) \/ CloseAll(s)

PtyNext(y) == ShellWrites(y) \/ ShellExits(y) \/ PumpEnds(y)

AgentNext ==
  \/ \E s \in Ids : SessionNext(s)
  \/ \E y \in Ptys : PtyNext(y)
  \/ \E c \in Closers : Kill(c)
  \/ EnterShell
  \/ RunOnceReturns

Next ==
  \/ \E s \in Ids : ReaperNext(s)
  \/ \E b \in Browsers : HandlerNext(b)
  \/ \E p \in Procs : EndNext(p)
  \/ \E l \in Loops : LoopNext(l)
  \/ LinkNext
  \/ PanicNext
  \/ AgentNext

\* Goroutines of the hub are scheduled, a 30 s sleep ends, and a read or a write
\* on a WebSocket that is closed returns.  Nothing is assumed of browsers, whose
\* writes have no deadline, of the link, or of the agent.
Fairness ==
  /\ \A s \in Ids : WF_vars(Mint(s) \/ Reap(s))
  /\ \A b \in Browsers :
       WF_vars(UpgradeFails(b) \/ AttachBrowser(b) \/ RequestShell(b) \/ ReadFails(b))
  /\ \A p \in Procs :
       /\ WF_vars(Unlink(p) \/ Capture(p) \/ Release(p))
       /\ WF_vars(CloseBrowser(p) /\ target[p] \notin open)

Spec == Init /\ [][Next]_vars
FairSpec == Spec /\ Fairness

-----------------------------------------------------------------------------
(* Properties. *)

\* Type invariant: the proxy's sessions, its goroutines, the link and the agent.
TypeOK ==
  /\ held \subseteq Ids
  /\ row \in [Ids -> {"none", "open", "ended"}]
  /\ browser \in [Ids -> Browsers \cup {NoBrowser}]
  /\ open \subseteq Browsers
  /\ pc \in [Procs -> {"idle", "minting", "armed", "found", "opening", "pumping",
                       "delivering", "done"} \cup Ending]
  /\ job \in [Procs -> Ids \cup {NoId}]
  /\ target \in [Procs -> Browsers \cup {NoBrowser}]
  /\ reader \in Loops \cup {NoLoop}
  /\ live \in BOOLEAN
  /\ toAgent \in Seq([kind : {"OPEN", "DATA", "CLOSE"}, id : Ids])
  /\ toHub \in Seq([kind : {"OUT", "EXIT"}, id : Ids])
  /\ agent \in {"connected", "closing", "down"}
  /\ met \subseteq Procs /\ cut \subseteq Ids
  /\ table \in [Ids -> Ptys \cup {NoPty}]
  /\ of \in [Ptys -> Ids \cup {NoId}]
  /\ shells \subseteq Ptys
  /\ starting \in Ptys \cup {NoPty}
  /\ pump \in [Ptys -> {"none", "reading", "killing", "late", "done"}]
  /\ hand \in [Closers -> Ptys \cup {NoPty}]

\* Someone always answers for a session: one that is held is still in its grace
\* period, or a browser handler that will end it has it, or a goroutine is about
\* to end it.  The reaper reads s.browser without the session's lock
\* (terminal_proxy.go:109) and may leave a session to a handler.
HeldHasKeeper ==
  \A s \in held : \E p \in Procs :
    job[p] = s /\ pc[p] \in {"armed", "opening", "pumping", "unlinking"}

\* The audit log tells the truth: a row lacks its end exactly while the session
\* is held or one goroutine is ending it, or when a panic has cut its end short.
\* endSession may be entered by the reaper, a handler and the read loop at once;
\* one of them writes the end.
AuditMatchesSessions ==
  /\ \A s \in Ids : row[s] = "open" <=>
       \/ s \in held \/ s \in cut
       \/ \E p \in Procs : job[p] = s /\ pc[p] \in Ending \ {"unlinking"}
  /\ \A p, q \in Procs :
       /\ pc[p] \in Ending \ {"unlinking"} /\ pc[q] \in Ending \ {"unlinking"}
       /\ job[p] = job[q]
       => p = q /\ job[p] \notin held \cup cut

\* "so we don't orphan PTY processes when the hub WS drops"
\* (terminal_manager.go:73): a shell that runs is in the manager's table, or
\* open is about to put it there, or a close that took it out is about to kill
\* it.  An agent between two connections has an empty table, and only a pump's
\* close that CloseAll could not see may still have to kill a shell.
ShellsDieWithLink ==
  /\ \A y \in shells : \/ table[of[y]] = y
                       \/ starting = y
                       \/ \E c \in Closers : hand[c] = y
  /\ agent = "down" =>
       /\ \A s \in Ids : table[s] = NoPty
       /\ \A y \in shells : \E z \in Ptys : hand[z] = y /\ pump[z] = "late"

\* Every minted session ends: its row is closed, unless a browser stays on it,
\* endSession is left in a write to a browser that stays, or a panic cut the end
\* short.  Neither a lost TERMINAL_EXIT nor an agent that went away changes that.
AuditCloses ==
  \A s \in Ids :
    row[s] = "open" ~>
      \/ row[s] = "ended" \/ s \in cut
      \/ \E b \in open : job[b] = s /\ pc[b] = "pumping"
      \/ \E p \in Procs : job[p] = s /\ pc[p] = "notifying" /\ target[p] \in open

\* What the comment at terminal_proxy.go:307 says of TERMINAL_CLOSE: "Tell the
\* agent to release its PTY".  Once a session has ended and every envelope on a
\* live link has been handled, none of its shells runs.
EndedShellsReleased ==
  \A s \in Ids :
    /\ row[s] = "ended" /\ live
    /\ \A i \in DOMAIN toAgent : toAgent[i].id # s
    /\ \A p \in Procs : job[p] = s => pc[p] \in {"idle", "armed", "pumping", "done"}
    /\ starting = NoPty /\ \A c \in Closers : hand[c] = NoPty
    => \A y \in shells : of[y] # s

\* "gorilla/websocket connections are not safe for concurrent writes"
\* (agent.go:93): no two goroutines write to one browser at a time.
OneWriter ==
  \A p, q \in Procs : target[p] # NoBrowser /\ target[p] = target[q] => p = q
=============================================================================

------------------------------ MODULE AgentLink ------------------------------
(***************************************************************************)
(* Both ends of the WebSocket between one agent and the hub, in time:      *)
(* the agent's reconnect loop, writer, heartbeat and read loop             *)
(* (agent/agent.go), the hub's handler with its read deadline              *)
(* (hub/agent_ws.go), and Attach, Detach and the ping of the write pump    *)
(* (hub/connections.go), whose interleavings AgentConnections studies; an  *)
(* Attach or a Detach is one step here.                                    *)
(*                                                                         *)
(* Time is counted in units of ten seconds.  A deadline that has passed, a *)
(* timer that has fired and a goroutine that can run go before the next    *)
(* unit.  The network tells nobody anything: that the other end has gone   *)
(* may be noticed at once, late, or only by the deadline.                  *)
(*                                                                         *)
(* The hub's handler is not always in Read: it passes an agent's terminal  *)
(* output on to a browser itself, in a write without a deadline            *)
(* (hub/terminal_proxy.go).  As long as that write lasts, the handler      *)
(* reads nothing, its read deadline fires nowhere, and closing its         *)
(* WebSocket does not wake it.                                             *)
(***************************************************************************)
EXTENDS Integers, FiniteSets

CONSTANTS
  Conns,             \* names for WebSockets, used again when they are free
  None,              \* no WebSocket
  HeartbeatEvery,    \* 10 s
  PingEvery,         \* 20 s
  HubDeadline,       \* 60 s
  AgentDeadline,     \* 90 s
  HandshakeTimeout,  \* 10 s
  InitialBackoff,    \* 1 s, a whole unit here
  MaxBackoff,        \* 60 s
  MaxHeld            \* bound: handlers that browsers hold in a write at once

ASSUME LinkConstants ==
  /\ None \notin Conns
  /\ {HeartbeatEvery, PingEvery, HubDeadline, AgentDeadline, InitialBackoff} \subseteq Nat \ {0}
  /\ HandshakeTimeout \in 0 .. AgentDeadline
  /\ MaxBackoff \in Nat /\ InitialBackoff <= MaxBackoff
  /\ MaxHeld \in Nat

VARIABLES
  net,         \* "up", or "down": neither end reaches the other
  mine,        \* the agent's WebSocket, or None between two runs of runOnce
  reader,      \* the agent's read loop: "reading", or "ended" and waiting for the writer
  writer,      \* the agent's writer: "running", "blocked" in a write, or "gone"
  agentQuiet,  \* time since the agent's read deadline was set
  sinceBeat,   \* time since the last heartbeat
  backoff,     \* Run's backoff
  wait,        \* what is left of Run's sleep
  attached,    \* the WebSocket under the agent's ID in byID, or None
  closing,     \* WebSockets closed by the hub whose handlers have not returned
  relaying,    \* WebSockets whose handlers are in a write to a browser
  backlog,     \* whether something came in on `attached` since its handler went into one
  hubQuiet,    \* time since the hub's read deadline was set
  sincePing,   \* time since the write pump's last ping
  shown,       \* the registry's status of the agent
  silence,     \* history: time since a handler last read anything of the agent's, counted
               \* up to one unit past the hub's deadline
  outage       \* history: how long the network has been up, no browser held a handler, and
               \* the two were not linked

agentVars == <<mine, reader, writer, agentQuiet, sinceBeat>>
retryVars == <<backoff, wait>>
hubVars == <<attached, closing, relaying, backlog, shown>>
timers == <<hubQuiet, sincePing, silence>>
vars == <<net, agentVars, retryVars, hubVars, timers, outage>>

\* The longest that Run sleeps, and the longest from one dial to the next.
LongestSleep == MaxBackoff + MaxBackoff \div 2
MaxWait == HandshakeTimeout + LongestSleep

Init ==
  /\ net = "up"
  /\ mine = None /\ reader = "ended" /\ writer = "gone"
  /\ agentQuiet = 0 /\ sinceBeat = 0
  /\ backoff = InitialBackoff /\ wait = 0
  /\ attached = None /\ closing = {} /\ shown = "offline"
  /\ relaying = {} /\ backlog = FALSE
  /\ hubQuiet = 0 /\ sincePing = 0 /\ silence = 0
  /\ outage = 0

\* Both ends hold the same WebSocket, and neither has closed it.
Linked == mine # None /\ attached = mine /\ attached \notin closing

\* What one end writes reaches the other.
Carries == net = "up" /\ Linked

\* A browser holds the handler of the agent's WebSocket: what the agent writes stays in
\* the buffers.
Held == attached \in relaying

\* Mutant: no read deadline at the agent.
NeverExpires == FALSE

AgentExpired == agentQuiet >= AgentDeadline

HubExpired == hubQuiet >= HubDeadline

-----------------------------------------------------------------------------
(* The agent's reconnect loop. *)

\* Mutant: the cap is forgotten.
DoubledUncapped(b) == 2 * b

\* The backoff after a session: doubled up to the cap.
Doubled(b) == IF b < MaxBackoff /\ 2 * b < MaxBackoff THEN 2 * b ELSE MaxBackoff

\* Run sleeps for the backoff and up to half of it again.
Sleep ==
  /\ \E jitter \in 0 .. backoff \div 2 : wait' = backoff + jitter
  /\ backoff' = Doubled(backoff)

\* The dial succeeds, the hub attaches the new WebSocket and closes the one it had.
Dial(c) ==
  /\ net = "up" /\ mine = None /\ wait = 0
  /\ c \notin closing \cup relaying \cup {attached}
  /\ mine' = c /\ reader' = "reading" /\ writer' = "running"
  /\ agentQuiet' = 0 /\ sinceBeat' = HeartbeatEvery
  /\ attached' = c /\ shown' = "online"
  /\ closing' = (closing \cup {attached}) \ {None}
  /\ backlog' = FALSE
  /\ hubQuiet' = 0 /\ sincePing' = 0 /\ silence' = 0
  /\ UNCHANGED <<net, retryVars, relaying, outage>>

\* The dial fails, at the latest by the handshake timeout.
DialFails ==
  /\ net = "down" /\ mine = None /\ wait = 0
  /\ \E dialing \in 0 .. HandshakeTimeout, jitter \in 0 .. backoff \div 2 :
       wait' = dialing + backoff + jitter
  /\ backoff' = Doubled(backoff)
  /\ UNCHANGED <<net, agentVars, hubVars, timers, outage>>

\* The read loop ends: the deadline, a link that is down, or the hub's close.
ReaderEnds ==
  /\ mine # None /\ reader = "reading"
  /\ AgentExpired \/ ~Carries
  /\ reader' = "ended"
  /\ UNCHANGED <<net, mine, writer, agentQuiet, sinceBeat, retryVars, hubVars, timers, outage>>

\* The writer is done, so runOnce closes the WebSocket and returns.
Leave ==
  /\ mine # None /\ reader = "ended" /\ writer # "blocked"
  /\ mine' = None /\ writer' = "gone"
  /\ agentQuiet' = 0 /\ sinceBeat' = 0
  /\ Sleep
  /\ UNCHANGED <<net, reader, hubVars, timers, outage>>

-----------------------------------------------------------------------------
(* The agent's writer and heartbeat. *)

\* Nothing takes what the agent writes: the link is down, or a browser holds the handler.
Jammed == net = "down" \/ (Linked /\ Held)

\* A write fills the socket's buffer; there is no write deadline.
WriterBlocks ==
  /\ mine # None /\ writer = "running" /\ Jammed
  /\ writer' = "blocked"
  /\ UNCHANGED <<net, mine, reader, agentQuiet, sinceBeat, retryVars, hubVars, timers, outage>>

WriterResumes ==
  /\ writer = "blocked" /\ ~Jammed
  /\ writer' = "running"
  /\ UNCHANGED <<net, mine, reader, agentQuiet, sinceBeat, retryVars, hubVars, timers, outage>>

\* A write or the encoding fails.  The heartbeat stops too; the read loop does not.
WriterFails ==
  /\ writer # "gone"
  /\ writer' = "gone"
  /\ UNCHANGED <<net, mine, reader, agentQuiet, sinceBeat, retryVars, hubVars, timers, outage>>

\* A heartbeat is due while the session's context lives and the writer writes.
BeatDue == reader = "reading" /\ writer = "running" /\ sinceBeat >= HeartbeatEvery

\* A frame of the agent's: if it gets there, the hub's handler reads it now or, held by a
\* browser, later.
FrameSent ==
  /\ IF Carries /\ ~Held THEN hubQuiet' = 0 /\ silence' = 0 ELSE UNCHANGED <<hubQuiet, silence>>
  /\ backlog' = (backlog \/ (Carries /\ Held))

Heartbeat ==
  /\ BeatDue
  /\ sinceBeat' = 0
  /\ FrameSent
  /\ shown' = IF Carries /\ ~Held THEN "online" ELSE shown
  /\ UNCHANGED <<net, mine, reader, writer, agentQuiet, retryVars, attached, closing,
                 relaying, sincePing, outage>>

-----------------------------------------------------------------------------
(* The hub. *)

\* The write pump pings a WebSocket that it has not closed.
PingDue == attached # None /\ attached \notin closing /\ sincePing >= PingEvery

\* Mutant: the deadline is extended when the ping is sent.
PingExtends ==
  /\ PingDue
  /\ sincePing' = 0 /\ hubQuiet' = 0
  /\ silence' = IF Carries /\ ~Held /\ reader = "reading" THEN 0 ELSE silence
  /\ UNCHANGED <<net, agentVars, retryVars, hubVars, outage>>

\* A ping, and the pong of a read loop that is there.  The pong is a write on the agent's
\* WebSocket: a blocked writer holds it up, and after a failed one every write fails.
Ping ==
  /\ PingDue
  /\ sincePing' = 0
  /\ IF reader = "reading" /\ writer = "running" THEN FrameSent
     ELSE UNCHANGED <<hubQuiet, silence, backlog>>
  /\ UNCHANGED <<net, agentVars, retryVars, attached, closing, relaying, shown, outage>>

\* A terminal envelope for the agent: the only data that a hub sends.
HubEnvelope ==
  /\ Carries /\ reader = "reading"
  /\ agentQuiet' = 0
  /\ UNCHANGED <<net, mine, reader, writer, sinceBeat, retryVars, hubVars, timers, outage>>

\* What Detach does by server ID, to whichever WebSocket is there.
Detached ==
  /\ attached' = None /\ shown' = "offline" /\ backlog' = FALSE
  /\ hubQuiet' = 0 /\ sincePing' = 0

\* The handler's read fails: its deadline, a link that does not carry, a write pump that
\* closed the WebSocket, or the empty message that is left of one the agent could not
\* encode.  That last one is no outage: the count starts over.
HubReadFails ==
  /\ attached # None /\ ~Held
  /\ HubExpired \/ ~Carries \/ writer = "gone"
  /\ Detached
  /\ closing' = closing \ {attached}
  /\ outage' = IF HubExpired \/ ~Carries THEN outage ELSE 0
  /\ UNCHANGED <<net, agentVars, retryVars, relaying, silence>>

\* The deferred Detach of a WebSocket already closed takes out the one in its place.
ClosedHandlerReturns(c) ==
  /\ c \in closing \ relaying
  /\ closing' = (closing \cup {attached}) \ {c, None}
  /\ Detached
  /\ UNCHANGED <<net, agentVars, retryVars, relaying, silence, outage>>

\* The handler reads terminal output and goes into its write to the browser.  What a closed
\* WebSocket still has in its buffer only makes the write before the close last longer.
Relay ==
  /\ Carries /\ writer = "running" /\ ~Held
  /\ Cardinality(relaying) < MaxHeld
  /\ relaying' = relaying \cup {attached}
  /\ hubQuiet' = 0 /\ silence' = 0
  /\ UNCHANGED <<net, agentVars, retryVars, attached, closing, backlog, shown, sincePing, outage>>

\* The write to the browser returns and the handler goes on to its next Read: it gets what
\* has come in, or the deadline that has passed, or it waits.
Relayed ==
  /\ Held /\ relaying' = relaying \ {attached}
  /\ \/ /\ backlog
        /\ backlog' = FALSE /\ hubQuiet' = 0 /\ silence' = 0
        /\ UNCHANGED <<attached, shown, sincePing>>
     \/ HubExpired /\ Detached /\ UNCHANGED silence
     \/ /\ ~backlog /\ ~HubExpired
        /\ UNCHANGED <<attached, shown, backlog, timers>>
  /\ closing' = IF attached' = None THEN closing \ {attached} ELSE closing
  /\ UNCHANGED <<net, agentVars, retryVars, outage>>

\* Two goroutines write to one browser and the handler panics into its deferred Detach.
\* Like a restart it is the hub's own failure, and the count of the outage starts over.
RelayPanics ==
  /\ Held /\ relaying' = relaying \ {attached}
  /\ Detached /\ closing' = closing \ {attached}
  /\ outage' = 0
  /\ UNCHANGED <<net, agentVars, retryVars, silence>>

\* The handler of a WebSocket that has been replaced is let go; it finds it closed.
Released(c) ==
  /\ c \in relaying /\ c # attached
  /\ relaying' = relaying \ {c}
  /\ UNCHANGED <<net, agentVars, retryVars, attached, closing, backlog, shown, timers, outage>>

\* The write pump's ping fails and it closes the WebSocket of a handler that a browser holds.
PumpCloses ==
  /\ Held /\ ~Carries
  /\ closing' = closing \cup {attached}
  /\ UNCHANGED <<net, agentVars, retryVars, attached, relaying, backlog, shown, timers, outage>>

\* Everything in memory is lost, and every stored server comes up offline.
HubRestart ==
  /\ Detached /\ closing' = {} /\ relaying' = {}
  /\ outage' = 0
  /\ UNCHANGED <<net, agentVars, retryVars, silence>>

-----------------------------------------------------------------------------
(* The network and time. *)

NetBreaks ==
  /\ net = "up"
  /\ net' = "down" /\ outage' = 0
  /\ UNCHANGED <<agentVars, retryVars, hubVars, timers>>

NetHeals ==
  /\ net = "down"
  /\ net' = "up"
  /\ UNCHANGED <<agentVars, retryVars, hubVars, timers, outage>>

AgentIdle ==
  IF mine = None
  THEN wait > 0
  ELSE /\ ~BeatDue
       /\ reader = "reading" => ~AgentExpired
       /\ reader = "ended" => writer = "blocked"
       /\ writer = "blocked" => Jammed

HubIdle ==
  /\ closing \subseteq relaying
  /\ ~PingDue
  /\ attached # None => Held \/ ~HubExpired

Older(t, limit) == IF t < limit THEN t + 1 ELSE t

Tick ==
  /\ AgentIdle /\ HubIdle
  /\ wait' = IF mine = None THEN wait - 1 ELSE wait
  /\ agentQuiet' = IF mine # None THEN Older(agentQuiet, AgentDeadline) ELSE agentQuiet
  /\ sinceBeat' = IF mine # None THEN Older(sinceBeat, HeartbeatEvery) ELSE sinceBeat
  /\ hubQuiet' = IF attached # None THEN Older(hubQuiet, HubDeadline + 1) ELSE hubQuiet
  /\ sincePing' = IF attached # None THEN Older(sincePing, PingEvery) ELSE sincePing
  /\ silence' = Older(silence, HubDeadline + 1)
  /\ outage' = IF net = "up" /\ ~Linked /\ relaying = {} THEN outage + 1 ELSE 0
  /\ UNCHANGED <<net, mine, reader, writer, backoff, hubVars>>

-----------------------------------------------------------------------------
AgentNext ==
  \/ \E c \in Conns : Dial(c)
  \/ DialFails \/ ReaderEnds \/ Leave
  \/ WriterBlocks \/ WriterResumes \/ WriterFails \/ Heartbeat

HubNext ==
  \/ \E c \in Conns : ClosedHandlerReturns(c)
  \/ Ping \/ HubEnvelope \/ HubReadFails \/ HubRestart

RelayNext ==
  \/ Relay \/ Relayed \/ RelayPanics \/ PumpCloses
  \/ \E c \in Conns : Released(c)

Next == AgentNext \/ HubNext \/ RelayNext \/ NetBreaks \/ NetHeals \/ Tick

Spec == Init /\ [][Next]_vars

\* Goroutines are scheduled, timers fire and time passes.  The network, the hub's restarts,
\* the terminal traffic and the browsers' writes owe nothing.  A writer whose session is
\* cancelled chooses between the cancellation and the next message again and again.
Fairness ==
  /\ WF_vars(\E c \in Conns : Dial(c))
  /\ WF_vars(DialFails)
  /\ WF_vars(AgentExpired /\ ReaderEnds)
  /\ SF_vars(Leave)
  /\ WF_vars(WriterResumes)
  /\ WF_vars(Heartbeat)
  /\ WF_vars(Ping)
  /\ WF_vars(HubExpired /\ HubReadFails)
  /\ WF_vars(\E c \in Conns : ClosedHandlerReturns(c))
  /\ WF_vars(Tick)

FairSpec == Spec /\ Fairness

-----------------------------------------------------------------------------
(* Properties. *)

\* Every variable keeps its type; no timer passes its limit.
TypeOK ==
  /\ net \in {"up", "down"}
  /\ mine \in Conns \cup {None} /\ attached \in Conns \cup {None} /\ closing \subseteq Conns
  /\ reader \in {"reading", "ended"} /\ writer \in {"running", "blocked", "gone"}
  /\ shown \in {"online", "offline"}
  /\ agentQuiet \in 0 .. AgentDeadline /\ sinceBeat \in 0 .. HeartbeatEvery
  /\ relaying \subseteq Conns /\ backlog \in BOOLEAN
  /\ hubQuiet \in 0 .. HubDeadline + 1 /\ sincePing \in 0 .. PingEvery
  /\ backoff \in InitialBackoff .. MaxBackoff
  /\ wait \in 0 .. MaxWait
  /\ silence \in 0 .. HubDeadline + 1 /\ outage \in Nat

\* An agent is shown online only if its handler read something of its within the read
\* deadline, however often it was kicked, pinged or cut off; except while a browser holds
\* the handler in a write, where no deadline reaches it (agent_ws.go:51-65, 98-106).
OnlineIsRecent == shown = "online" => silence <= HubDeadline \/ Held

\* Once the network is up and no browser holds a handler, the two are linked again within
\* the timers of the code alone: the hub's deadline for the WebSocket the agent has left,
\* whose handler takes the new one out with it, the agent's deadline to notice that, and
\* one sleep.
LongestOutage == HubDeadline + AgentDeadline + LongestSleep
OutageBounded == outage <= LongestOutage

\* With a network that stays up and writes to browsers that return, the two are linked and
\* the agent reads again and again, whatever the hub's restarts, blocked writes and stale
\* handlers did (agent.go:33-77).
Reconnects ==
  <>[](net = "up") /\ []<>(relaying = {}) => []<>(Linked /\ reader = "reading")

\* Refuted: runOnce loops "until the connection drops" (agent.go:80), so its read loop ends
\* only when the link does not carry.
HealthyLinkKept == [][reader = "reading" /\ reader' = "ended" => ~Carries]_vars

=============================================================================

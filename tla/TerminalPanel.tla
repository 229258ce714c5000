--------------------------- MODULE TerminalPanel ---------------------------
(***************************************************************************)
(* The terminal of the page (frontend/js/terminal-panel.js): every click   *)
(* on Open starts an opening, which awaits xterm.js and a session of the   *)
(* hub before it takes the panel over; nothing stops an opening that is    *)
(* under way.  The command an AI suggestion offers (ai-chat.js) waits in a *)
(* global of the window for the next terminal of its server.               *)
(*                                                                         *)
(* state.ws, state.term and state.sessionId are set and cleared together,  *)
(* so the panel is one opening.  The hub's side of a session is            *)
(* TerminalSessions.                                                       *)
(***************************************************************************)
EXTENDS Naturals

CONSTANTS
  Openings,       \* bound: clicks on Open, in their order
  Server,         \* the server a terminal is opened on
  Hints,          \* suggestions of the assistant, each offered once
  HintServer,     \* the server a suggestion names
  Sizes,          \* sizes of #terminal-host
  None            \* no opening, no suggestion

ASSUME PanelConstants ==
  /\ Openings \subseteq Nat
  /\ None \notin Openings \cup Hints \cup Sizes
  /\ DOMAIN HintServer = Hints

VARIABLES
  xtermLoaded,
  stage,       \* opening -> how far it is, then the state of its socket
  current,     \* the opening that has the panel
  statusEl,    \* the status line
  pending,     \* window.argonRunInTerminal
  offered,     \* the suggestions used so far
  timer,       \* opening -> the suggestion it will type in 350 ms
  typed,       \* opening -> the suggestions its shell was sent
  hostSize,    \* the size of #terminal-host
  termSize,    \* opening -> the size of its terminal
  sentSize,    \* opening -> the size its shell was told last
  observed,    \* openings whose ResizeObserver is to run
  overlapped   \* history: openings that awaited when another one did

hintVars == <<pending, offered, timer, typed>>
sizeVars == <<hostSize, termSize, sentSize, observed>>
panelVars == <<xtermLoaded, stage, current, statusEl, hintVars, sizeVars, overlapped>>

Stages == {"none", "loading", "minting", "connecting", "open", "closing", "closed"}
Awaiting == {o \in Openings : stage[o] \in {"loading", "minting"}}
Built == {o \in Openings : stage[o] \in {"connecting", "open", "closing", "closed"}}

PanelInit ==
  /\ xtermLoaded = FALSE
  /\ stage = [o \in Openings |-> "none"]
  /\ current = None
  /\ statusEl = ""
  /\ pending = None /\ offered = {}
  /\ timer = [o \in Openings |-> None]
  /\ typed = [o \in Openings |-> {}]
  /\ hostSize \in Sizes
  /\ termSize = [o \in Openings |-> None]
  /\ sentSize = [o \in Openings |-> None]
  /\ observed = {}
  /\ overlapped = {}

-----------------------------------------------------------------------------
(* "Run in terminal". *)

Suggest(h) ==
  /\ h \notin offered
  /\ offered' = offered \cup {h}
  /\ pending' = h
  /\ UNCHANGED <<xtermLoaded, stage, current, statusEl, timer, typed, sizeVars, overlapped>>

-----------------------------------------------------------------------------
(* openTerminal, up to its awaits, and the Close button. *)

\* Mutant: the panel forgets the socket and leaves it open.
TeardownLeaves(st) == st

\* What teardown does to the sockets: the panel's own is closed, one that is
\* connecting too.
Teardown(st) ==
  [o \in Openings |->
     IF o = current /\ st[o] \in {"connecting", "open"} THEN "closing" ELSE st[o]]

OpenTerminal(o) ==
  /\ stage[o] = "none"
  /\ \A p \in Openings : p < o => stage[p] # "none"
  /\ stage' = [Teardown(stage) EXCEPT ![o] = IF xtermLoaded THEN "minting" ELSE "loading"]
  /\ current' = None
  /\ statusEl' = "Allocating"
  /\ overlapped' = IF Awaiting = {} THEN overlapped ELSE overlapped \cup Awaiting \cup {o}
  /\ UNCHANGED <<xtermLoaded, hintVars, sizeVars>>

CloseButton ==
  /\ stage' = Teardown(stage)
  /\ current' = None
  /\ statusEl' = "Closed"
  /\ UNCHANGED <<xtermLoaded, hintVars, sizeVars, overlapped>>

EnsureXtermLoaded(o) ==
  /\ stage[o] = "loading"
  /\ xtermLoaded' = TRUE
  /\ stage' = [stage EXCEPT ![o] = "minting"]
  /\ UNCHANGED <<current, statusEl, hintVars, sizeVars, overlapped>>

\* The scripts do not load, or the hub refuses the session.
OpeningFails(o) ==
  /\ o \in Awaiting
  /\ stage' = [stage EXCEPT ![o] = "closed"]
  /\ statusEl' = "Failed"
  /\ UNCHANGED <<xtermLoaded, current, hintVars, sizeVars, overlapped>>

-----------------------------------------------------------------------------
(* openTerminal, once the session is minted. *)

\* The terminal is built and fitted, its socket connects, and the panel is this
\* opening's; what the panel had is not torn down again.
MintSession(o) ==
  /\ stage[o] = "minting"
  /\ stage' = [stage EXCEPT ![o] = "connecting"]
  /\ current' = o
  /\ termSize' = [termSize EXCEPT ![o] = hostSize]
  /\ observed' = observed \cup {o}
  /\ UNCHANGED <<xtermLoaded, statusEl, hintVars, hostSize, sentSize, overlapped>>

\* Mutant: a suggestion for any server is taken.
TakesAny(h) == h # None

Takes(h) == h \in Hints /\ HintServer[h] = Server

OnOpen(o) ==
  /\ stage[o] = "connecting"
  /\ stage' = [stage EXCEPT ![o] = "open"]
  /\ statusEl' = "Connected"
  /\ sentSize' = [sentSize EXCEPT ![o] = termSize[o]]
  /\ timer' = [timer EXCEPT ![o] = IF Takes(pending) THEN pending ELSE None]
  /\ UNCHANGED <<xtermLoaded, current, pending, offered, typed, hostSize, termSize, observed,
                 overlapped>>

\* 350 ms later: the suggestion is typed, into a socket that is still open, and
\* the global is cleared, whatever it holds by now.
Prefill(o) ==
  /\ timer[o] # None
  /\ typed' = [typed EXCEPT ![o] = IF stage[o] = "open" THEN @ \cup {timer[o]} ELSE @]
  /\ statusEl' = "Prefilled"
  /\ pending' = None
  /\ timer' = [timer EXCEPT ![o] = None]
  /\ UNCHANGED <<xtermLoaded, stage, current, offered, sizeVars, overlapped>>

\* The hub says that the shell has ended.
OnClosedMessage(o) ==
  /\ stage[o] = "open"
  /\ statusEl' = "Ended"
  /\ UNCHANGED <<xtermLoaded, stage, current, hintVars, sizeVars, overlapped>>

\* onclose, of a connection that fails (after onerror), is lost or was closed;
\* whoever has the panel by then.
OnClose(o) ==
  /\ stage[o] \in {"connecting", "open", "closing"}
  /\ stage' = [stage EXCEPT ![o] = "closed"]
  /\ statusEl' = "Disconnected"
  /\ UNCHANGED <<xtermLoaded, current, hintVars, sizeVars, overlapped>>

-----------------------------------------------------------------------------
(* The keys. *)

\* The terminal a key is typed into is the one on the page: teardown disposes of
\* the panel's, and a new one takes the place of what the host had.
Keyboard(o) == o = current /\ stage[o] = "open"

\* The buttons for touch screens write to state.ws, when it is open.
Keybar(o) == current = o /\ stage[current] = "open"

-----------------------------------------------------------------------------
(* The size. *)

\* The host changes size; the observer of every terminal built will run.
Resize(n) ==
  /\ n # hostSize
  /\ hostSize' = n
  /\ observed' = Built
  /\ UNCHANGED <<xtermLoaded, stage, current, statusEl, hintVars, termSize, sentSize, overlapped>>

\* Mutant: the size is sent before the terminal is fitted.
FittedLate(o) == termSize[o]

\* The panel's terminal is fitted, whoever's observer runs.
Fitted(o) == IF o = current THEN hostSize ELSE termSize[o]

\* It does nothing while there is no panel.
ResizeObserver(o) ==
  /\ o \in observed
  /\ observed' = observed \ {o}
  /\ termSize' = [p \in Openings |-> IF p = current THEN hostSize ELSE termSize[p]]
  /\ sentSize' = [sentSize EXCEPT ![o] =
                     IF current # None /\ stage[o] = "open" THEN Fitted(o) ELSE @]
  /\ UNCHANGED <<xtermLoaded, stage, current, statusEl, hintVars, hostSize, overlapped>>

-----------------------------------------------------------------------------
OpenNext(o) ==
  \/ OpenTerminal(o) \/ EnsureXtermLoaded(o) \/ OpeningFails(o) \/ MintSession(o)

SocketNext(o) ==
  \/ OnOpen(o) \/ Prefill(o) \/ OnClosedMessage(o) \/ OnClose(o)

PanelNext ==
  \/ \E h \in Hints : Suggest(h)
  \/ CloseButton
  \/ \E o \in Openings : OpenNext(o) \/ SocketNext(o) \/ ResizeObserver(o)
  \/ \E n \in Sizes : Resize(n)

PanelSpec == PanelInit /\ [][PanelNext]_panelVars

-----------------------------------------------------------------------------
(* Properties. *)

\* Type invariant: the openings, the panel and the suggestions.
PanelTypeOK ==
  /\ xtermLoaded \in BOOLEAN
  /\ stage \in [Openings -> Stages]
  /\ current \in Openings \cup {None}
  /\ statusEl \in {"", "Allocating", "Closed", "Failed", "Connected", "Prefilled", "Ended",
                   "Disconnected"}
  /\ pending \in Hints \cup {None} /\ offered \subseteq Hints
  /\ timer \in [Openings -> Hints \cup {None}]
  /\ typed \in [Openings -> SUBSET Hints]
  /\ hostSize \in Sizes
  /\ termSize \in [Openings -> Sizes \cup {None}]
  /\ sentSize \in [Openings -> Sizes \cup {None}]
  /\ observed \subseteq Openings /\ overlapped \subseteq Openings

\* Unless openings overlap, no socket but the panel's is connecting or open, so
\* no shell is left where no key and no Close reaches it, and "Connected" is
\* only shown while that socket is open, whatever close events of earlier
\* terminals come in between (teardown, openTerminal, onopen, onclose).
PanelHasTheShell ==
  /\ \A o \in Openings \ overlapped :
       /\ stage[o] = "connecting" => o = current
       /\ stage[o] = "open" => Keyboard(o) /\ Keybar(o)
  /\ statusEl = "Connected" /\ overlapped = {} =>
       \E o \in Openings : Keyboard(o)

\* A suggestion is typed only into a terminal of the server it names, and into
\* one terminal only unless openings overlap, though it stays in the window
\* while its timer runs and the next opening finds it there (onopen).
HintTypedOnce ==
  \A o \in Openings : \A h \in typed[o] :
    /\ HintServer[h] = Server
    /\ \A p \in Openings \ {o} : h \in typed[p] => {o, p} \cap overlapped # {}

\* When the observers have run, the shell of the panel has been told the size of
\* the host: a resize before, while or after the socket opens, or between two
\* terminals, is never lost (fit, onopen, the ResizeObserver).
SizeFollows ==
  current # None /\ observed = {} /\ stage[current] = "open" =>
    sentSize[current] = hostSize

\* Refuted: "we just set the args on window.argonRunInTerminal and let
\* terminal-panel.js pick them up the next time it's opened" (ai-chat.js:302).
HintKept ==
  [][pending # None /\ pending' = None => \E o \in Openings : pending \in typed'[o]]_panelVars
=============================================================================

------------------------ MODULE PageControlsProofs ------------------------
(***************************************************************************)
(* Proofs about four parts of the page that share no state: the terminal   *)
(* panel, for any number of openings, suggestions and sizes, the server    *)
(* tabs, for any servers, the settings, for any providers and any number   *)
(* of calls under way, and the sign-in pages, for any tabs and tokens.     *)
(***************************************************************************)
EXTENDS TerminalPanel, ServerTabs, Settings, SignIn, FiniteSetTheorems, SequenceTheorems, TLAPS

-----------------------------------------------------------------------------
(* Types. *)

\* The openings, the panel, the suggestions and the sizes keep their types.
THEOREM PanelTypeCorrect == PanelSpec => []PanelTypeOK
<1>1. PanelInit => PanelTypeOK
  BY PanelConstants DEF PanelInit, PanelTypeOK, Stages
<1>2. PanelTypeOK /\ [PanelNext]_panelVars => PanelTypeOK'
  <2> SUFFICES ASSUME PanelTypeOK, [PanelNext]_panelVars PROVE PanelTypeOK'
    OBVIOUS
  <2> USE DEF PanelTypeOK, Stages
  <2>1. ASSUME NEW h \in Hints, Suggest(h) PROVE PanelTypeOK'
    BY <2>1 DEF Suggest, sizeVars
  <2>2. CASE CloseButton
    BY <2>2 DEF CloseButton, Teardown, hintVars, sizeVars
  <2>3. ASSUME NEW o \in Openings, OpenNext(o) PROVE PanelTypeOK'
    <3>1. CASE OpenTerminal(o)
      BY <3>1 DEF OpenTerminal, Teardown, Awaiting, hintVars, sizeVars
    <3>2. CASE EnsureXtermLoaded(o)
      BY <3>2 DEF EnsureXtermLoaded, hintVars, sizeVars
    <3>3. CASE OpeningFails(o)
      BY <3>3 DEF OpeningFails, hintVars, sizeVars
    <3>4. CASE MintSession(o)
      BY <3>4 DEF MintSession, hintVars
    <3>5. QED
      BY <2>3, <3>1, <3>2, <3>3, <3>4 DEF OpenNext
  <2>4. ASSUME NEW o \in Openings, SocketNext(o) PROVE PanelTypeOK'
    <3>1. CASE OnOpen(o)
      BY <3>1 DEF OnOpen, Takes
    <3>2. CASE Prefill(o)
      BY <3>2 DEF Prefill, sizeVars
    <3>3. CASE OnClosedMessage(o)
      BY <3>3 DEF OnClosedMessage, hintVars, sizeVars
    <3>4. CASE OnClose(o)
      BY <3>4 DEF OnClose, hintVars, sizeVars
    <3>5. QED
      BY <2>4, <3>1, <3>2, <3>3, <3>4 DEF SocketNext
  <2>5. ASSUME NEW o \in Openings, ResizeObserver(o) PROVE PanelTypeOK'
    BY <2>5 DEF ResizeObserver, Fitted, hintVars
  <2>6. ASSUME NEW n \in Sizes, Resize(n) PROVE PanelTypeOK'
    BY <2>6 DEF Resize, Built, hintVars
  <2>7. CASE UNCHANGED panelVars
    BY <2>7 DEF panelVars, hintVars, sizeVars
  <2>8. QED
    BY <2>1, <2>2, <2>3, <2>4, <2>5, <2>6, <2>7 DEF PanelNext
<1>3. QED
  BY <1>1, <1>2, PTL DEF PanelSpec

-----------------------------------------------------------------------------
(* The panel and its shell. *)

\* Two openings that await at once overlap.
AwaitingOverlap ==
  \A o, p \in Openings :
    o \in Awaiting /\ p \in Awaiting /\ o # p => o \in overlapped /\ p \in overlapped

\* The panel is an opening that was built; while another awaits, one that
\* overlaps.
PanelBuilt ==
  current # None =>
    /\ current \in Built
    /\ Awaiting # {} => current \in overlapped

\* A live socket is the panel's.
SocketIsPanel ==
  \A o \in Openings \ overlapped : stage[o] \in {"connecting", "open"} => o = current

\* The status line.
ConnectedIsOpen ==
  statusEl = "Connected" /\ overlapped = {} => \E o \in Openings : Keyboard(o)

ShellInv == AwaitingOverlap /\ PanelBuilt /\ SocketIsPanel /\ ConnectedIsOpen

\* A suggestion waits, in the window or for a timer, only after it was offered;
\* a timer runs only for a socket that has been open, and takes what was meant
\* for this server.  What was typed is gone from the window, and no live socket
\* of another opening waits for it.
TimerOfOpened ==
  \A o \in Openings :
    timer[o] # None =>
      /\ HintServer[timer[o]] = Server
      /\ stage[o] \in {"open", "closing", "closed"}

TypedIsSpent ==
  \A o \in Openings : \A h \in typed[o] :
    /\ HintServer[h] = Server
    /\ h \in offered /\ pending # h
    /\ \A p \in Openings \ overlapped :
         o \notin overlapped /\ p # o =>
           /\ timer[p] = h => stage[p] # "open"
           /\ h \notin typed[p]

WaitingOffered == pending # None => pending \in offered

TimersOffered == \A o \in Openings : timer[o] # None => timer[o] \in offered

HintInv == TimerOfOpened /\ TypedIsSpent /\ WaitingOffered /\ TimersOffered

\* Once its observer has run, the panel's terminal has the size of the host, and
\* its shell was told it.
SizeInv ==
  current # None /\ current \notin observed =>
    /\ termSize[current] = hostSize
    /\ stage[current] = "open" => sentSize[current] = hostSize

PanelInv == PanelTypeOK /\ ShellInv /\ HintInv /\ SizeInv

\* The invariant holds at the start.
LEMMA PanelInvInit == PanelInit => ShellInv /\ HintInv /\ SizeInv
<1> SUFFICES ASSUME PanelInit PROVE ShellInv /\ HintInv /\ SizeInv
  OBVIOUS
<1>1. ShellInv
  BY DEF PanelInit, ShellInv, AwaitingOverlap, PanelBuilt, SocketIsPanel, ConnectedIsOpen, Awaiting
<1>2. HintInv /\ SizeInv
  BY DEF PanelInit, HintInv, SizeInv, TimerOfOpened, TypedIsSpent, WaitingOffered, TimersOffered
<1>3. QED
  BY <1>1, <1>2

\* What Teardown leaves of the sockets.
LEMMA TeardownCloses ==
  ASSUME PanelTypeOK, NEW o \in Openings
  PROVE  /\ Teardown(stage)[o] \in {"connecting", "open"} => stage[o] = Teardown(stage)[o] /\ o # current
         /\ Teardown(stage)[o] # stage[o] => stage[o] \in {"connecting", "open"}
                                             /\ Teardown(stage)[o] = "closing"
  BY DEF PanelTypeOK, Teardown

\* Every step keeps the panel's part of it.
LEMMA ShellStep == PanelTypeOK /\ ShellInv /\ [PanelNext]_panelVars => ShellInv'
<1> SUFFICES ASSUME PanelTypeOK, ShellInv, [PanelNext]_panelVars PROVE ShellInv'
  OBVIOUS
<1> USE DEF ShellInv, AwaitingOverlap, PanelBuilt, SocketIsPanel, ConnectedIsOpen, Keyboard
<1> USE PanelConstants
<1>1. ASSUME UNCHANGED <<stage, current, statusEl, overlapped>> PROVE ShellInv'
  BY <1>1 DEF Awaiting, Built
<1>2. CASE CloseButton
  BY <1>2, TeardownCloses DEF CloseButton, Teardown, Awaiting, Built, PanelTypeOK
<1>3. ASSUME NEW o \in Openings, OpenTerminal(o) PROVE ShellInv'
  <2>1. /\ current' = None /\ statusEl' # "Connected"
        /\ \A p \in Openings \ {o} : stage'[p] = Teardown(stage)[p]
        /\ stage'[o] \in {"loading", "minting"}
    BY <1>3 DEF OpenTerminal, Teardown, PanelTypeOK
  <2>2. Awaiting' = Awaiting \cup {o}
    BY <2>1, TeardownCloses DEF Awaiting
  <2>3. overlapped \subseteq overlapped' /\ (Awaiting # {} => Awaiting \cup {o} \subseteq overlapped')
    BY <1>3 DEF OpenTerminal
  <2>4. AwaitingOverlap'
    BY <2>2, <2>3
  <2>5. SocketIsPanel'
    BY <2>1, <2>3, TeardownCloses
  <2>6. QED
    BY <2>1, <2>4, <2>5
<1>4. ASSUME NEW o \in Openings, EnsureXtermLoaded(o) PROVE ShellInv'
  <2>1. /\ o \in Awaiting /\ stage'[o] = "minting"
        /\ \A p \in Openings \ {o} : stage'[p] = stage[p]
        /\ UNCHANGED <<current, overlapped>>
        /\ statusEl' = statusEl \/ statusEl' # "Connected"
    BY <1>4 DEF EnsureXtermLoaded, Awaiting, PanelTypeOK
  <2>2. Awaiting' \subseteq Awaiting /\ Built \subseteq Built'
    BY <2>1 DEF Awaiting, Built
  <2>3. AwaitingOverlap' /\ PanelBuilt' /\ SocketIsPanel'
    BY <2>1, <2>2
  <2>4. \A p \in Openings : Keyboard(p) => Keyboard(p)'
    BY <2>1 DEF Awaiting
  <2>5. ConnectedIsOpen'
    BY <2>1, <2>4
  <2>6. QED
    BY <2>3, <2>5
<1>5. ASSUME NEW o \in Openings, OpeningFails(o) PROVE ShellInv'
  <2>1. /\ o \in Awaiting /\ stage'[o] = "closed"
        /\ \A p \in Openings \ {o} : stage'[p] = stage[p]
        /\ UNCHANGED <<current, overlapped>>
        /\ statusEl' = statusEl \/ statusEl' # "Connected"
    BY <1>5 DEF OpeningFails, Awaiting, PanelTypeOK
  <2>2. Awaiting' \subseteq Awaiting /\ Built \subseteq Built'
    BY <2>1 DEF Awaiting, Built
  <2>3. AwaitingOverlap' /\ PanelBuilt' /\ SocketIsPanel'
    BY <2>1, <2>2
  <2>4. \A p \in Openings : Keyboard(p) => Keyboard(p)'
    BY <2>1 DEF Awaiting
  <2>5. ConnectedIsOpen'
    BY <2>1, <2>4
  <2>6. QED
    BY <2>3, <2>5
<1>6. ASSUME NEW o \in Openings, MintSession(o) PROVE ShellInv'
  <2>1. /\ current' = o /\ stage' = [stage EXCEPT ![o] = "connecting"] /\ stage[o] = "minting"
        /\ overlapped' = overlapped /\ statusEl' = statusEl
    BY <1>6 DEF MintSession
  <2>2. o \in Awaiting /\ Awaiting' = Awaiting \ {o}
    BY <2>1 DEF Awaiting, PanelTypeOK
  <2>3. /\ stage'[o] = "connecting"
        /\ \A p \in Openings \ {o} : stage'[p] = stage[p]
    BY <2>1 DEF PanelTypeOK
  <2>4. current # None => current \in overlapped
    BY <2>2
  <2>5. PanelBuilt'
    <3>1. o \in Built'
      BY <2>3 DEF Built
    <3>2. ASSUME Awaiting' # {} PROVE o \in overlapped
      <4>1. PICK p \in Awaiting : p # o
        BY <2>2, <3>2
      <4>2. QED
        BY <2>2, <4>1 DEF Awaiting
    <3>3. QED
      BY <2>1, <3>1, <3>2
  <2>6. SocketIsPanel'
    <3> SUFFICES ASSUME NEW p \in Openings \ overlapped, p # o,
                        stage[p] \in {"connecting", "open"}
                 PROVE  FALSE
      BY <2>1, <2>3
    <3>1. p = current
      OBVIOUS
    <3>2. QED
      BY <2>4, <3>1
  <2>7. ConnectedIsOpen'
    BY <2>1, <2>4
  <2>8. AwaitingOverlap'
    BY <2>1, <2>2
  <2>9. QED
    BY <2>5, <2>6, <2>7, <2>8
<1>7. ASSUME NEW o \in Openings, OnOpen(o) PROVE ShellInv'
  <2>1. /\ stage[o] = "connecting" /\ stage'[o] = "open"
        /\ \A p \in Openings \ {o} : stage'[p] = stage[p]
        /\ UNCHANGED <<current, overlapped>>
    BY <1>7 DEF OnOpen, PanelTypeOK
  <2>2. Awaiting' = Awaiting /\ Built' = Built
    BY <2>1 DEF Awaiting, Built
  <2>3. AwaitingOverlap' /\ PanelBuilt' /\ SocketIsPanel'
    BY <2>1, <2>2
  <2>4. ConnectedIsOpen'
    <3>1. overlapped = {} => o = current
      BY <2>1
    <3>2. QED
      BY <2>1, <3>1
  <2>5. QED
    BY <2>3, <2>4
<1>8. ASSUME NEW o \in Openings, Prefill(o) \/ OnClosedMessage(o) PROVE ShellInv'
  BY <1>8 DEF Prefill, OnClosedMessage, Awaiting, Built
<1>9. ASSUME NEW o \in Openings, OnClose(o) PROVE ShellInv'
  <2>1. /\ stage[o] \in {"connecting", "open", "closing"} /\ stage'[o] = "closed"
        /\ \A p \in Openings \ {o} : stage'[p] = stage[p]
        /\ statusEl' # "Connected" /\ UNCHANGED <<current, overlapped>>
    BY <1>9 DEF OnClose, PanelTypeOK
  <2>2. Awaiting' = Awaiting /\ Built' = Built
    BY <2>1 DEF Awaiting, Built
  <2>3. QED
    BY <2>1, <2>2
<1>10. QED
  BY <1>1, <1>2, <1>3, <1>4, <1>5, <1>6, <1>7, <1>8, <1>9
     DEF PanelNext, OpenNext, SocketNext, Suggest, ResizeObserver, Resize, panelVars

\* Every step keeps the suggestions' part.
LEMMA HintStep == PanelTypeOK /\ ShellInv /\ HintInv /\ [PanelNext]_panelVars => HintInv'
<1> SUFFICES ASSUME PanelTypeOK, ShellInv, HintInv, [PanelNext]_panelVars PROVE HintInv'
  OBVIOUS
<1> USE DEF HintInv, TimerOfOpened, TypedIsSpent, WaitingOffered, TimersOffered
<1> USE PanelConstants
<1>1. ASSUME UNCHANGED <<stage, hintVars>>, overlapped \subseteq overlapped' PROVE HintInv'
  <2>1. UNCHANGED <<stage, pending, offered, timer, typed>>
    BY <1>1 DEF hintVars
  <2>2. TimerOfOpened' /\ WaitingOffered' /\ TimersOffered'
    BY <1>1, <2>1
  <2>3. TypedIsSpent'
    BY <1>1, <2>1
  <2>4. QED
    BY <2>2, <2>3
<1>2. ASSUME NEW h \in Hints, Suggest(h) PROVE HintInv'
  <2>1. /\ h \notin offered /\ offered' = offered \cup {h} /\ pending' = h
        /\ UNCHANGED <<stage, timer, typed, overlapped>>
    BY <1>2 DEF Suggest
  <2>2. TypedIsSpent'
    BY <2>1
  <2>3. QED
    BY <2>1, <2>2
<1>3. ASSUME UNCHANGED hintVars, overlapped \subseteq overlapped',
             \A p \in Openings : \/ stage'[p] = stage[p]
                                 \/ stage'[p] \in {"closing", "closed"}
                                 \/ stage[p] \notin {"open", "closing", "closed"} /\ stage'[p] # "open"
      PROVE  HintInv'
  <2>1. UNCHANGED <<pending, offered, timer, typed>>
    BY <1>3 DEF hintVars
  <2>2. TimerOfOpened' /\ WaitingOffered' /\ TimersOffered'
    BY <1>3, <2>1
  <2>3. \A p \in Openings : stage[p] # "open" => stage'[p] # "open"
    BY <1>3
  <2>4. TypedIsSpent'
    BY <1>3, <2>1, <2>3
  <2>5. QED
    BY <2>2, <2>4
<1>4. CASE CloseButton
  BY <1>3, <1>4, TeardownCloses DEF CloseButton, Teardown
<1>5. ASSUME NEW o \in Openings, OpenTerminal(o) PROVE HintInv'
  <2>1. \A p \in Openings : \/ stage'[p] = stage[p]
                            \/ stage'[p] \in {"closing", "closed"}
                            \/ stage[p] \notin {"open", "closing", "closed"} /\ stage'[p] # "open"
    BY <1>5, TeardownCloses DEF OpenTerminal, Teardown, PanelTypeOK
  <2>2. QED
    BY <1>3, <1>5, <2>1 DEF OpenTerminal
<1>6. ASSUME NEW o \in Openings, EnsureXtermLoaded(o) \/ OpeningFails(o) \/ MintSession(o)
      PROVE  HintInv'
  <2>1. /\ o \in Awaiting /\ stage'[o] # "open"
        /\ \A p \in Openings \ {o} : stage'[p] = stage[p]
        /\ UNCHANGED <<hintVars, overlapped>>
    <3>1. CASE EnsureXtermLoaded(o)
      BY <3>1 DEF EnsureXtermLoaded, Awaiting, PanelTypeOK
    <3>2. CASE OpeningFails(o)
      BY <3>2 DEF OpeningFails, Awaiting, PanelTypeOK
    <3>3. CASE MintSession(o)
      BY <3>3 DEF MintSession, Awaiting, PanelTypeOK
    <3>4. QED
      BY <1>6, <3>1, <3>2, <3>3
  <2>2. QED
    BY <1>3, <2>1 DEF Awaiting
<1>7. ASSUME NEW o \in Openings, OnOpen(o) PROVE HintInv'
  <2>1. /\ stage[o] = "connecting" /\ stage' = [stage EXCEPT ![o] = "open"]
        /\ timer' = [timer EXCEPT ![o] = IF Takes(pending) THEN pending ELSE None]
        /\ UNCHANGED <<pending, offered, typed, overlapped>>
    BY <1>7 DEF OnOpen
  <2>2. TimerOfOpened' /\ TimersOffered' /\ WaitingOffered'
    BY <2>1 DEF PanelTypeOK, Takes
  <2>3. TypedIsSpent'
    <3>1. /\ timer'[o] = pending \/ timer'[o] = None
          /\ \A p \in Openings \ {o} : timer'[p] = timer[p] /\ stage'[p] = stage[p]
      BY <2>1 DEF PanelTypeOK
    <3>2. \A q \in Openings : \A h \in typed[q] : h # pending /\ h # None
      BY DEF PanelTypeOK
    <3>3. ASSUME NEW q \in Openings \ overlapped, NEW h \in typed[q],
                 NEW p \in Openings \ overlapped, p # q
          PROVE  /\ timer'[p] = h => stage'[p] # "open"
                 /\ h \notin typed[p]
      <4>1. CASE p = o
        BY <3>1, <3>2, <3>3, <4>1
      <4>2. CASE p # o
        <5>1. timer'[p] = timer[p] /\ stage'[p] = stage[p]
          BY <3>1, <4>2
        <5>2. /\ timer[p] = h => stage[p] # "open"
              /\ h \notin typed[p]
          BY <3>3
        <5>3. QED
          BY <5>1, <5>2
      <4>3. QED
        BY <4>1, <4>2
    <3>4. typed' = typed /\ overlapped' = overlapped /\ offered' = offered /\ pending' = pending
      BY <2>1
    <3>5. ASSUME NEW q \in Openings, NEW h \in typed'[q]
          PROVE  /\ HintServer[h] = Server
                 /\ h \in offered' /\ pending' # h
      BY <3>4
    <3>6. ASSUME NEW q \in Openings, NEW h \in typed'[q], NEW p \in Openings \ overlapped',
                 q \notin overlapped', p # q
          PROVE  /\ timer'[p] = h => stage'[p] # "open"
                 /\ h \notin typed'[p]
      BY <3>3, <3>4, <3>6
    <3>7. QED
      BY <3>5, <3>6
  <2>4. QED
    BY <2>2, <2>3
<1>8. ASSUME NEW o \in Openings, Prefill(o) PROVE HintInv'
  <2>1. /\ timer[o] # None /\ timer' = [timer EXCEPT ![o] = None] /\ pending' = None
        /\ typed' = [typed EXCEPT ![o] = IF stage[o] = "open" THEN @ \cup {timer[o]} ELSE @]
        /\ UNCHANGED <<stage, offered, overlapped>>
    BY <1>8 DEF Prefill
  <2>2. timer[o] \in Hints /\ timer[o] \in offered /\ HintServer[timer[o]] = Server
    BY <2>1 DEF PanelTypeOK
  <2>3. TimerOfOpened' /\ TimersOffered' /\ WaitingOffered'
    <3>1. \A p \in Openings : timer'[p] = None \/ timer'[p] = timer[p]
      BY <2>1 DEF PanelTypeOK
    <3>2. QED
      BY <2>1, <3>1
  <2>4. TypedIsSpent'
    <3>0. /\ timer'[o] = None /\ \A p \in Openings \ {o} : timer'[p] = timer[p]
          /\ \A q \in Openings : \A h \in typed'[q] : h # None
      <4>1. \A q \in Openings : typed'[q] \subseteq typed[q] \cup {timer[o]}
        BY <2>1 DEF PanelTypeOK
      <4>2. \A q \in Openings : typed'[q] \subseteq Hints
        <5>1. \A q \in Openings : typed[q] \subseteq Hints
          BY DEF PanelTypeOK
        <5>2. QED
          BY <2>2, <4>1, <5>1
      <4>3. /\ timer'[o] = None /\ \A p \in Openings \ {o} : timer'[p] = timer[p]
        BY <2>1 DEF PanelTypeOK
      <4>4. QED
        BY <4>2, <4>3
    <3>1. CASE stage[o] # "open"
      <4>1. \A q \in Openings : typed'[q] = typed[q]
        BY <2>1, <3>1 DEF PanelTypeOK
      <4>2. QED
        BY <2>1, <3>0, <4>1
    <3>2. CASE stage[o] = "open"
      <4>1. typed'[o] = typed[o] \cup {timer[o]} /\ \A p \in Openings \ {o} : typed'[p] = typed[p]
        BY <2>1, <3>2 DEF PanelTypeOK
      <4>2. \A p \in Openings \ overlapped : p # o /\ o \notin overlapped => stage[p] # "open"
        BY <3>2 DEF ShellInv, SocketIsPanel
      <4>3. \A p \in Openings \ overlapped :
              p # o /\ o \notin overlapped => timer[o] \notin typed[p]
        BY <2>1, <3>2
      <4>4. \A p \in Openings : pending' \notin typed'[p]
        BY <2>1, PanelConstants DEF PanelTypeOK
      <4>5. ASSUME NEW q \in Openings, NEW h \in typed'[q]
            PROVE  /\ HintServer[h] = Server
                   /\ h \in offered' /\ pending' # h
        BY <2>1, <2>2, <4>1, <4>4, <4>5
      <4>6. ASSUME NEW q \in Openings \ overlapped, NEW h \in typed'[q],
                   NEW p \in Openings \ overlapped, p # q
            PROVE  /\ timer'[p] = h => stage[p] # "open"
                   /\ h \notin typed'[p]
        <5>0. h # None /\ overlapped' = overlapped
          BY <2>1, <3>0, <4>6
        <5>1. ASSUME h \in typed[q]
              PROVE  /\ timer[p] = h => stage[p] # "open"
                     /\ h \notin typed[p]
          <6>1. p \in Openings \ overlapped /\ q \in Openings \ overlapped /\ p # q
            BY <4>6
          <6>2. \A g \in typed[q] : /\ timer[p] = g => stage[p] # "open"
                                    /\ g \notin typed[p]
            BY <6>1
          <6>3. QED
            BY <5>1, <6>2
        <5>2. CASE q = o
          <6>1. p # o /\ timer'[p] = timer[p] /\ typed'[p] = typed[p]
            BY <3>0, <4>1, <4>6, <5>2
          <6>2. stage[p] # "open"
            BY <4>2, <4>6, <5>2
          <6>3. h \notin typed[p]
            BY <4>1, <4>3, <4>6, <5>1, <5>2
          <6>4. QED
            BY <6>1, <6>2, <6>3
        <5>3. CASE q # o /\ p = o
          <6>1. h \in typed[q] /\ h # timer[o]
            BY <3>2, <4>1, <4>6, <5>1, <5>3
          <6>2. QED
            BY <3>0, <4>1, <5>0, <5>1, <5>3, <6>1
        <5>4. CASE q # o /\ p # o
          BY <3>0, <4>1, <4>6, <5>1, <5>4
        <5>5. QED
          BY <5>2, <5>3, <5>4
      <4>7. QED
        <5>1. \A q \in Openings : \A h \in typed'[q] : \A p \in Openings \ overlapped :
                q \notin overlapped /\ p # q =>
                  /\ timer'[p] = h => stage[p] # "open"
                  /\ h \notin typed'[p]
          BY <4>6
        <5>2. QED
          BY <2>1, <4>5, <5>1
    <3>3. QED
      BY <3>1, <3>2
  <2>5. QED
    BY <2>3, <2>4
<1>9. ASSUME NEW o \in Openings, OnClosedMessage(o) \/ OnClose(o) PROVE HintInv'
  <2>1. /\ stage'[o] = stage[o] \/ stage'[o] = "closed"
        /\ \A p \in Openings \ {o} : stage'[p] = stage[p]
        /\ UNCHANGED <<hintVars, overlapped>>
    BY <1>9 DEF OnClosedMessage, OnClose, PanelTypeOK
  <2>2. QED
    BY <1>3, <2>1
<1>10. QED
  BY <1>1, <1>2, <1>4, <1>5, <1>6, <1>7, <1>8, <1>9
     DEF PanelNext, OpenNext, SocketNext, ResizeObserver, Resize, panelVars

\* Every step keeps the part about sizes.
LEMMA SizeStep == PanelTypeOK /\ ShellInv /\ SizeInv /\ [PanelNext]_panelVars => SizeInv'
<1> SUFFICES ASSUME PanelTypeOK, ShellInv, SizeInv, [PanelNext]_panelVars PROVE SizeInv'
  OBVIOUS
<1> USE PanelConstants DEF SizeInv
<1>1. ASSUME UNCHANGED <<stage, current, sizeVars>> PROVE SizeInv'
  BY <1>1 DEF sizeVars
<1>2. CASE CloseButton
  BY <1>2 DEF CloseButton
<1>3. ASSUME NEW o \in Openings, OpenTerminal(o) PROVE SizeInv'
  BY <1>3 DEF OpenTerminal
<1>4. ASSUME NEW o \in Openings, EnsureXtermLoaded(o) \/ OpeningFails(o) \/ OnClose(o)
      PROVE  SizeInv'
  <2>1. /\ \A p \in Openings : stage'[p] = "open" => stage[p] = "open"
        /\ UNCHANGED <<current, sizeVars>>
    BY <1>4 DEF EnsureXtermLoaded, OpeningFails, OnClose, PanelTypeOK
  <2>2. QED
    BY <2>1 DEF sizeVars, PanelTypeOK
<1>5. ASSUME NEW o \in Openings, MintSession(o) PROVE SizeInv'
  BY <1>5 DEF MintSession
<1>6. ASSUME NEW o \in Openings, OnOpen(o) PROVE SizeInv'
  BY <1>6 DEF OnOpen, PanelTypeOK
<1>7. ASSUME NEW o \in Openings, Prefill(o) \/ OnClosedMessage(o) PROVE SizeInv'
  BY <1>1, <1>7 DEF Prefill, OnClosedMessage
<1>8. ASSUME NEW o \in Openings, ResizeObserver(o) PROVE SizeInv'
  BY <1>8 DEF ResizeObserver, Fitted, PanelTypeOK
<1>9. ASSUME NEW n \in Sizes, Resize(n) PROVE SizeInv'
  BY <1>9 DEF Resize, ShellInv, PanelBuilt
<1>10. QED
  BY <1>1, <1>2, <1>3, <1>4, <1>5, <1>6, <1>7, <1>8, <1>9
     DEF PanelNext, OpenNext, SocketNext, Suggest, panelVars

\* The panel, the suggestions and the sizes in one inductive invariant, on top
\* of the types (openTerminal, teardown and the handlers of the socket).
THEOREM PanelInvariance == PanelSpec => []PanelInv
<1>1. PanelTypeOK /\ ShellInv /\ HintInv /\ SizeInv /\ [PanelNext]_panelVars
        => ShellInv' /\ HintInv' /\ SizeInv'
  BY ShellStep, HintStep, SizeStep
<1>2. QED
  BY <1>1, PanelInvInit, PanelTypeCorrect, PTL DEF PanelSpec, PanelInv

\* No shell is left where no key and no Close reaches it, and "Connected" is true
\* (teardown, openTerminal), for any number of openings.
THEOREM ShellIsReached == PanelSpec => []PanelHasTheShell
<1>1. PanelInv => PanelHasTheShell
  BY PanelConstants DEF PanelInv, PanelTypeOK, ShellInv, SocketIsPanel, ConnectedIsOpen, PanelHasTheShell, Keyboard, Keybar
<1>2. QED
  BY <1>1, PanelInvariance, PTL

\* A suggestion is typed for the server it names, and once (onopen), for any
\* number of suggestions.
THEOREM HintOnce == PanelSpec => []HintTypedOnce
<1>1. PanelInv => HintTypedOnce
  BY DEF PanelInv, HintInv, TypedIsSpent, HintTypedOnce
<1>2. QED
  BY <1>1, PanelInvariance, PTL

\* The shell of the panel knows the size of the host once the observers have run
\* (fit, onopen, the ResizeObserver).
THEOREM ShellHasSize == PanelSpec => []SizeFollows
<1>1. PanelInv => SizeFollows
  BY DEF PanelInv, SizeInv, SizeFollows
<1>2. QED
  BY <1>1, PanelInvariance, PTL

-----------------------------------------------------------------------------
(* The list of servers. *)

Entry == [id : Ids, status : {"online", "offline"}]

\* What a list has are servers.
LEMMA EntriesListed ==
  \A list \in Seq(Entry) :
    /\ Len(list) \in Nat
    /\ \A n \in 1..Len(list) : list[n] \in Entry /\ list[n].id \in Ids
    /\ Listed(list) \subseteq Ids
<1> TAKE list \in Seq(Entry)
<1>1. Len(list) \in Nat /\ \A n \in 1..Len(list) : list[n] \in Entry
  OBVIOUS
<1>2. \A e \in Entry : e.id \in Ids
  BY DEF Entry
<1>3. QED
  BY <1>1, <1>2 DEF Listed

\* The list that the hub answers is a sequence of entries.
LEMMA ViewTyped ==
  ASSUME registry \subseteq Ids
  PROVE  View \in Seq(Entry)
<1> DEFINE E(i) == [id |-> i, status |-> IF i \in online THEN "online" ELSE "offline"]
           S == {E(i) : i \in registry}
           f == [i \in registry |-> E(i)]
<1>1. IsFiniteSet(registry)
  BY TabsConstants, FS_Subset
<1>2. f \in Surjection(registry, S)
  BY DEF Surjection
<1>3. IsFiniteSet(S)
  BY <1>1, <1>2, FS_Surjection
<1>4. S \subseteq Entry
  BY DEF Entry
<1> HIDE DEF S
<1>5. Cardinality(S) \in Nat /\ \E g \in [1..Cardinality(S) -> S] : IsInjective(g)
  BY <1>3, FS_CardinalityType DEF ExistsBijection, Bijection, Injection
<1>6. SetToSeq(S) \in [1..Cardinality(S) -> S]
  BY <1>5 DEF SetToSeq
<1>7. SetToSeq(S) \in Seq(Entry)
  BY <1>4, <1>5, <1>6
<1>8. QED
  BY <1>7 DEF View, S

\* The k-th of a finite set of numbers is the one with k of them up to it.
LEMMA KthOfSet ==
  ASSUME NEW K \in SUBSET Nat, IsFiniteSet(K)
  PROVE  /\ Cardinality(K) \in Nat
         /\ \A k \in 1..Cardinality(K) : \E n \in K : Cardinality({m \in K : m <= n}) = k
         /\ \A n \in K : Cardinality({m \in K : m <= n}) \in 1..Cardinality(K)
         /\ \A n, o \in K : Cardinality({m \in K : m <= n}) = Cardinality({m \in K : m <= o})
                              => n = o
<1> DEFINE UpTo(n) == {m \in K : m <= n}
           rank == [n \in K |-> Cardinality(UpTo(n))]
<1>1. Cardinality(K) \in Nat
  BY FS_CardinalityType
<1>2. \A n \in K : IsFiniteSet(UpTo(n)) /\ Cardinality(UpTo(n)) <= Cardinality(K)
  BY FS_Subset
<1>3. \A n \in K : Cardinality(UpTo(n)) \in 1..Cardinality(K)
  <2> TAKE n \in K
  <2>1. Cardinality(UpTo(n)) \in Nat
    BY <1>2, FS_CardinalityType
  <2>2. n \in UpTo(n)
    OBVIOUS
  <2>3. Cardinality(UpTo(n)) # 0
    BY <1>2, <2>2, FS_EmptySet
  <2>4. QED
    BY <1>1, <1>2, <2>1, <2>3
<1>4. \A n, o \in K : n < o => Cardinality(UpTo(n)) # Cardinality(UpTo(o))
  <2> SUFFICES ASSUME NEW n \in K, NEW o \in K, n < o,
                      Cardinality(UpTo(n)) = Cardinality(UpTo(o))
               PROVE  FALSE
    OBVIOUS
  <2>1. o \in UpTo(o) /\ o \notin UpTo(n)
    OBVIOUS
  <2>4. UpTo(n) \in SUBSET UpTo(o)
    <3>1. \A m \in K : m <= n => m <= o
      OBVIOUS
    <3>2. QED
      BY <3>1
  <2>2. UpTo(n) = UpTo(o)
    BY <1>2, <2>4, FS_Subset
  <2>3. QED
    BY <2>1, <2>2
<1>5. \A n, o \in K : Cardinality(UpTo(n)) = Cardinality(UpTo(o)) => n = o
  BY <1>4
<1> HIDE DEF UpTo
<1>6. rank \in Injection(K, 1..Cardinality(K))
  BY <1>3, <1>5 DEF Injection, IsInjective
<1>7. IsFiniteSet(1..Cardinality(K)) /\ Cardinality(1..Cardinality(K)) = Cardinality(K)
  BY <1>1, FS_Interval
<1>8. rank \in Surjection(K, 1..Cardinality(K))
  BY <1>6, <1>7, FS_Injection
<1>9. \A k \in 1..Cardinality(K) : \E n \in K : Cardinality(UpTo(n)) = k
  BY <1>8 DEF Surjection
<1>10. QED
  BY <1>1, <1>3, <1>5, <1>9 DEF UpTo

\* Taking a server off the list leaves entries, and takes no other server off.
LEMMA WithoutKeeps ==
  ASSUME NEW list \in Seq(Entry), NEW i
  PROVE  /\ Without(list, i) \in Seq(Entry)
         /\ Listed(list) \ {i} \subseteq Listed(Without(list, i))
<1> DEFINE K == {n \in DOMAIN list : list[n].id # i}
           Rank(n) == Cardinality({m \in K : m <= n})
           w == [k \in 1..Cardinality(K) |-> list[CHOOSE n \in K : Rank(n) = k]]
<1>1. DOMAIN list = 1..Len(list) /\ Len(list) \in Nat /\ \A n \in 1..Len(list) : list[n] \in Entry
  BY LenProperties, ElementOfSeq
<1>2. K \in SUBSET Nat /\ IsFiniteSet(K)
  <2>1. K \in SUBSET (1..Len(list)) /\ IsFiniteSet(1..Len(list))
    BY <1>1, FS_Interval
  <2>2. QED
    BY <1>1, <2>1, FS_Subset
<1>3. /\ Cardinality(K) \in Nat
      /\ \A k \in 1..Cardinality(K) : \E n \in K : Rank(n) = k
      /\ \A n \in K : Rank(n) \in 1..Cardinality(K)
      /\ \A n, o \in K : Rank(n) = Rank(o) => n = o
  BY <1>2, KthOfSet
<1>4. \A n \in K : n \in 1..Len(list) /\ list[n] \in Entry /\ list[n].id # i
  BY <1>1
<1>5. \A n \in 1..Len(list) : list[n].id # i => n \in K
  BY <1>1
<1>6. w = Without(list, i)
  BY DEF Without
<1> HIDE DEF K, Rank
<1>7. \A k \in 1..Cardinality(K) : w[k] \in Entry
  BY <1>3, <1>4
<1>8. w \in Seq(Entry) /\ Len(w) = Cardinality(K)
  BY <1>3, <1>7
<1>9. \A n \in K : w[Rank(n)] = list[n] /\ Rank(n) \in 1..Len(w)
  BY <1>3, <1>8
<1> HIDE DEF w
<1>10. ASSUME NEW s \in Listed(list), s # i
       PROVE  s \in Listed(w)
  <2>1. PICK n \in 1..Len(list) : list[n].id = s
    BY <1>10 DEF Listed
  <2>2. n \in K
    BY <1>5, <1>10, <2>1
  <2>3. QED
    BY <1>9, <2>1, <2>2 DEF Listed
<1>11. QED
  BY <1>6, <1>8, <1>10

-----------------------------------------------------------------------------
(* The tabs. *)

\* The DELETEs and POSTs of the page.
TabRequests == [kind : {"none", "delete", "add"}, id : Ids, stage : {"sent", "done"}]

\* TabsTypeOK, and the answers on their way are finitely many.
TabsTyped == TabsTypeOK /\ IsFiniteSet(answers)

\* The snapshot of the poller, once answered, is there.
PanelKept == boot = "answered" => panel # "none"

TabsInv == TabsTyped /\ PanelKept /\ SelectionListed

LEMMA TabsInvInit == TabsInit => TabsInv
<1> SUFFICES ASSUME TabsInit PROVE TabsInv
  OBVIOUS
<1>1. servers \in Seq(Entry) /\ IsFiniteSet(answers)
  BY FS_EmptySet DEF TabsInit
<1>2. /\ registry \subseteq Ids /\ online \subseteq registry
      /\ unminted \subseteq Ids \ registry
  BY DEF TabsInit
<1>4. /\ answers \subseteq Seq(Entry) /\ asked \in 0..MaxPolls
      /\ request \in [Requests -> TabRequests]
  BY TabsConstants DEF TabsInit, TabRequests, NoRequest
<1>5. TabsTypeOK
  BY <1>1, <1>2, <1>4 DEF TabsInit, TabsTypeOK, Entry, TabRequests
<1>3. QED
  BY <1>1, <1>5 DEF TabsInit, TabsInv, TabsTyped, PanelKept, SelectionListed

\* The hub and the poller.
LEMMA HubTabs ==
  ASSUME TabsInv, HubNext
  PROVE  TabsInv'
<1> USE DEF TabsInv, TabsTyped, TabsTypeOK
<1>1. ASSUME NEW i \in Ids, AgentConnects(i) \/ AgentLeaves(i) \/ RemovedElsewhere(i)
      PROVE  TabsInv'
  <2>1. UNCHANGED <<servers, viewVars, cards, pollVars, request, panel, boot, dropped>>
    BY <1>1 DEF AgentConnects, AgentLeaves, RemovedElsewhere
  <2>2. /\ registry' \subseteq Ids /\ online' \subseteq registry'
        /\ unminted' \subseteq Ids \ registry'
    BY <1>1, TabsConstants DEF AgentConnects, AgentLeaves, RemovedElsewhere
  <2>3. QED
    BY <2>1, <2>2 DEF viewVars, pollVars, PanelKept, SelectionListed, available, Listed
<1>2. ASSUME NEW delivered \in BOOLEAN, Refresh(delivered)
      PROVE  TabsInv'
  <2>1. /\ panel' \in {"none", "latest", "stale"}
        /\ panel # "none" => panel' # "none"
    BY <1>2 DEF Refresh, IngestRuns
  <2>2. UNCHANGED <<hubVars, servers, viewVars, cards, pollVars, request, boot, dropped>>
    BY <1>2 DEF Refresh
  <2>3. QED
    BY <2>1, <2>2 DEF hubVars, viewVars, pollVars, PanelKept, SelectionListed, available, Listed
<1>3. QED
  BY <1>1, <1>2 DEF HubNext

\* What the page starts with, and the routes and the clicks: a queued event
\* excuses the tab, and one that is followed names the tab that is taken.
LEMMA RouteTabs ==
  ASSUME TabsInv, RouteNext \/ Ready
  PROVE  TabsInv'
<1> DEFINE Routes == Ids \cup {ALL_SERVERS, GITHUB_TAB}
           Chosen(id) == \/ id = ALL_SERVERS
                         \/ id = GITHUB_TAB /\ available'
                         \/ id \in Listed(servers) \cup dropped
<1>1. Listed(servers) \subseteq Ids
  <2>1. servers \in Seq(Entry)
    BY DEF TabsInv, TabsTyped, TabsTypeOK, Entry
  <2>2. QED
    BY <2>1, EntriesListed
<1>2. ASSUME NEW h \in Routes
      PROVE  /\ Route(h, servers) \in Routes
             /\ \/ Route(h, servers) = ALL_SERVERS
                \/ Route(h, servers) = GITHUB_TAB /\ available
                \/ Route(h, servers) \in Listed(servers)
  BY <1>1 DEF Route
<1>3. CASE ApplyRoute
  <2>1. PICK id : /\ id = Route(hash, servers) /\ currentId' = id /\ hash' = id
                  /\ changed' = (hash # id)
                  /\ IF id = ALL_SERVERS THEN RenderOverview(servers) ELSE UNCHANGED cards
    BY <1>3 DEF ApplyRoute
  <2>2. UNCHANGED <<hubVars, servers, pollVars, request, panel, boot, dropped>>
    BY <1>3 DEF ApplyRoute
  <2>3. hash \in Routes
    BY DEF TabsInv, TabsTyped, TabsTypeOK
  <2>4. id \in Routes /\ Chosen(id)
    BY <1>2, <2>1, <2>2, <2>3 DEF available
  <2>5. cards' \subseteq Ids
    BY <1>1, <2>1 DEF RenderOverview, TabsInv, TabsTyped, TabsTypeOK
  <2>6. TabsTyped'
    BY <2>1, <2>2, <2>4, <2>5 DEF TabsInv, TabsTyped, TabsTypeOK, hubVars, pollVars
  <2>7. PanelKept' /\ SelectionListed'
    BY <2>1, <2>2, <2>4 DEF TabsInv, PanelKept, SelectionListed, Listed
  <2>8. QED
    BY <2>6, <2>7 DEF TabsInv
<1>4. ASSUME NEW h \in Routes, Navigate(h)
      PROVE  TabsInv'
  <2>1. /\ hash' = h /\ changed' = (boot = "ready")
        /\ UNCHANGED <<hubVars, servers, currentId, cards, pollVars, request, panel,
                       boot, dropped>>
    BY <1>4 DEF Navigate
  <2>2. TabsTyped'
    BY <2>1 DEF TabsInv, TabsTyped, TabsTypeOK, hubVars, pollVars
  <2>3. PanelKept' /\ SelectionListed'
    BY <2>1 DEF TabsInv, PanelKept, SelectionListed
  <2>4. QED
    BY <2>2, <2>3 DEF TabsInv
<1>5. ASSUME NEW id \in Routes, Select(id, servers),
             UNCHANGED <<hubVars, servers, pollVars, request, panel, dropped>>,
             boot' = "ready", PanelKept', changed' \/ Chosen(id)
      PROVE  TabsInv'
  <2>1. /\ currentId' = id /\ hash' = id /\ changed' = (changed \/ hash # id)
    BY <1>5 DEF Select
  <2>2. cards' \subseteq Ids
    BY <1>1, <1>5 DEF Select, RenderOverview, TabsInv, TabsTyped, TabsTypeOK
  <2>3. TabsTyped'
    BY <1>5, <2>1, <2>2 DEF TabsInv, TabsTyped, TabsTypeOK, hubVars, pollVars
  <2>4. SelectionListed'
    BY <1>5, <2>1 DEF SelectionListed, Listed
  <2>5. QED
    BY <1>5, <2>3, <2>4 DEF TabsInv
<1>6. ASSUME NEW id \in Routes, Click(id)
      PROVE  TabsInv'
  <2>1. /\ boot = "ready" /\ Select(id, servers)
        /\ UNCHANGED <<hubVars, servers, pollVars, request, panel, boot, dropped>>
    BY <1>6 DEF Click
  <2>2. PanelKept' /\ available' = available
    BY <2>1 DEF PanelKept, available
  <2>3. changed' \/ Chosen(id)
    <3>1. CASE currentId = ALL_SERVERS
      BY <2>1, <3>1 DEF Select, TabsInv, SelectionListed
    <3>2. CASE currentId # ALL_SERVERS
      BY <1>6, <2>2, <3>2 DEF Click
    <3>3. QED
      BY <3>1, <3>2
  <2>4. QED
    BY <1>5, <2>1, <2>2, <2>3
<1>7. CASE Ready
  <2>1. PICK id : /\ id = IF hash = GITHUB_TAB /\ boot = "answered" THEN hash
                          ELSE Route(hash, servers)
                  /\ Select(id, servers)
    BY <1>7 DEF Ready
  <2>2. /\ boot \in {"actions", "answered"} /\ boot' = "ready"
        /\ UNCHANGED <<hubVars, servers, pollVars, request, panel, dropped>>
    BY <1>7 DEF Ready
  <2>3. hash \in Routes
    BY DEF TabsInv, TabsTyped, TabsTypeOK
  <2>4. id \in Routes /\ Chosen(id)
    BY <1>2, <2>1, <2>2, <2>3 DEF available, TabsInv, PanelKept
  <2>5. PanelKept'
    BY <2>2 DEF PanelKept
  <2>6. QED
    BY <1>5, <2>1, <2>2, <2>4, <2>5
<1>8. QED
  BY <1>3, <1>4, <1>6, <1>7 DEF RouteNext

\* The list is fetched, and the metrics that arrive mark its servers.
LEMMA ListTabs ==
  ASSUME TabsInv, ListNext \/ FirstList \/ AnswerSnapshot
  PROVE  TabsInv'
<1>1. View \in Seq(Entry)
  BY ViewTyped DEF TabsInv, TabsTyped, TabsTypeOK
<1>2. \A list \in Seq(Entry) : Listed(list) \subseteq Ids
  BY EntriesListed
<1>3. servers \in Seq(Entry) /\ answers \subseteq Seq(Entry)
  BY DEF TabsInv, TabsTyped, TabsTypeOK, Entry
<1>4. CASE FirstList
  <2>1. /\ servers' \in Seq(Entry) /\ boot' = "actions"
        /\ UNCHANGED <<hubVars, viewVars, cards, pollVars, request, panel, dropped>>
    <3>1. servers' = View \/ servers' = <<>>
      BY <1>4 DEF FirstList
    <3>2. <<>> \in Seq(Entry)
      OBVIOUS
    <3>3. servers' \in Seq(Entry)
      BY <1>1, <3>1, <3>2
    <3>4. QED
      BY <1>4, <3>3 DEF FirstList
  <2>2. TabsTyped'
    BY <2>1 DEF TabsInv, TabsTyped, TabsTypeOK, Entry, hubVars, viewVars, pollVars
  <2>3. QED
    BY <2>1, <2>2 DEF TabsInv, PanelKept, SelectionListed
<1>5. CASE AnswerSnapshot
  <2>1. /\ boot' = "answered" /\ panel' = "latest"
        /\ UNCHANGED <<hubVars, servers, viewVars, cards, pollVars, request, dropped>>
    BY <1>5 DEF AnswerSnapshot
  <2>2. TabsTyped'
    BY <2>1 DEF TabsInv, TabsTyped, TabsTypeOK, hubVars, viewVars, pollVars
  <2>3. QED
    BY <2>1, <2>2 DEF TabsInv, PanelKept, SelectionListed
<1>6. CASE Poll \/ AnswerPoll \/ PollFails
  <2>1. UNCHANGED <<hubVars, servers, viewVars, cards, request, panel, boot, dropped>>
    BY <1>6 DEF Poll, AnswerPoll, PollFails
  <2>2. asked' \in 0..MaxPolls
    <3>1. asked \in 0..MaxPolls /\ Cardinality(answers) \in Nat /\ MaxPolls \in Nat
      BY TabsConstants, FS_CardinalityType DEF TabsInv, TabsTyped, TabsTypeOK
    <3>2. CASE Poll
      BY <3>1, <3>2 DEF Poll
    <3>3. CASE AnswerPoll \/ PollFails
      BY <3>1, <3>3 DEF AnswerPoll, PollFails
    <3>4. QED
      BY <1>6, <3>2, <3>3
  <2>3. answers' \subseteq Seq(Entry) /\ IsFiniteSet(answers')
    <3>1. answers' = answers \/ answers' = answers \cup {View}
      BY <1>6 DEF Poll, AnswerPoll, PollFails
    <3>2. IsFiniteSet(answers) /\ IsFiniteSet(answers \cup {View})
      BY FS_AddElement DEF TabsInv, TabsTyped
    <3>3. QED
      BY <1>1, <1>3, <3>1, <3>2
  <2>4. TabsTyped'
    BY <2>1, <2>2, <2>3 DEF TabsInv, TabsTyped, TabsTypeOK, Entry, hubVars, viewVars
  <2>5. QED
    BY <2>1, <2>4 DEF TabsInv, PanelKept, SelectionListed, available, viewVars, Listed
<1>7. ASSUME NEW a \in answers, FetchServers(a)
      PROVE  TabsInv'
  <2>1. /\ servers' = a /\ answers' = answers \ {a}
        /\ dropped' = (dropped \cup Listed(servers)) \ Listed(servers')
        /\ IF currentId = ALL_SERVERS THEN cards' = Listed(servers') ELSE UNCHANGED cards
        /\ UNCHANGED <<hubVars, viewVars, asked, request, panel, boot>>
    BY <1>7 DEF FetchServers, TakeAnswer, RenderOverview
  <2>2. servers' \in Seq(Entry)
    BY <1>3, <2>1
  <2>3. dropped' \subseteq Ids /\ cards' \subseteq Ids
    BY <1>2, <1>3, <2>1, <2>2 DEF TabsInv, TabsTyped, TabsTypeOK
  <2>4. IsFiniteSet(answers')
    BY <2>1, FS_RemoveElement DEF TabsInv, TabsTyped
  <2>5. TabsTyped'
    BY <2>1, <2>2, <2>3, <2>4 DEF TabsInv, TabsTyped, TabsTypeOK, Entry, hubVars, viewVars
  <2>6. Listed(servers) \cup dropped \subseteq Listed(servers') \cup dropped'
    BY <2>1
  <2>7. SelectionListed'
    BY <2>1, <2>6 DEF TabsInv, SelectionListed, available, viewVars
  <2>8. QED
    BY <2>1, <2>5, <2>7 DEF TabsInv, PanelKept
<1>8. ASSUME NEW i \in Ids, IngestEnvelope(i)
      PROVE  TabsInv'
  <2>1. UNCHANGED <<hubVars, viewVars, pollVars, request, panel, boot, dropped>>
    BY <1>8 DEF IngestEnvelope
  <2>2. /\ servers' \in Seq(Entry) /\ Len(servers') = Len(servers)
        /\ \A n \in 1..Len(servers) : servers'[n].id = servers[n].id
    <3> DEFINE Marked(n) == servers[n].id = i /\ \A m \in 1..(n - 1) : servers[m].id # i
               Entry_(n) == IF Marked(n) THEN [servers[n] EXCEPT !.status = "online"]
                            ELSE servers[n]
    <3>1. servers' = [n \in 1..Len(servers) |-> Entry_(n)]
      BY <1>8 DEF IngestEnvelope
    <3> HIDE DEF Marked
    <3>2. \A n \in 1..Len(servers) : Entry_(n) \in Entry /\ Entry_(n).id = servers[n].id
      <4>1. \A n \in 1..Len(servers) : servers[n] \in Entry
        BY <1>3, EntriesListed
      <4>2. \A e \in Entry : /\ [e EXCEPT !.status = "online"] \in Entry
                             /\ [e EXCEPT !.status = "online"].id = e.id
        BY DEF Entry
      <4>3. QED
        BY <4>1, <4>2
    <3> HIDE DEF Entry_
    <3>3. Len(servers) \in Nat
      BY <1>3
    <3>4. QED
      BY <3>1, <3>2, <3>3
  <2>3. Listed(servers') = Listed(servers)
    BY <2>2 DEF Listed
  <2>4. cards' \subseteq Ids
    BY <1>2, <1>8, <2>2 DEF IngestEnvelope, RenderOverview, TabsInv, TabsTyped, TabsTypeOK
  <2>5. TabsTyped'
    BY <2>1, <2>2, <2>4 DEF TabsInv, TabsTyped, TabsTypeOK, Entry, hubVars, viewVars, pollVars
  <2>6. SelectionListed'
    BY <2>1, <2>3 DEF TabsInv, SelectionListed, available, viewVars
  <2>7. QED
    BY <2>1, <2>5, <2>6 DEF TabsInv, PanelKept
<1>9. QED
  BY <1>4, <1>5, <1>6, <1>7, <1>8 DEF ListNext

\* A server is added or removed: the page leaves the tab it takes off the list.
LEMMA AddOrRemoveTabs ==
  ASSUME TabsInv, AddOrRemove
  PROVE  TabsInv'
<1> USE DEF TabsInv
<1>1. servers \in Seq(Entry)
  BY DEF TabsTyped, TabsTypeOK, Entry
<1>2. Listed(servers) \subseteq Ids /\ Len(servers) \in Nat
  BY <1>1, EntriesListed
<1>9. request \in [Requests -> TabRequests] /\ NoRequest \in TabRequests
  BY TabsConstants DEF TabsTyped, TabsTypeOK, TabRequests, NoRequest
<1>3. ASSUME NEW r \in Requests, NEW i \in Ids,
             \/ MintServer(r) \/ DeleteServer(r, i) \/ HubDeletes(r) \/ HubMints(r, i)
             \/ RequestFails(r)
      PROVE  TabsInv'
  <2>1. UNCHANGED <<servers, viewVars, cards, pollVars, panel, boot, dropped>>
    BY <1>3 DEF MintServer, DeleteServer, HubDeletes, HubMints, RequestFails
  <2>2. /\ registry' \subseteq Ids /\ online' \subseteq registry'
        /\ unminted' \subseteq Ids \ registry'
    BY <1>3 DEF MintServer, DeleteServer, HubDeletes, HubMints, RequestFails, hubVars, TabsTyped,
                TabsTypeOK
  <2>3. request' \in [Requests -> TabRequests]
    <3>1. PICK q \in TabRequests : request' = [request EXCEPT ![r] = q]
      <4>1. CASE HubDeletes(r)
        <5> DEFINE q == [request[r] EXCEPT !.stage = "done"]
        <5>1. q \in TabRequests
          BY <1>9 DEF TabRequests
        <5>2. request' = [request EXCEPT ![r] = q]
          BY <1>9, <4>1 DEF HubDeletes
        <5>3. QED
          BY <5>1, <5>2
      <4>2. CASE MintServer(r) \/ DeleteServer(r, i) \/ HubMints(r, i) \/ RequestFails(r)
        <5>1. /\ [kind |-> "add", id |-> Local, stage |-> "sent"] \in TabRequests
              /\ [kind |-> "delete", id |-> i, stage |-> "sent"] \in TabRequests
              /\ [kind |-> "add", id |-> i, stage |-> "done"] \in TabRequests
          BY TabsConstants DEF TabRequests
        <5>2. QED
          BY <1>9, <4>2, <5>1 DEF MintServer, DeleteServer, HubMints, RequestFails
      <4>3. QED
        BY <1>3, <4>1, <4>2
    <3>2. QED
      BY <1>9, <3>1
  <2>4. TabsTyped'
    BY <2>1, <2>2, <2>3 DEF TabsTyped, TabsTypeOK, viewVars, pollVars, TabRequests
  <2>5. QED
    BY <2>1, <2>4 DEF PanelKept, SelectionListed, available, viewVars, Listed
<1>4. ASSUME NEW r \in Requests, Minted(r)
      PROVE  TabsInv'
  <2> DEFINE i == request[r].id
             e == [id |-> i, status |-> "offline"]
  <2>0. i \in Ids
    BY <1>9 DEF TabRequests
  <2>1. /\ servers' = Append(servers, e) /\ dropped' = dropped \ {i}
        /\ request' = [request EXCEPT ![r] = NoRequest]
        /\ UNCHANGED <<hubVars, viewVars, cards, pollVars, panel, boot>>
    BY <1>4 DEF Minted
  <2> HIDE DEF i
  <2>8. request' \in [Requests -> TabRequests]
    BY <1>9, <2>1
  <2>2. e \in Entry /\ e.id = i
    BY <2>0 DEF Entry
  <2> HIDE DEF e
  <2>3. /\ servers' \in Seq(Entry) /\ Len(servers') = Len(servers) + 1
        /\ servers'[Len(servers) + 1] = e
        /\ \A n \in 1..Len(servers) : servers'[n] = servers[n]
    BY <1>1, <2>1, <2>2
  <2>4. Listed(servers') = Listed(servers) \cup {i}
    <3>2. 1..Len(servers') = (1..Len(servers)) \cup {Len(servers) + 1}
      BY <1>2, <2>3
    <3>3. QED
      BY <2>2, <2>3, <3>2 DEF Listed
  <2>5. TabsTyped'
    BY <2>1, <2>3, <2>8 DEF TabsTyped, TabsTypeOK, Entry, hubVars, viewVars, pollVars, TabRequests
  <2>6. SelectionListed'
    BY <2>1, <2>4 DEF SelectionListed, available, viewVars
  <2>7. QED
    BY <2>1, <2>5, <2>6 DEF PanelKept
<1>5. ASSUME NEW r \in Requests, Deleted(r)
      PROVE  TabsInv'
  <2> DEFINE i == request[r].id
  <2>0. i \in Ids
    BY <1>9 DEF TabRequests
  <2>1. /\ request' = [request EXCEPT ![r] = NoRequest]
        /\ servers' = Without(servers, i) /\ LeaveRemoved(i, servers')
        /\ UNCHANGED <<hubVars, pollVars, panel, boot, dropped>>
    BY <1>5 DEF Deleted
  <2> HIDE DEF i
  <2>7. request' \in [Requests -> TabRequests]
    BY <1>9, <2>1
  <2>2. servers' \in Seq(Entry) /\ Listed(servers) \ {i} \subseteq Listed(servers')
    BY <1>1, <2>1, WithoutKeeps
  <2>3. Listed(servers') \subseteq Ids
    BY <2>2, EntriesListed
  <2>4. CASE currentId = i
    <3>1. /\ currentId' = ALL_SERVERS /\ hash' = ALL_SERVERS
          /\ changed' \in BOOLEAN /\ cards' = Listed(servers')
      BY <2>1, <2>4 DEF LeaveRemoved, Select, RenderOverview, TabsTyped, TabsTypeOK
    <3>2. TabsTyped'
      BY <2>1, <2>2, <2>3, <2>7, <3>1 DEF TabsTyped, TabsTypeOK, Entry, hubVars, pollVars, TabRequests
    <3>3. QED
      BY <2>1, <3>1, <3>2 DEF PanelKept, SelectionListed
  <2>5. CASE currentId # i
    <3>1. UNCHANGED <<viewVars, cards>>
      BY <2>1, <2>5 DEF LeaveRemoved
    <3>2. TabsTyped'
      BY <2>1, <2>2, <2>7, <3>1 DEF TabsTyped, TabsTypeOK, Entry, hubVars, viewVars, pollVars,
                                   TabRequests
    <3>3. SelectionListed'
      BY <2>1, <2>2, <2>5, <3>1 DEF SelectionListed, available, viewVars
    <3>4. QED
      BY <2>1, <3>2, <3>3 DEF PanelKept
  <2>6. QED
    BY <2>4, <2>5
<1>6. Ids # {}
  BY TabsConstants
<1>7. QED
  BY <1>3, <1>4, <1>5, <1>6 DEF AddOrRemove

\* The tabs keep the invariant.
LEMMA TabsInvariance == TabsSpec => []TabsInv
<1>1. TabsInv /\ [TabsNext]_tabsVars => TabsInv'
  <2> SUFFICES ASSUME TabsInv, [TabsNext]_tabsVars PROVE TabsInv'
    OBVIOUS
  <2>1. CASE UNCHANGED tabsVars
    <3>1. UNCHANGED <<registry, online, unminted, boot, servers, currentId, hash, changed, cards,
                      asked, answers, request, panel, dropped>>
      BY <2>1 DEF tabsVars, hubVars, viewVars, pollVars
    <3>2. QED
      BY <3>1 DEF TabsInv, TabsTyped, TabsTypeOK, PanelKept, SelectionListed, available, Listed
  <2>2. QED
    BY <2>1, HubTabs, RouteTabs, ListTabs, AddOrRemoveTabs DEF TabsNext
<1>2. QED
  BY <1>1, TabsInvInit, PTL DEF TabsSpec

\* The hub, the list and what is on its way keep their types: whatever answers
\* overtake each other, state.servers stays a list of servers with a status.
THEOREM TabsTypeCorrect == TabsSpec => []TabsTypeOK
<1>1. TabsInv => TabsTypeOK
  BY DEF TabsInv, TabsTyped
<1>2. QED
  BY <1>1, TabsInvariance, PTL

\* When no hashchange is queued the location names the chosen tab, and the tab is
\* on the strip or was taken off it by the last fetch (setCurrentServer,
\* applyRoute, the handler of .tab-close).
THEOREM TabIsListed == TabsSpec => []SelectionListed
<1>1. TabsInv => SelectionListed
  BY DEF TabsInv
<1>2. QED
  BY <1>1, TabsInvariance, PTL
-----------------------------------------------------------------------------
(* The settings. *)

\* A pill shows the list that came last, or what is configured for the tab.
BodyTrue ==
  open =>
    /\ tab = "ai" /\ (\A r \in Refreshes : refresh[r].stage # "config") => pills = providers
    /\ tab # "ai" /\ config => pills = {tab} \cap Configured

\* Refreshes that did not cross are one at most.
OneRefresh ==
  ~crossed => \A r, s \in Refreshes : refresh[r] # IdleRefresh /\ refresh[s] # IdleRefresh => r = s

\* No change of a key is untold, no refresh crossed another, and none is still to
\* start.
Current == ~untold /\ ~crossed /\ \A c \in Changes : change[c].stage # "done"

\* What a refresh was answered, and what the panel knows after it, are the keys.
KnowsKeys ==
  Current =>
    /\ \A r \in Refreshes : refresh[r].stage = "answered" => refresh[r].got = keys
    /\ ~failed =>
         /\ \A r \in Refreshes : refresh[r].stage = "config" => providers = keys
         /\ open /\ ~Refreshing => providers = keys

SettingsInv == SettingsTypeOK /\ BodyTrue /\ OneRefresh /\ KnowsKeys

LEMMA SettingsInvInit == SettingsInit => SettingsInv
<1> SUFFICES ASSUME SettingsInit PROVE SettingsInv
  OBVIOUS
<1> USE DEF SettingsInit, IdleRefresh, IdleChange
<1>1. refresh \in [Refreshes -> [stage : RefreshStages, got : SUBSET Providers]]
  BY DEF RefreshStages
<1>2. change \in [Changes -> ChangesUnderWay]
  BY DEF ChangesUnderWay
<1>3. SettingsTypeOK
  BY <1>1, <1>2 DEF SettingsTypeOK, TABS
<1>4. QED
  BY <1>3 DEF SettingsInv, BodyTrue, OneRefresh, KnowsKeys

\* A rendering shows the list the panel has, or what is configured.
LEMMA Rendered ==
  ASSUME SettingsInv, NEW t \in TABS, NEW known \in BOOLEAN, RenderBody(t, known)
  PROVE  /\ t = "ai" => pills' = providers
         /\ t # "ai" /\ known => pills' = {t} \cap Configured
         /\ pills' \subseteq Providers \cup ConfigTabs
         /\ editable' \in BOOLEAN
<1>1. "ai" \notin ConfigTabs
  BY DEF ConfigTabs
<1>2. providers \subseteq Providers /\ me \in BOOLEAN
  BY DEF SettingsInv, SettingsTypeOK
<1>3. CASE t = "ai" /\ RenderAI
  BY <1>2, <1>3 DEF RenderAI
<1>4. CASE t \in ConfigTabs /\ RenderConfig(t, known)
  BY <1>1, <1>4 DEF RenderConfig
<1>5. QED
  BY <1>3, <1>4 DEF RenderBody

\* A refresh that starts has no answer, and crosses those that are under way.
LEMMA Started ==
  ASSUME SettingsInv, NEW r \in Refreshes, StartRefresh(r)
  PROVE  /\ refresh' \in [Refreshes -> [stage : RefreshStages, got : SUBSET Providers]]
         /\ refresh'[r].stage = "me"
         /\ \A s \in Refreshes \ {r} : refresh'[s] = refresh[s]
         /\ \A s \in Refreshes : refresh'[s].stage = "config" <=> refresh[s].stage = "config"
         /\ crossed' \in BOOLEAN /\ OneRefresh'
         /\ ~crossed' => \A s \in Refreshes \ {r} : refresh'[s] = IdleRefresh
         /\ Refreshing'
<1>1. refresh \in [Refreshes -> [stage : RefreshStages, got : SUBSET Providers]]
  BY DEF SettingsInv, SettingsTypeOK
<1>2. /\ refresh[r] = IdleRefresh /\ crossed' = Refreshing
      /\ refresh' = [refresh EXCEPT ![r] = [stage |-> "me", got |-> {}]]
  BY DEF StartRefresh
<1>3. [stage |-> "me", got |-> {}] \in [stage : RefreshStages, got : SUBSET Providers]
  BY DEF RefreshStages
<1>4. /\ refresh' \in [Refreshes -> [stage : RefreshStages, got : SUBSET Providers]]
      /\ refresh'[r] = [stage |-> "me", got |-> {}]
      /\ \A s \in Refreshes \ {r} : refresh'[s] = refresh[s]
  BY <1>1, <1>2, <1>3
<1>5. ~crossed' => \A s \in Refreshes \ {r} : refresh'[s] = IdleRefresh
  BY <1>2, <1>4 DEF Refreshing
<1>6. refresh'[r] # IdleRefresh
  BY <1>4 DEF IdleRefresh
<1>7. OneRefresh'
  BY <1>5 DEF OneRefresh
<1>8. crossed' \in BOOLEAN
  BY <1>2 DEF Refreshing
<1>9. Refreshing'
  BY <1>6 DEF Refreshing
<1>10. QED
  BY <1>2, <1>4, <1>5, <1>7, <1>8, <1>9 DEF IdleRefresh

\* The panel is opened or closed, or shows another tab.
LEMMA ShowSettings ==
  ASSUME SettingsInv,
         \/ Close
         \/ \E t \in TABS : SelectTab(t)
         \/ \E r \in Refreshes, t \in TABS : Open(r, t)
  PROVE  SettingsInv'
<1>1. CASE Close
  <2>1. /\ open' = FALSE /\ pills' = {} /\ editable' = FALSE
        /\ UNCHANGED <<keys, tab, me, providers, config, refresh, change, historyVars>>
    BY <1>1 DEF Close, RenderLoading
  <2>2. SettingsTypeOK'
    BY <2>1 DEF SettingsInv, SettingsTypeOK, historyVars
  <2>3. BodyTrue' /\ OneRefresh' /\ KnowsKeys'
    BY <2>1 DEF SettingsInv, BodyTrue, OneRefresh, KnowsKeys, Current, historyVars
  <2>4. QED
    BY <2>2, <2>3 DEF SettingsInv
<1>2. ASSUME NEW t \in TABS, SelectTab(t)
      PROVE  SettingsInv'
  <2>1. /\ open /\ tab' = t /\ RenderBody(t, config)
        /\ UNCHANGED <<keys, open, me, providers, config, refresh, change, historyVars>>
    BY <1>2 DEF SelectTab
  <2>2. config \in BOOLEAN
    BY DEF SettingsInv, SettingsTypeOK
  <2>3. /\ t = "ai" => pills' = providers
        /\ t # "ai" /\ config => pills' = {t} \cap Configured
        /\ pills' \subseteq Providers \cup ConfigTabs
        /\ editable' \in BOOLEAN
    BY <2>1, <2>2, Rendered
  <2>4. SettingsTypeOK'
    BY <2>1, <2>3 DEF SettingsInv, SettingsTypeOK, historyVars
  <2>5. BodyTrue'
    BY <2>1, <2>3 DEF BodyTrue
  <2>6. OneRefresh' /\ KnowsKeys'
    BY <2>1 DEF SettingsInv, OneRefresh, KnowsKeys, Current, Refreshing, historyVars
  <2>7. QED
    BY <2>4, <2>5, <2>6 DEF SettingsInv
<1>3. ASSUME NEW r \in Refreshes, NEW t \in TABS, Open(r, t)
      PROVE  SettingsInv'
  <2>1. /\ open' = TRUE /\ tab' = t /\ RenderBody(t, config) /\ StartRefresh(r)
        /\ UNCHANGED <<keys, me, providers, config, change, untold, failed>>
    BY <1>3 DEF Open
  <2>2. config \in BOOLEAN
    BY DEF SettingsInv, SettingsTypeOK
  <2>3. /\ t = "ai" => pills' = providers
        /\ t # "ai" /\ config => pills' = {t} \cap Configured
        /\ pills' \subseteq Providers \cup ConfigTabs
        /\ editable' \in BOOLEAN
    BY <2>1, <2>2, Rendered
  <2>4. /\ refresh' \in [Refreshes -> [stage : RefreshStages, got : SUBSET Providers]]
        /\ refresh'[r].stage = "me"
        /\ crossed' \in BOOLEAN /\ OneRefresh'
        /\ ~crossed' => \A s \in Refreshes \ {r} : refresh'[s] = IdleRefresh
        /\ Refreshing'
    BY <2>1, Started
  <2>5. SettingsTypeOK'
    BY <2>1, <2>3, <2>4 DEF SettingsInv, SettingsTypeOK
  <2>6. BodyTrue'
    BY <2>1, <2>3 DEF BodyTrue
  <2>7. KnowsKeys'
    BY <2>4 DEF KnowsKeys, Current, IdleRefresh
  <2>8. QED
    BY <2>4, <2>5, <2>6, <2>7 DEF SettingsInv
<1>4. QED
  BY <1>1, <1>2, <1>3

\* A refresh goes through its calls; only its last one renders.
LEMMA RefreshSettings ==
  ASSUME SettingsInv, NEW r \in Refreshes,
         \/ ListProviders(r)
         \/ \E ok \in BOOLEAN : RefreshMe(r, ok) \/ RefreshProviders(r, ok) \/ RefreshEnds(r, ok)
  PROVE  SettingsInv'
<1> DEFINE Calls == [stage : RefreshStages, got : SUBSET Providers]
<1>1. /\ refresh \in [Refreshes -> Calls] /\ keys \in SUBSET Providers
      /\ SettingsTypeOK /\ BodyTrue /\ OneRefresh /\ KnowsKeys
  BY DEF SettingsInv, SettingsTypeOK
<1>2. ASSUME NEW x \in Calls, refresh' = [refresh EXCEPT ![r] = x]
      PROVE  /\ refresh' \in [Refreshes -> Calls] /\ refresh'[r] = x
             /\ \A s \in Refreshes \ {r} : refresh'[s] = refresh[s]
  BY <1>1, <1>2
<1>3. ASSUME UNCHANGED crossed, refresh[r] # IdleRefresh,
             \A s \in Refreshes \ {r} : refresh'[s] = refresh[s]
      PROVE  /\ OneRefresh'
             /\ ~crossed => \A s \in Refreshes \ {r} : refresh'[s] = IdleRefresh
  <2>1. ~crossed => \A s \in Refreshes \ {r} : refresh'[s] = IdleRefresh
    BY <1>1, <1>3 DEF OneRefresh
  <2>2. QED
    BY <1>3, <2>1 DEF OneRefresh
<1>4. CASE ListProviders(r)
  <2> DEFINE x == [stage |-> "answered", got |-> keys]
  <2>1. /\ refresh[r].stage = "asked" /\ refresh' = [refresh EXCEPT ![r] = x]
        /\ untold' = FALSE
        /\ UNCHANGED <<keys, stateVars, bodyVars, change, failed, crossed>>
    BY <1>4 DEF ListProviders
  <2>2. x \in Calls
    BY <1>1 DEF RefreshStages
  <2>3. /\ refresh' \in [Refreshes -> Calls] /\ refresh'[r] = x
        /\ \A s \in Refreshes \ {r} : refresh'[s] = refresh[s]
    BY <1>2, <2>1, <2>2
  <2>4. /\ OneRefresh'
        /\ ~crossed => \A s \in Refreshes \ {r} : refresh'[s] = IdleRefresh
    BY <1>3, <2>1, <2>3 DEF IdleRefresh
  <2>5. SettingsTypeOK'
    BY <1>1, <2>1, <2>3 DEF SettingsTypeOK, stateVars, bodyVars
  <2>6. BodyTrue'
    <3>1. \A s \in Refreshes : refresh'[s].stage = "config" <=> refresh[s].stage = "config"
      BY <2>1, <2>3
    <3>2. QED
      BY <1>1, <2>1, <3>1 DEF BodyTrue, stateVars, bodyVars
  <2>7. KnowsKeys'
    <3>1. Refreshing'
      BY <2>3 DEF Refreshing, IdleRefresh
    <3>2. QED
      BY <2>1, <2>3, <2>4, <3>1 DEF KnowsKeys, Current, IdleRefresh
  <2>8. QED
    BY <2>4, <2>5, <2>6, <2>7 DEF SettingsInv
<1>5. ASSUME NEW ok \in BOOLEAN, RefreshMe(r, ok)
      PROVE  SettingsInv'
  <2> DEFINE x == [refresh[r] EXCEPT !.stage = "asked"]
  <2>1. /\ refresh[r].stage = "me" /\ me' = ok
        /\ refresh' = [refresh EXCEPT ![r] = x]
        /\ UNCHANGED <<keys, open, tab, providers, config, bodyVars, change, historyVars>>
    BY <1>5 DEF RefreshMe
  <2>2. x \in Calls /\ x.stage = "asked"
    BY <1>1 DEF RefreshStages
  <2> HIDE DEF x
  <2>3. /\ refresh' \in [Refreshes -> Calls] /\ refresh'[r] = x
        /\ \A s \in Refreshes \ {r} : refresh'[s] = refresh[s]
    BY <1>2, <2>1, <2>2
  <2>4. /\ OneRefresh'
        /\ ~crossed => \A s \in Refreshes \ {r} : refresh'[s] = IdleRefresh
    BY <1>3, <2>1, <2>3 DEF IdleRefresh, historyVars
  <2>5. SettingsTypeOK'
    BY <1>1, <2>1, <2>3 DEF SettingsTypeOK, bodyVars, historyVars
  <2>6. BodyTrue'
    <3>1. \A s \in Refreshes : refresh'[s].stage = "config" <=> refresh[s].stage = "config"
      BY <2>1, <2>2, <2>3
    <3>2. QED
      BY <1>1, <2>1, <3>1 DEF BodyTrue, bodyVars
  <2>7. KnowsKeys'
    <3>1. Refreshing'
      BY <2>2, <2>3 DEF Refreshing, IdleRefresh
    <3>2. QED
      BY <2>1, <2>2, <2>3, <2>4, <3>1 DEF KnowsKeys, Current, IdleRefresh, historyVars
  <2>8. QED
    BY <2>4, <2>5, <2>6, <2>7 DEF SettingsInv
<1>6. ASSUME NEW ok \in BOOLEAN, RefreshProviders(r, ok)
      PROVE  SettingsInv'
  <2> DEFINE x == [stage |-> "config", got |-> {}]
  <2>1. /\ refresh[r].stage = (IF ok THEN "answered" ELSE "asked")
        /\ providers' = IF ok THEN refresh[r].got ELSE {}
        /\ failed' = ~ok
        /\ refresh' = [refresh EXCEPT ![r] = x]
        /\ UNCHANGED <<keys, open, tab, me, config, bodyVars, change, untold, crossed>>
    BY <1>6 DEF RefreshProviders
  <2>2. x \in Calls
    BY DEF RefreshStages
  <2>3. /\ refresh' \in [Refreshes -> Calls] /\ refresh'[r] = x
        /\ \A s \in Refreshes \ {r} : refresh'[s] = refresh[s]
    BY <1>2, <2>1, <2>2
  <2>4. /\ OneRefresh'
        /\ ~crossed => \A s \in Refreshes \ {r} : refresh'[s] = IdleRefresh
    BY <1>3, <2>1, <2>3 DEF IdleRefresh
  <2>5. SettingsTypeOK'
    <3>1. refresh[r].got \subseteq Providers
      BY <1>1
    <3>2. providers' \subseteq Providers
      BY <2>1, <3>1
    <3>3. QED
      BY <1>1, <2>1, <2>3, <3>2 DEF SettingsTypeOK, bodyVars
  <2>6. BodyTrue'
    BY <1>1, <2>1, <2>3 DEF BodyTrue, bodyVars
  <2>7. KnowsKeys'
    <3>1. Refreshing'
      BY <2>3 DEF Refreshing, IdleRefresh
    <3>2. Current' => Current /\ ~crossed
      BY <2>1 DEF Current
    <3>3. Current' /\ ~failed' => providers' = keys'
      BY <1>1, <2>1, <3>2 DEF KnowsKeys
    <3>4. QED
      BY <2>3, <2>4, <3>1, <3>2, <3>3 DEF KnowsKeys, IdleRefresh
  <2>8. QED
    BY <2>4, <2>5, <2>6, <2>7 DEF SettingsInv
<1>7. ASSUME NEW ok \in BOOLEAN, RefreshEnds(r, ok)
      PROVE  SettingsInv'
  <2>1. /\ refresh[r].stage = "config" /\ config' = ok /\ RenderBody(tab, ok)
        /\ refresh' = [refresh EXCEPT ![r] = IdleRefresh]
        /\ UNCHANGED <<keys, open, tab, me, providers, change, historyVars>>
    BY <1>7 DEF RefreshEnds
  <2>2. IdleRefresh \in Calls
    BY DEF IdleRefresh, RefreshStages
  <2>3. /\ refresh' \in [Refreshes -> Calls] /\ refresh'[r] = IdleRefresh
        /\ \A s \in Refreshes \ {r} : refresh'[s] = refresh[s]
    BY <1>2, <2>1, <2>2
  <2>4. /\ OneRefresh'
        /\ ~crossed => \A s \in Refreshes \ {r} : refresh'[s] = IdleRefresh
    BY <1>3, <2>1, <2>3 DEF IdleRefresh, historyVars
  <2>5. tab \in TABS
    BY <1>1 DEF SettingsTypeOK
  <2>6. /\ tab = "ai" => pills' = providers
        /\ tab # "ai" /\ ok => pills' = {tab} \cap Configured
        /\ pills' \subseteq Providers \cup ConfigTabs
        /\ editable' \in BOOLEAN
    BY <2>1, <2>5, Rendered
  <2>7. SettingsTypeOK'
    BY <1>1, <2>1, <2>3, <2>6 DEF SettingsTypeOK, historyVars
  <2>8. BodyTrue'
    BY <2>1, <2>6 DEF BodyTrue
  <2>9. KnowsKeys'
    <3>1. Current' => Current /\ ~crossed
      BY <2>1 DEF Current, historyVars
    <3>2. Current /\ ~failed => providers = keys
      BY <1>1, <2>1 DEF KnowsKeys
    <3>3. QED
      BY <2>1, <2>3, <2>4, <3>1, <3>2 DEF KnowsKeys, IdleRefresh, historyVars
  <2>10. QED
    BY <2>4, <2>7, <2>8, <2>9 DEF SettingsInv
<1>8. QED
  BY <1>4, <1>5, <1>6, <1>7

\* A key is saved or deleted, here or elsewhere.
LEMMA ChangeSettings ==
  ASSUME SettingsInv,
         \/ \E c \in Changes : ChangeNext(c)
         \/ \E p \in Providers : ChangedElsewhere(p)
  PROVE  SettingsInv'
<1>1. /\ SettingsTypeOK /\ BodyTrue /\ OneRefresh /\ KnowsKeys
      /\ change \in [Changes -> ChangesUnderWay]
  BY DEF SettingsInv, SettingsTypeOK
<1>2. ASSUME NEW c \in Changes, NEW x \in ChangesUnderWay, change' = [change EXCEPT ![c] = x]
      PROVE  /\ change' \in [Changes -> ChangesUnderWay] /\ change'[c] = x
             /\ \A d \in Changes \ {c} : change'[d] = change[d]
  BY <1>1, <1>2
<1>3. ASSUME change' \in [Changes -> ChangesUnderWay], Current' => Current,
             UNCHANGED <<keys, stateVars, bodyVars, refresh, historyVars>>
      PROVE  SettingsInv'
  <2>1. SettingsTypeOK'
    BY <1>1, <1>3 DEF SettingsTypeOK, stateVars, bodyVars, historyVars
  <2>2. BodyTrue' /\ OneRefresh'
    BY <1>1, <1>3 DEF BodyTrue, OneRefresh, stateVars, bodyVars, historyVars
  <2>3. KnowsKeys'
    BY <1>1, <1>3 DEF KnowsKeys, Refreshing, stateVars, historyVars
  <2>4. QED
    BY <2>1, <2>2, <2>3 DEF SettingsInv
<1>4. ASSUME keys' \subseteq Providers, change' \in [Changes -> ChangesUnderWay],
             untold' \in BOOLEAN, ~Current',
             UNCHANGED <<stateVars, bodyVars, refresh, failed, crossed>>
      PROVE  SettingsInv'
  <2>1. SettingsTypeOK'
    BY <1>1, <1>4 DEF SettingsTypeOK, stateVars, bodyVars
  <2>2. BodyTrue' /\ OneRefresh' /\ KnowsKeys'
    BY <1>1, <1>4 DEF BodyTrue, OneRefresh, KnowsKeys, stateVars, bodyVars
  <2>3. QED
    BY <2>1, <2>2 DEF SettingsInv
<1>5. keys \subseteq Providers /\ untold \in BOOLEAN
  BY <1>1 DEF SettingsTypeOK
<1>6. ASSUME NEW c \in Changes, NEW p \in Providers, NEW op \in {"save", "delete"},
             ClickKey(c, p, op)
      PROVE  SettingsInv'
  <2> DEFINE x == [stage |-> op, provider |-> p]
  <2>1. /\ change[c] = IdleChange /\ change' = [change EXCEPT ![c] = x]
        /\ UNCHANGED <<keys, stateVars, bodyVars, refresh, historyVars>>
    BY <1>6 DEF ClickKey
  <2>2. x \in ChangesUnderWay
    BY DEF ChangesUnderWay
  <2>3. /\ change' \in [Changes -> ChangesUnderWay]
        /\ \A d \in Changes \ {c} : change'[d] = change[d]
    BY <1>2, <2>1, <2>2
  <2>4. Current' => Current
    BY <2>1, <2>3 DEF Current, IdleChange, historyVars
  <2>5. QED
    BY <1>3, <2>1, <2>3, <2>4
<1>7. ASSUME NEW c \in Changes, NEW heard \in BOOLEAN, HubChanges(c, heard)
      PROVE  SettingsInv'
  <2> DEFINE x == [stage |-> IF heard THEN "done" ELSE "lost"]
  <2>1. /\ change[c].stage \in {"save", "delete"} /\ change' = [change EXCEPT ![c] = x]
        /\ \/ keys' = keys \cup {change[c].provider}
           \/ keys' = keys \ {change[c].provider}
        /\ untold' = (untold \/ ~heard)
        /\ UNCHANGED <<stateVars, bodyVars, refresh, failed, crossed>>
    BY <1>7 DEF HubChanges, SetKey, DeleteKey
  <2>2. x \in ChangesUnderWay
    BY DEF ChangesUnderWay
  <2>3. change' \in [Changes -> ChangesUnderWay] /\ change'[c] = x
    BY <1>2, <2>1, <2>2
  <2>4. change[c].provider \in Providers
    BY <1>1, <2>1 DEF ChangesUnderWay
  <2>5. keys' \subseteq Providers
    BY <1>5, <2>1, <2>4
  <2>6. untold' \in BOOLEAN /\ ~Current'
    BY <1>5, <2>1, <2>3 DEF Current
  <2>7. QED
    BY <1>4, <2>1, <2>3, <2>5, <2>6
<1>8. ASSUME NEW c \in Changes, ChangeFails(c)
      PROVE  SettingsInv'
  <2>1. /\ change[c].stage \in {"save", "delete", "lost"}
        /\ change' = [change EXCEPT ![c] = IdleChange]
        /\ UNCHANGED <<keys, stateVars, bodyVars, refresh, historyVars>>
    BY <1>8 DEF ChangeFails
  <2>2. IdleChange \in ChangesUnderWay
    BY DEF IdleChange, ChangesUnderWay
  <2>3. /\ change' \in [Changes -> ChangesUnderWay]
        /\ \A d \in Changes \ {c} : change'[d] = change[d]
    BY <1>2, <2>1, <2>2
  <2>4. Current' => Current
    BY <2>1, <2>3 DEF Current, historyVars
  <2>5. QED
    BY <1>3, <2>1, <2>3, <2>4
<1>9. ASSUME NEW c \in Changes, NEW r \in Refreshes, ChangeDone(c, r)
      PROVE  SettingsInv'
  <2>1. /\ change' = [change EXCEPT ![c] = IdleChange] /\ StartRefresh(r)
        /\ UNCHANGED <<keys, stateVars, bodyVars, untold, failed>>
    BY <1>9 DEF ChangeDone, ThenRefresh
  <2>2. IdleChange \in ChangesUnderWay
    BY DEF IdleChange, ChangesUnderWay
  <2>3. change' \in [Changes -> ChangesUnderWay]
    BY <1>2, <2>1, <2>2
  <2>4. /\ refresh' \in [Refreshes -> [stage : RefreshStages, got : SUBSET Providers]]
        /\ refresh'[r].stage = "me"
        /\ \A s \in Refreshes : refresh'[s].stage = "config" <=> refresh[s].stage = "config"
        /\ crossed' \in BOOLEAN /\ OneRefresh'
        /\ ~crossed' => \A s \in Refreshes \ {r} : refresh'[s] = IdleRefresh
        /\ Refreshing'
    BY <2>1, Started
  <2>5. SettingsTypeOK'
    BY <1>1, <2>1, <2>3, <2>4 DEF SettingsTypeOK, stateVars, bodyVars
  <2>6. BodyTrue'
    BY <1>1, <2>1, <2>4 DEF BodyTrue, stateVars, bodyVars
  <2>7. KnowsKeys'
    BY <2>4 DEF KnowsKeys, Current, IdleRefresh
  <2>8. QED
    BY <2>4, <2>5, <2>6, <2>7 DEF SettingsInv
<1>10. ASSUME NEW p \in Providers, ChangedElsewhere(p)
       PROVE  SettingsInv'
  <2>1. /\ keys' = keys \cup {p} \/ keys' = keys \ {p}
        /\ untold' = TRUE
        /\ UNCHANGED <<stateVars, bodyVars, refresh, change, failed, crossed>>
    BY <1>10 DEF ChangedElsewhere, SetKey, DeleteKey
  <2>2. keys' \subseteq Providers /\ ~Current'
    BY <1>5, <2>1 DEF Current
  <2>3. QED
    BY <1>1, <1>4, <2>1, <2>2
<1>11. QED
  BY <1>6, <1>7, <1>8, <1>9, <1>10 DEF ChangeNext

\* The settings keep the invariant.
LEMMA SettingsInvariance == SettingsSpec => []SettingsInv
<1>1. SettingsInv /\ [SettingsNext]_settingsVars => SettingsInv'
  <2> SUFFICES ASSUME SettingsInv, [SettingsNext]_settingsVars PROVE SettingsInv'
    OBVIOUS
  <2>1. CASE UNCHANGED settingsVars
    <3>1. UNCHANGED <<keys, open, tab, me, providers, config, pills, editable, refresh, change,
                      untold, failed, crossed>>
      BY <2>1 DEF settingsVars, stateVars, bodyVars, historyVars
    <3>2. QED
      BY <3>1 DEF SettingsInv, SettingsTypeOK, BodyTrue, OneRefresh, KnowsKeys, Current, Refreshing
  <2>2. ASSUME NEW r \in Refreshes, RefreshNext(r) PROVE SettingsInv'
    BY <2>2, ShowSettings, RefreshSettings DEF RefreshNext
  <2>3. QED
    BY <2>1, <2>2, ShowSettings, ChangeSettings DEF SettingsNext
<1>2. QED
  BY <1>1, SettingsInvInit, PTL DEF SettingsSpec

\* The keys, what the panel knows and shows, and its calls keep their types.
THEOREM SettingsTypeCorrect == SettingsSpec => []SettingsTypeOK
<1>1. SettingsInv => SettingsTypeOK
  BY DEF SettingsInv
<1>2. QED
  BY <1>1, SettingsInvariance, PTL

\* With nothing under way the pills are the keys of the hub, unless a key was
\* changed elsewhere or with its answer lost, a list failed or refreshes crossed;
\* the other tabs show what is configured (refresh and the handlers of Save and
\* Delete).
THEOREM PillsAreKeys == SettingsSpec => []PillsTrue
<1>1. ASSUME SettingsInv PROVE PillsTrue
  <2>1. ~Refreshing => \A r \in Refreshes : refresh[r].stage # "config"
    BY DEF Refreshing, IdleRefresh
  <2>2. ~Changing => \A c \in Changes : change[c].stage # "done"
    BY DEF Changing, IdleChange
  <2>3. ASSUME open, tab = "ai", ~Refreshing, ~Changing, ~untold, ~failed, ~crossed
        PROVE  pills = keys
    <3>1. pills = providers
      BY <1>1, <2>1, <2>3 DEF SettingsInv, BodyTrue
    <3>2. providers = keys
      BY <1>1, <2>2, <2>3 DEF SettingsInv, KnowsKeys, Current
    <3>3. QED
      BY <3>1, <3>2
  <2>4. open /\ tab # "ai" /\ config => pills = {tab} \cap Configured
    BY <1>1 DEF SettingsInv, BodyTrue
  <2>5. QED
    BY <2>3, <2>4 DEF PillsTrue
<1>2. QED
  BY <1>1, SettingsInvariance, PTL
-----------------------------------------------------------------------------
(* Signing in. *)

\* The pages of the tabs.
PagesTyped ==
  /\ place \in [Tabs -> {"/", "/login", "/setup"}]
  /\ check \in [Tabs -> {"load", "me", "leave", "rest"}]
  /\ checked \in [Tabs -> Tokens \cup {NoToken}]
  /\ form \in [Tabs -> {"idle", "sent", "passed", "totp", "qr"}]
  /\ setupToken \in [Tabs -> Tokens \cup {NoToken}]

\* A page is left, stays, asks or has its form changed.
LEMMA PageSteps ==
  ASSUME PagesTyped, stored \in Tokens \cup {NoToken}, NEW t \in Tabs
  PROVE  /\ \A page \in {"/", "/login", "/setup"} : Go(t, page) => PagesTyped'
         /\ \A c \in {"load", "me", "leave", "rest"} : Stay(t, c) => PagesTyped'
         /\ AskMe(t) => PagesTyped'
         /\ \A f \in {"idle", "sent", "passed", "totp", "qr"} : Form(t, f) => PagesTyped'
         /\ UNCHANGED tabVars => PagesTyped'
<1> USE DEF PagesTyped
<1>1. ASSUME NEW page \in {"/", "/login", "/setup"}, Go(t, page) PROVE PagesTyped'
  BY <1>1 DEF Go
<1>2. ASSUME NEW c \in {"load", "me", "leave", "rest"}, Stay(t, c) PROVE PagesTyped'
  BY <1>2 DEF Stay
<1>3. CASE AskMe(t)
  BY <1>3 DEF AskMe
<1>4. ASSUME NEW f \in {"idle", "sent", "passed", "totp", "qr"}, Form(t, f) PROVE PagesTyped'
  BY <1>4 DEF Form
<1>5. CASE UNCHANGED tabVars
  BY <1>5 DEF tabVars
<1>6. QED
  BY <1>1, <1>2, <1>3, <1>4, <1>5

\* The hub gives out numbers in order, and the page stores what it was given.
TokensTyped ==
  /\ accounts \subseteq {"plain", "2fa"}
  /\ issued \in 0..MaxTokens
  /\ valid \subseteq 1..issued
  /\ stored \in Tokens \cup {NoToken}

\* A token is issued.
LEMMA IssueTyped ==
  ASSUME TokensTyped, issued < MaxTokens, issued' = issued + 1, valid' = valid \cup {issued + 1},
         accounts' \subseteq {"plain", "2fa"}
  PROVE  /\ issued + 1 \in Tokens
         /\ stored' \in Tokens \cup {NoToken} => TokensTyped'
<1>1. /\ issued' \in 0..MaxTokens /\ issued + 1 \in Tokens
  BY SignInConstants DEF TokensTyped, Tokens
<1>2. valid' \subseteq 1..issued'
  BY SignInConstants DEF TokensTyped
<1>3. QED
  BY <1>1, <1>2 DEF TokensTyped

LEMMA SignInTypeStep ==
  ASSUME SignInTypeOK, [SignInNext]_signInVars
  PROVE  SignInTypeOK'
<1>1. PagesTyped /\ TokensTyped /\ reachable \in BOOLEAN /\ acts \in 0..MaxActs
  BY DEF SignInTypeOK, PagesTyped, TokensTyped
<1>2. ASSUME PagesTyped', TokensTyped', reachable' \in BOOLEAN, acts' \in 0..MaxActs
      PROVE  SignInTypeOK'
  BY <1>2 DEF SignInTypeOK, PagesTyped, TokensTyped
<1>3. stored \in Tokens \cup {NoToken}
  BY <1>1 DEF TokensTyped
<1>4. Act => acts' \in 0..MaxActs
  BY <1>1, SignInConstants DEF Act
<1>5. UNCHANGED <<accountVars, stored>> => TokensTyped'
  BY <1>1 DEF TokensTyped, accountVars
<1>6. CASE NetworkChanges
  <2>1. PagesTyped'
    BY <1>1, <1>6 DEF NetworkChanges, tabVars, PagesTyped
  <2>2. reachable' \in BOOLEAN
    BY <1>6 DEF NetworkChanges
  <2>3. QED
    BY <1>2, <1>4, <1>5, <1>6, <2>1, <2>2 DEF NetworkChanges
<1>7. ASSUME NEW k \in Tokens, Expire(k) PROVE SignInTypeOK'
  <2>1. PagesTyped'
    BY <1>1, <1>7 DEF Expire, tabVars, PagesTyped
  <2>2. TokensTyped'
    BY <1>1, <1>7 DEF Expire, TokensTyped
  <2>3. QED
    BY <1>1, <1>2, <1>4, <1>7, <2>1, <2>2 DEF Expire
<1>8. ASSUME NEW t \in Tabs, UserNext(t) PROVE SignInTypeOK'
  <2>1. PagesTyped'
    BY <1>1, <1>3, <1>8, PageSteps DEF UserNext, Visit, Logout
  <2>2. TokensTyped'
    BY <1>1, <1>8 DEF UserNext, Visit, Logout, TokensTyped, accountVars
  <2>3. Act /\ UNCHANGED reachable
    BY <1>8 DEF UserNext, Visit, Logout
  <2>4. QED
    BY <1>1, <1>2, <1>4, <2>1, <2>2, <2>3
<1>9. ASSUME NEW t \in Tabs, CheckNext(t) PROVE SignInTypeOK'
  <2>1. UNCHANGED <<reachable, accountVars, acts>> /\ (UNCHANGED stored \/ stored' = NoToken)
    BY <1>9 DEF CheckNext, SessionSetupCheck, SessionMe, LoginLoads, LoginMe, SetupLoads, SetupLeaves
  <2>2. PagesTyped'
    <3>1. CASE SessionSetupCheck(t)
      BY <1>1, <1>3, <3>1, PageSteps DEF SessionSetupCheck
    <3>2. CASE SessionMe(t)
      BY <1>1, <1>3, <3>2, PageSteps DEF SessionMe
    <3>3. CASE LoginLoads(t) \/ LoginMe(t)
      BY <1>1, <1>3, <3>3, PageSteps DEF LoginLoads, AlreadyLoggedIn, LoginMe
    <3>4. CASE SetupLoads(t) \/ SetupLeaves(t)
      BY <1>1, <1>3, <3>4, PageSteps DEF SetupLoads, SetupLeaves
    <3>5. QED
      BY <1>9, <3>1, <3>2, <3>3, <3>4 DEF CheckNext
  <2>3. TokensTyped'
    BY <1>1, <2>1 DEF TokensTyped, accountVars
  <2>4. QED
    BY <1>1, <1>2, <2>1, <2>2, <2>3
<1>10. ASSUME NEW t \in Tabs, FormNext(t) PROVE SignInTypeOK'
  <2>1. ASSUME SignedIn(t), UNCHANGED <<reachable, acts>> PROVE SignInTypeOK'
    <3>1. TokensTyped'
      BY <1>1, <2>1, IssueTyped DEF SignedIn, TokensTyped
    <3>2. PagesTyped'
      BY <1>1, <1>3, <2>1, PageSteps DEF SignedIn
    <3>3. QED
      BY <1>1, <1>2, <2>1, <3>1, <3>2
  <2>2. CASE SubmitLogin(t) \/ BackToLogin(t) \/ SubmitSetup(t)
    <3>1. PagesTyped'
      BY <1>1, <1>3, <2>2, PageSteps DEF SubmitLogin, BackToLogin, SubmitSetup
    <3>2. QED
      BY <1>1, <1>2, <1>4, <1>5, <2>2, <3>1 DEF SubmitLogin, BackToLogin, SubmitSetup
  <2>3. CASE LoginAccepted(t)
    <3>1. CASE SignedIn(t)
      BY <2>1, <2>3, <3>1 DEF LoginAccepted
    <3>2. CASE Form(t, "totp") /\ UNCHANGED <<accountVars, stored>>
      <4>1. PagesTyped'
        BY <1>1, <1>3, <3>2, PageSteps
      <4>2. QED
        BY <1>1, <1>2, <1>5, <2>3, <3>2, <4>1 DEF LoginAccepted
    <3>3. QED
      BY <2>3, <3>1, <3>2 DEF LoginAccepted
  <2>4. CASE Verified(t)
    BY <2>1, <2>4 DEF Verified
  <2>5. CASE LoginRefused(t) \/ SetupLooks(t)
    <3>1. PagesTyped'
      BY <1>1, <1>3, <2>5, PageSteps DEF LoginRefused, SetupLooks
    <3>2. QED
      BY <1>1, <1>2, <1>5, <2>5, <3>1 DEF LoginRefused, SetupLooks
  <2>6. CASE SetupCreates(t)
    <3>1. /\ issued < MaxTokens /\ issued' = issued + 1 /\ valid' = valid \cup {issued + 1}
          /\ accounts' \subseteq {"plain", "2fa"}
          /\ stored' = issued + 1 \/ stored' = stored
          /\ UNCHANGED <<reachable, acts>>
      BY <1>1, <2>6 DEF SetupCreates, TokensTyped
    <3>2. issued + 1 \in Tokens /\ TokensTyped'
      BY <1>1, <1>3, <3>1, IssueTyped
    <3>3. PagesTyped'
      <4>1. CASE Go(t, "/")
        BY <1>1, <1>3, <4>1, PageSteps
      <4>2. CASE /\ form' = [form EXCEPT ![t] = "qr"]
                 /\ setupToken' = [setupToken EXCEPT ![t] = issued + 1]
                 /\ UNCHANGED <<place, check, checked>>
        BY <1>1, <3>2, <4>2 DEF PagesTyped
      <4>3. QED
        BY <2>6, <4>1, <4>2 DEF SetupCreates
    <3>4. QED
      BY <1>1, <1>2, <3>1, <3>2, <3>3
  <2>7. CASE SetupFails(t)
    <3>1. PagesTyped'
      BY <1>1, <1>3, <2>7, PageSteps DEF SetupFails
    <3>2. TokensTyped'
      BY <1>1, <2>7 DEF SetupFails, TokensTyped
    <3>3. QED
      BY <1>1, <1>2, <2>7, <3>1, <3>2 DEF SetupFails
  <2>8. CASE Continue(t)
    <3>1. PagesTyped'
      BY <1>1, <1>3, <2>8, PageSteps DEF Continue
    <3>2. setupToken[t] \in Tokens \cup {NoToken}
      BY <1>1 DEF PagesTyped
    <3>3. TokensTyped'
      BY <1>1, <2>8, <3>2 DEF Continue, TokensTyped, accountVars
    <3>4. QED
      BY <1>1, <1>2, <1>4, <2>8, <3>1, <3>3 DEF Continue
  <2>9. QED
    BY <1>10, <2>2, <2>3, <2>4, <2>5, <2>6, <2>7, <2>8 DEF FormNext
<1>11. CASE UNCHANGED signInVars
  BY <1>11 DEF signInVars, accountVars, tabVars, SignInTypeOK
<1>12. QED
  BY <1>6, <1>7, <1>8, <1>9, <1>10, <1>11 DEF SignInNext

\* The hub, the token and the pages keep their types, for any tabs and tokens.
THEOREM SignInTypeCorrect == SignInSpec => []SignInTypeOK
<1>1. SignInInit => SignInTypeOK
  <2> SUFFICES ASSUME SignInInit PROVE SignInTypeOK
    OBVIOUS
  <2>1. issued \in {0, 1} /\ issued \in 0..MaxTokens
    BY SignInConstants DEF SignInInit
  <2>2. stored \in Tokens \cup {NoToken}
    BY <2>1, SignInConstants DEF SignInInit, Tokens
  <2>3. QED
    BY <2>1, <2>2, SignInConstants DEF SignInInit, SignInTypeOK
<1>2. QED
  BY <1>1, SignInTypeStep, PTL DEF SignInSpec

\* A check of one tab changes nothing of the others but the token they share.
LEMMA OthersRest ==
  ASSUME SignInTypeOK, NEW t \in Tabs, CheckNext(t), NEW u \in Tabs, u # t
  PROVE  ChecksLeft(u)' <= ChecksLeft(u)
<1>1. /\ UNCHANGED <<reachable, accounts, valid>> /\ stored' \in {stored, NoToken}
      /\ place'[u] = place[u] /\ check'[u] = check[u] /\ checked'[u] = checked[u]
  <2> USE DEF SignInTypeOK
  <2>1. UNCHANGED <<reachable, accounts, valid>> /\ stored' \in {stored, NoToken}
    BY DEF CheckNext, SessionSetupCheck, SessionMe, LoginLoads, AlreadyLoggedIn, LoginMe,
           SetupLoads, SetupLeaves, accountVars
  <2>2. \A page : Go(t, page) =>
          place'[u] = place[u] /\ check'[u] = check[u] /\ checked'[u] = checked[u]
    BY DEF Go
  <2>3. \A c : Stay(t, c) =>
          place'[u] = place[u] /\ check'[u] = check[u] /\ checked'[u] = checked[u]
    BY DEF Stay
  <2>4. AskMe(t) => place'[u] = place[u] /\ check'[u] = check[u] /\ checked'[u] = checked[u]
    BY DEF AskMe
  <2>5. AskMe(t) \/ (\E page : Go(t, page)) \/ (\E c : Stay(t, c))
    BY DEF CheckNext, SessionSetupCheck, SessionMe, LoginLoads, AlreadyLoggedIn, LoginMe,
           SetupLoads, SetupLeaves
  <2>6. QED
    BY <2>1, <2>2, <2>3, <2>4, <2>5
<1>2. QED
  BY <1>1 DEF ChecksLeft, SetupRequired

\* A check brings its own tab nearer to rest.
LEMMA CheckDescends ==
  ASSUME SignInTypeOK, NEW t \in Tabs, CheckNext(t)
  PROVE  ChecksLeft(t) \in 1..7 /\ ChecksLeft(t)' < ChecksLeft(t)
<1> USE DEF SignInTypeOK
<1>1. ASSUME NEW page \in {"/", "/login", "/setup"}, Go(t, page)
      PROVE  place'[t] = page /\ check'[t] = "load"
  BY <1>1 DEF Go
<1>2. ASSUME NEW c \in {"leave", "rest"}, Stay(t, c)
      PROVE  place'[t] = place[t] /\ check'[t] = c
  BY <1>2 DEF Stay
<1>3. ASSUME AskMe(t)
      PROVE  place'[t] = place[t] /\ check'[t] = "me" /\ checked'[t] = stored
  BY <1>3 DEF AskMe
<1>4. CASE SessionSetupCheck(t)
  <2>1. /\ place[t] = "/" /\ check[t] = "load"
        /\ UNCHANGED <<reachable, accounts, valid, stored>>
    BY <1>4 DEF SessionSetupCheck, accountVars
  <2>2. ChecksLeft(t) = 3
    BY <2>1 DEF ChecksLeft
  <2>3. CASE ~reachable
    <3>1. place'[t] = "/login" /\ check'[t] = "load"
      BY <1>1, <1>4, <2>3 DEF SessionSetupCheck
    <3>2. QED
      BY <2>1, <2>2, <2>3, <3>1 DEF ChecksLeft
  <2>4. CASE reachable /\ SetupRequired
    <3>1. place'[t] = "/setup" /\ check'[t] = "load"
      BY <1>1, <1>4, <2>4 DEF SessionSetupCheck
    <3>2. QED
      BY <2>1, <2>2, <2>4, <3>1 DEF ChecksLeft, SetupRequired
  <2>5. CASE reachable /\ ~SetupRequired /\ stored = NoToken
    <3>1. place'[t] = "/login" /\ check'[t] = "load"
      BY <1>1, <1>4, <2>5 DEF SessionSetupCheck
    <3>2. QED
      BY <2>1, <2>2, <2>5, <3>1 DEF ChecksLeft
  <2>6. CASE reachable /\ ~SetupRequired /\ stored # NoToken
    <3>1. place'[t] = "/" /\ check'[t] = "me"
      BY <1>3, <1>4, <2>1, <2>6 DEF SessionSetupCheck
    <3>2. QED
      BY <2>2, <3>1 DEF ChecksLeft
  <2>7. QED
    BY <2>3, <2>4, <2>5, <2>6
<1>5. CASE SessionMe(t)
  <2>1. ChecksLeft(t) = 2
    BY <1>5 DEF SessionMe, ChecksLeft
  <2>2. CASE reachable /\ checked[t] \in valid
    <3>1. check'[t] = "rest"
      BY <1>2, <1>5, <2>2 DEF SessionMe
    <3>2. QED
      BY <2>1, <3>1 DEF ChecksLeft
  <2>3. CASE ~(reachable /\ checked[t] \in valid)
    <3>1. place'[t] = "/login" /\ check'[t] = "load" /\ stored' = NoToken
      BY <1>1, <1>5, <2>3 DEF SessionMe
    <3>2. QED
      BY <2>1, <3>1 DEF ChecksLeft
  <2>4. QED
    BY <2>2, <2>3
<1>6. CASE LoginLoads(t)
  <2>1. /\ place[t] = "/login" /\ check[t] = "load"
        /\ UNCHANGED <<reachable, accounts, valid, stored>>
    BY <1>6 DEF LoginLoads, accountVars
  <2>2. CASE stored # NoToken
    <3>1. place'[t] = "/login" /\ check'[t] = "me" /\ checked'[t] = stored
      BY <1>3, <1>6, <2>1, <2>2 DEF LoginLoads, AlreadyLoggedIn
    <3>2. QED
      BY <2>1, <2>2, <3>1 DEF ChecksLeft
  <2>3. CASE stored = NoToken
    <3>1. check'[t] = "rest"
      BY <1>2, <1>6, <2>3 DEF LoginLoads, AlreadyLoggedIn
    <3>2. QED
      BY <2>1, <2>3, <3>1 DEF ChecksLeft
  <2>4. QED
    BY <2>2, <2>3
<1>7. CASE LoginMe(t)
  <2>1. place[t] = "/login" /\ check[t] = "me"
    BY <1>7 DEF LoginMe
  <2>2. CASE reachable /\ checked[t] \in valid
    <3>1. place'[t] = "/" /\ check'[t] = "load"
      BY <1>1, <1>7, <2>2 DEF LoginMe
    <3>2. QED
      BY <2>1, <2>2, <3>1 DEF ChecksLeft
  <2>3. CASE ~(reachable /\ checked[t] \in valid)
    <3>1. check'[t] = "rest"
      BY <1>2, <1>7, <2>3 DEF LoginMe
    <3>2. QED
      BY <2>1, <2>3, <3>1 DEF ChecksLeft
  <2>4. QED
    BY <2>2, <2>3
<1>8. CASE SetupLoads(t)
  <2>1. place[t] = "/setup" /\ check[t] = "load"
    BY <1>8 DEF SetupLoads
  <2>2. CASE reachable /\ ~SetupRequired
    <3>1. place'[t] = "/setup" /\ check'[t] = "leave"
      BY <1>2, <1>8, <2>1, <2>2 DEF SetupLoads
    <3>2. QED
      BY <2>1, <2>2, <3>1 DEF ChecksLeft
  <2>3. CASE ~(reachable /\ ~SetupRequired)
    <3>1. check'[t] = "rest"
      BY <1>2, <1>8, <2>3 DEF SetupLoads
    <3>2. QED
      BY <2>1, <2>3, <3>1 DEF ChecksLeft
  <2>4. QED
    BY <2>2, <2>3
<1>9. CASE SetupLeaves(t)
  <2>1. place[t] = "/setup" /\ check[t] = "leave"
    BY <1>9 DEF SetupLeaves
  <2>2. place'[t] = "/login" /\ check'[t] = "load"
    BY <1>1, <1>9 DEF SetupLeaves
  <2>3. QED
    BY <2>1, <2>2 DEF ChecksLeft
<1>10. QED
  BY <1>4, <1>5, <1>6, <1>7, <1>8, <1>9 DEF CheckNext

\* The redirects of the three pages come to an end, for any number of tabs: every
\* one brings its tab nearer to rest and none takes another tab away from it
\* (session-check.js, auth.js, setup.js).
THEOREM PagesComeToRest == SignInSpec => RedirectsEnd
<1>1. ASSUME SignInTypeOK, NEW t \in Tabs, CheckNext(t)
      PROVE  /\ ChecksLeft(t) \in 1..7
             /\ ChecksLeft(t)' < ChecksLeft(t)
             /\ \A u \in Tabs : ChecksLeft(u)' <= ChecksLeft(u)
  <2>1. /\ ChecksLeft(t) \in 1..7
        /\ ChecksLeft(t)' < ChecksLeft(t)
    BY <1>1, CheckDescends
  <2>2. ChecksLeft(t)' <= ChecksLeft(t)
    <3>1. ChecksLeft(t)' \in 0..7
      BY DEF ChecksLeft
    <3>2. QED
      BY <2>1, <3>1
  <2>3. \A u \in Tabs : ChecksLeft(u)' <= ChecksLeft(u)
    BY <1>1, <2>2, OthersRest
  <2>4. QED
    BY <2>1, <2>3
<1>2. SignInTypeOK =>
        \A t \in Tabs :
          CheckNext(t) => /\ ChecksLeft(t) \in 1..7
                          /\ ChecksLeft(t)' < ChecksLeft(t)
                          /\ \A u \in Tabs : ChecksLeft(u)' <= ChecksLeft(u)
  BY <1>1
<1>3. QED
  BY <1>2, SignInTypeCorrect, PTL DEF SignInSpec, RedirectsEnd
=============================================================================

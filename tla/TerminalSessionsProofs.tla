----------------------- MODULE TerminalSessionsProofs -----------------------
(***************************************************************************)
(* Proofs about TerminalSessions, for every number of sessions, browsers   *)
(* and agent connections and every queue length.                           *)
(***************************************************************************)
EXTENDS TerminalSessions, SequenceTheorems, TLAPS

ToAgentMsg == [kind : {"OPEN", "DATA", "CLOSE"}, id : Ids]
ToHubMsg == [kind : {"OUT", "EXIT"}, id : Ids]

\* The two queues.
LEMMA SendToTyped ==
  ASSUME toAgent \in Seq(ToAgentMsg), NEW k \in {"OPEN", "DATA", "CLOSE"}, NEW s \in Ids,
         SendTo(k, s)
  PROVE  toAgent' \in Seq(ToAgentMsg)
<1>1. Msg(k, s) \in ToAgentMsg
  BY DEF Msg, ToAgentMsg
<1>2. Append(toAgent, Msg(k, s)) \in Seq(ToAgentMsg)
  BY <1>1, AppendProperties
<1>3. QED
  BY <1>2 DEF SendTo

LEMMA SendTyped ==
  ASSUME toHub \in Seq(ToHubMsg), NEW k \in {"OUT", "EXIT"}, NEW s \in Ids, Send(k, s)
  PROVE  toHub' \in Seq(ToHubMsg)
<1>1. Msg(k, s) \in ToHubMsg
  BY DEF Msg, ToHubMsg
<1>2. Append(toHub, Msg(k, s)) \in Seq(ToHubMsg)
  BY <1>1, AppendProperties
<1>3. QED
  BY <1>2 DEF Send

LEMMA ReceiveTyped ==
  ASSUME toAgent \in Seq(ToAgentMsg), NEW k, NEW s, Receive(k, s)
  PROVE  toAgent' \in Seq(ToAgentMsg)
BY HeadTailProperties DEF Receive

LEMMA TakeTyped ==
  ASSUME toHub \in Seq(ToHubMsg), NEW l, NEW k, Take(l, k)
  PROVE  toHub' \in Seq(ToHubMsg) /\ Head(toHub).id \in Ids
<1>1. toHub # <<>>
  BY DEF Take
<1>2. Head(toHub) \in ToHubMsg /\ Tail(toHub) \in Seq(ToHubMsg)
  BY <1>1, HeadTailProperties
<1>3. QED
  BY <1>2 DEF Take, ToHubMsg

\* A goroutine that is not idle has a session.
Busy == \A p \in Procs : (p \in Ids => job[p] = p) /\ (pc[p] # "idle" => job[p] \in Ids)

HubTyped ==
  /\ held \subseteq Ids
  /\ row \in [Ids -> {"none", "open", "ended"}]
  /\ browser \in [Ids -> Browsers \cup {NoBrowser}]
  /\ open \subseteq Browsers
  /\ pc \in [Procs -> {"idle", "minting", "armed", "found", "opening", "pumping",
                       "delivering", "done"} \cup Ending]
  /\ job \in [Procs -> Ids \cup {NoId}]
  /\ target \in [Procs -> Browsers \cup {NoBrowser}]
  /\ met \subseteq Procs /\ cut \subseteq Ids

LinkTyped ==
  /\ reader \in Loops \cup {NoLoop}
  /\ live \in BOOLEAN
  /\ toAgent \in Seq(ToAgentMsg)
  /\ toHub \in Seq(ToHubMsg)
  /\ agent \in {"connected", "closing", "down"}

PtysTyped ==
  /\ table \in [Ids -> Ptys \cup {NoPty}]
  /\ of \in [Ptys -> Ids \cup {NoId}]
  /\ shells \subseteq Ptys
  /\ starting \in Ptys \cup {NoPty}
  /\ pump \in [Ptys -> {"none", "reading", "killing", "late", "done"}]
  /\ hand \in [Closers -> Ptys \cup {NoPty}]

LEMMA TypeParts == TypeOK <=> HubTyped /\ LinkTyped /\ PtysTyped
BY DEF TypeOK, HubTyped, LinkTyped, PtysTyped, ToAgentMsg, ToHubMsg

\* A PTY that is in the table, in somebody's hands or read was started for a
\* session, and the table has it under that one; a pump has a shell in hand only
\* while it closes.
PtysOwned ==
  /\ \A s \in Ids : table[s] # NoPty => of[table[s]] = s
  /\ \A c \in Closers : hand[c] # NoPty => of[hand[c]] \in Ids
  /\ starting # NoPty =>
       of[starting] \in Ids /\ table[of[starting]] = NoPty /\ pump[starting] = "none"
  /\ \A y \in Ptys : pump[y] # "none" => of[y] \in Ids
  /\ \A y \in Ptys : hand[y] # NoPty => pump[y] \in {"killing", "late"}
  /\ \A y \in shells : of[y] \in Ids

PtyInv == PtysTyped /\ PtysOwned

TypeInv == HubTyped /\ LinkTyped /\ Busy /\ PtyInv

LEMMA TypeInit == Init => TypeInv
<1>1. ASSUME Init PROVE TypeInv
  <2>1. toAgent \in Seq(ToAgentMsg) /\ toHub \in Seq(ToHubMsg)
    BY <1>1 DEF Init
  <2>2. HubTyped /\ Busy
    BY <1>1 DEF Init, HubTyped, Busy, Procs
  <2>3. LinkTyped
    BY <1>1, <2>1 DEF Init, LinkTyped
  <2>4. PtyInv
    BY <1>1, TerminalConstants DEF Init, PtyInv, PtysTyped, PtysOwned, Closers
  <2>5. QED
    BY <2>2, <2>3, <2>4 DEF TypeInv
<1>2. QED
  BY <1>1

\* A step that leaves the PTYs alone.
LEMMA PtysKept ==
  ASSUME PtyInv, UNCHANGED agentVars
  PROVE  PtyInv'
BY DEF PtyInv, PtysTyped, PtysOwned, agentVars

LEMMA ReaperTyped ==
  ASSUME TypeInv, NEW s \in Ids, ReaperNext(s)
  PROVE  HubTyped' /\ LinkTyped' /\ Busy'
<1>0. s \in Procs
  BY DEF Procs
<1>1. CASE CheckConnected(s)
  BY <1>0, <1>1 DEF TypeInv, HubTyped, LinkTyped, Busy, CheckConnected, Goto, linkVars, agentVars
<1>2. CASE Mint(s)
  BY <1>0, <1>2 DEF TypeInv, HubTyped, LinkTyped, Busy, Mint, Goto, linkVars, agentVars
<1>3. CASE Reap(s)
  BY <1>0, <1>3 DEF TypeInv, HubTyped, LinkTyped, Busy, Reap, Goto, linkVars, agentVars, Ending
<1>4. QED
  BY <1>1, <1>2, <1>3 DEF ReaperNext

LEMMA HandlerTyped ==
  ASSUME TypeInv, NEW b \in Browsers, HandlerNext(b)
  PROVE  HubTyped' /\ LinkTyped' /\ Busy'
<1>0. b \in Procs /\ b \notin Ids
  BY TerminalConstants DEF Procs
<1>1. ASSUME NEW s \in Ids, FindSession(b, s) PROVE HubTyped' /\ LinkTyped' /\ Busy'
  BY <1>0, <1>1 DEF TypeInv, HubTyped, LinkTyped, Busy, FindSession, Goto, linkVars, agentVars
<1>2. CASE UpgradeFails(b)
  BY <1>0, <1>2 DEF TypeInv, HubTyped, LinkTyped, Busy, UpgradeFails, Goto, linkVars, agentVars
<1>3. CASE AttachBrowser(b)
  BY <1>0, <1>3 DEF TypeInv, HubTyped, LinkTyped, Busy, AttachBrowser, Goto, linkVars, agentVars
<1>4. CASE RequestShell(b)
  <2>1. job[b] \in Ids /\ toAgent \in Seq(ToAgentMsg) /\ SendTo("OPEN", job[b])
    BY <1>0, <1>4 DEF TypeInv, Busy, LinkTyped, RequestShell
  <2>2. toAgent' \in Seq(ToAgentMsg)
    BY <2>1, SendToTyped
  <2>3. QED
    BY <1>0, <1>4, <2>2 DEF TypeInv, HubTyped, LinkTyped, Busy, RequestShell, Goto, linkVars, agentVars
<1>5. CASE Input(b)
  <2>1. job[b] \in Ids /\ toAgent \in Seq(ToAgentMsg) /\ SendTo("DATA", job[b])
    BY <1>0, <1>5 DEF TypeInv, Busy, LinkTyped, Input
  <2>2. toAgent' \in Seq(ToAgentMsg)
    BY <2>1, SendToTyped
  <2>3. QED
    BY <1>5, <2>2 DEF TypeInv, HubTyped, LinkTyped, Busy, Input, hubVars, linkVars, agentVars
<1>6. CASE BrowserLeaves(b)
  BY <1>6 DEF TypeInv, HubTyped, LinkTyped, Busy, BrowserLeaves, linkVars, agentVars
<1>7. CASE ReadFails(b)
  BY <1>0, <1>7 DEF TypeInv, HubTyped, LinkTyped, Busy, ReadFails, Goto, linkVars, agentVars, Ending
<1>8. QED
  BY <1>1, <1>2, <1>3, <1>4, <1>5, <1>6, <1>7 DEF HandlerNext

LEMMA EndTyped ==
  ASSUME TypeInv, NEW p \in Procs, EndNext(p)
  PROVE  HubTyped' /\ LinkTyped' /\ Busy'
<1>0. After(p) \in {"idle", "done"}
  BY DEF After
<1>1. CASE Unlink(p)
  BY <1>0, <1>1 DEF TypeInv, HubTyped, LinkTyped, Busy, Unlink, Goto, linkVars, agentVars, Ending
<1>2. CASE Capture(p)
  <2>1. job[p] \in Ids
    BY <1>2 DEF TypeInv, Busy, Capture
  <2>2. QED
    BY <1>2, <2>1 DEF TypeInv, HubTyped, LinkTyped, Busy, Capture, Goto, linkVars, agentVars, Ending
<1>3. CASE CloseBrowser(p)
  BY <1>3 DEF TypeInv, HubTyped, LinkTyped, Busy, CloseBrowser, EndWrite, Goto, linkVars, agentVars, Ending
<1>4. CASE Release(p)
  <2>1. job[p] \in Ids /\ toAgent \in Seq(ToAgentMsg) /\ SendTo("CLOSE", job[p])
    BY <1>4 DEF TypeInv, Busy, LinkTyped, Release
  <2>2. toAgent' \in Seq(ToAgentMsg)
    BY <2>1, SendToTyped
  <2>3. QED
    BY <1>0, <1>4, <2>2 DEF TypeInv, HubTyped, LinkTyped, Busy, Release, Goto, linkVars, agentVars
<1>5. QED
  BY <1>1, <1>2, <1>3, <1>4 DEF EndNext

LEMMA LoopTyped ==
  ASSUME TypeInv, NEW l \in Loops, LoopNext(l)
  PROVE  HubTyped' /\ LinkTyped' /\ Busy'
<1>0. l \in Procs /\ l \notin Ids
  BY TerminalConstants DEF Procs
<1>1. toHub \in Seq(ToHubMsg)
  BY DEF TypeInv, LinkTyped
<1>2. CASE DeliverOutput(l)
  <2>1. Take(l, "OUT")
    BY <1>2 DEF DeliverOutput
  <2>2. toHub' \in Seq(ToHubMsg) /\ Head(toHub).id \in Ids
    BY <1>1, <2>1, TakeTyped
  <2>3. job' = [job EXCEPT ![l] = Head(toHub).id]
    BY <2>1 DEF Take
  <2>4. QED
    BY <1>0, <1>2, <2>2, <2>3 DEF TypeInv, HubTyped, LinkTyped, Busy, DeliverOutput, Goto, linkVars, agentVars
<1>3. CASE OutputWritten(l)
  BY <1>0, <1>3 DEF TypeInv, HubTyped, LinkTyped, Busy, OutputWritten, EndWrite, Goto, linkVars, agentVars
<1>4. CASE DeliverExit(l)
  <2>1. Take(l, "EXIT")
    BY <1>4 DEF DeliverExit
  <2>2. toHub' \in Seq(ToHubMsg) /\ Head(toHub).id \in Ids
    BY <1>1, <2>1, TakeTyped
  <2>3. job' = [job EXCEPT ![l] = Head(toHub).id]
    BY <2>1 DEF Take
  <2>4. QED
    BY <1>0, <1>4, <2>2, <2>3 DEF TypeInv, HubTyped, LinkTyped, Busy, DeliverExit, Goto, linkVars, agentVars, Ending
<1>5. CASE Connect(l)
  <2>1. toAgent' \in Seq(ToAgentMsg) /\ toHub' \in Seq(ToHubMsg)
    BY <1>5 DEF Connect
  <2>2. QED
    BY <1>5, <2>1 DEF TypeInv, HubTyped, LinkTyped, Busy, Connect, hubVars, agentVars
<1>6. QED
  BY <1>2, <1>3, <1>4, <1>5 DEF LoopNext

LEMMA LinkStepTyped ==
  ASSUME TypeInv, LinkNext
  PROVE  HubTyped' /\ LinkTyped' /\ Busy'
<1>1. CASE LinkBreaks
  <2>1. toAgent' \in Seq(ToAgentMsg) /\ toHub' \in Seq(ToHubMsg)
    BY <1>1 DEF LinkBreaks
  <2>2. QED
    BY <1>1, <2>1 DEF TypeInv, HubTyped, LinkTyped, Busy, LinkBreaks, hubVars
<1>2. CASE HubDetaches
  BY <1>2 DEF TypeInv, HubTyped, LinkTyped, Busy, HubDetaches, hubVars
<1>3. QED
  BY <1>1, <1>2 DEF LinkNext

LEMMA PanicTyped ==
  ASSUME TypeInv, PanicNext
  PROVE  HubTyped' /\ LinkTyped' /\ Busy'
<1>1. ASSUME NEW b \in Browsers, HandlerPanics(b)
      PROVE  HubTyped' /\ LinkTyped' /\ Busy'
  <2>0. b \in Procs /\ b \notin Ids
    BY TerminalConstants DEF Procs
  <2>1. cut' \subseteq Ids
    BY <1>1, <2>0 DEF HandlerPanics, Unwind, CutShort, TypeInv, HubTyped, Busy
  <2>2. QED
    BY <1>1, <2>0, <2>1 DEF TypeInv, HubTyped, LinkTyped, Busy, HandlerPanics, Unwind, MayPanic, Goto, linkVars,
                             Ending
<1>2. ASSUME NEW l \in Loops, LoopPanics(l)
      PROVE  HubTyped' /\ LinkTyped' /\ Busy'
  <2>0. l \in Procs /\ l \notin Ids
    BY TerminalConstants DEF Procs
  <2>1. cut' \subseteq Ids
    BY <1>2, <2>0 DEF LoopPanics, Unwind, CutShort, TypeInv, HubTyped, Busy
  <2>2. toAgent' \in Seq(ToAgentMsg) /\ toHub' \in Seq(ToHubMsg)
    BY <1>2 DEF LoopPanics
  <2>3. QED
    BY <1>2, <2>0, <2>1, <2>2 DEF TypeInv, HubTyped, LinkTyped, Busy, LoopPanics, Unwind, Goto
<1>3. ASSUME NEW s \in Ids, ReaperPanics(s)
      PROVE  HubTyped' /\ LinkTyped' /\ Busy'
  <2>1. toAgent' \in Seq(ToAgentMsg) /\ toHub' \in Seq(ToHubMsg)
    BY <1>3 DEF ReaperPanics
  <2>2. /\ pc' \in [Procs -> {"idle", "done"}]
        /\ \A p \in Procs : pc'[p] # "idle" => p \in Ids \/ pc[p] # "idle"
    BY <1>3 DEF ReaperPanics, Procs
  <2>3. QED
    BY <1>3, <2>1, <2>2 DEF TypeInv, HubTyped, LinkTyped, Busy, ReaperPanics
<1>4. QED
  BY <1>1, <1>2, <1>3 DEF PanicNext

-----------------------------------------------------------------------------
(* The agent.                                                              *)

LEMMA OpenShellTyped ==
  ASSUME TypeInv, NEW s \in Ids, OpenShell(s)
  PROVE  PtyInv'
<1> USE DEF TypeInv, PtyInv
<1>1. CASE table[s] # NoPty
  <2>1. UNCHANGED agentVars
    BY <1>1 DEF OpenShell, agentVars
  <2>2. QED
    BY <2>1, PtysKept
<1>2. CASE table[s] = NoPty
  <2>1. PICK y \in Ptys : /\ of[y] = NoId /\ of' = [of EXCEPT ![y] = s]
                          /\ shells' = shells \cup {y} /\ starting' = y
    BY <1>2 DEF OpenShell, Spawn
  <2>2. UNCHANGED <<table, pump, hand>>
    BY DEF OpenShell
  <2>3. /\ \A z \in Ptys : of[z] \in Ids => of'[z] = of[z]
        /\ of'[y] = s
    BY <2>1, TerminalConstants DEF PtysTyped
  <2>4. PtysTyped'
    BY <2>1, <2>2 DEF PtysTyped
  <2>5. PtysOwned'
    BY <1>2, <2>1, <2>2, <2>3, TerminalConstants DEF PtysTyped, PtysOwned
  <2>6. QED
    BY <2>4, <2>5
<1>3. QED
  BY <1>1, <1>2

LEMMA EnterShellTyped ==
  ASSUME PtyInv, EnterShell
  PROVE  PtyInv'
<1> USE DEF PtyInv
<1>1. PICK y \in Ptys : y = starting
  BY DEF EnterShell, PtysTyped
<1>2. /\ of[y] \in Ids
      /\ table' = [table EXCEPT ![of[y]] = y] /\ pump' = [pump EXCEPT ![y] = "reading"]
      /\ starting' = NoPty /\ UNCHANGED <<of, shells, hand>>
  BY <1>1, TerminalConstants DEF EnterShell, PtysOwned
<1>3. PtysTyped'
  BY <1>1, <1>2 DEF PtysTyped
<1>4. PtysOwned'
  BY <1>1, <1>2, TerminalConstants DEF PtysTyped, PtysOwned
<1>5. QED
  BY <1>3, <1>4

\* A close that takes an entry out, by any goroutine.
LEMMA TakeOutTyped ==
  ASSUME PtyInv, NEW c \in Closers, NEW s \in Ids, TakeOut(c, s),
         UNCHANGED <<of, shells, starting>>,
         c \in Ptys =>
           /\ pump[c] # "none"
           /\ pump' = [pump EXCEPT ![c] = IF table[s] # NoPty THEN "killing" ELSE "done"],
         c \notin Ptys => UNCHANGED pump
  PROVE  PtyInv'
<1> USE DEF PtyInv
<1>1. table' = [table EXCEPT ![s] = NoPty] /\ hand' = [hand EXCEPT ![c] = table[s]]
  BY DEF TakeOut
<1>2. PtysTyped'
  BY <1>1 DEF PtysTyped
<1>3. Ptys \subseteq Closers /\ NoPty \notin Ptys
  BY TerminalConstants DEF Closers
<1>4. PtysOwned'
  <2>1. CASE c \in Ptys
    BY <1>1, <1>3, <2>1 DEF PtysTyped, PtysOwned
  <2>2. CASE c \notin Ptys
    BY <1>1, <1>3, <2>2 DEF PtysTyped, PtysOwned
  <2>3. QED
    BY <2>1, <2>2
<1>5. QED
  BY <1>2, <1>4

LEMMA KillTyped ==
  ASSUME TypeInv, NEW c \in Closers, Kill(c)
  PROVE  PtyInv' /\ toHub' \in Seq(ToHubMsg)
<1> USE DEF TypeInv, PtyInv
<1>1. PICK y \in Ptys : y = hand[c] /\ of[y] \in Ids
  BY DEF Kill, PtysTyped, PtysOwned
<1>2. /\ hand' = [hand EXCEPT ![c] = NoPty] /\ shells' = shells \ {y}
      /\ pump' = IF c \in Ptys THEN [pump EXCEPT ![c] = "done"] ELSE pump
      /\ UNCHANGED <<table, of, starting>>
  BY <1>1 DEF Kill
<1>3. PtysTyped'
  BY <1>2 DEF PtysTyped
<1>9. /\ Ptys \subseteq Closers /\ NoPty \notin Ptys
      /\ c \in Ptys => pump[c] \in {"killing", "late"}
  BY <1>1, TerminalConstants DEF Closers, PtysOwned
<1>4. PtysOwned'
  <2>1. CASE c \in Ptys
    BY <1>2, <1>9, <2>1 DEF PtysTyped, PtysOwned
  <2>2. CASE c \notin Ptys
    BY <1>2, <1>9, <2>2 DEF PtysTyped, PtysOwned
  <2>3. QED
    BY <2>1, <2>2
<1>5. toHub \in Seq(ToHubMsg)
  BY DEF LinkTyped
<1>6. toHub' = toHub \/ Send("EXIT", of[y])
  BY <1>1 DEF Kill
<1>7. toHub' \in Seq(ToHubMsg)
  BY <1>1, <1>5, <1>6, SendTyped
<1>8. QED
  BY <1>3, <1>4, <1>7

LEMMA SessionTyped ==
  ASSUME TypeInv, NEW s \in Ids, SessionNext(s)
  PROVE  HubTyped' /\ LinkTyped' /\ Busy' /\ PtyInv'
<1> USE DEF TypeInv
<1>1. toAgent \in Seq(ToAgentMsg) /\ toHub \in Seq(ToHubMsg)
  BY DEF LinkTyped
<1>2. UNCHANGED hubVars /\ UNCHANGED linkVars
  BY DEF SessionNext, OpenShell, OpenFails, TakeInput, CloseShell, CloseAll
<1>3. HubTyped' /\ Busy'
  BY <1>2 DEF HubTyped, Busy, hubVars
<1>4. toAgent' \in Seq(ToAgentMsg)
  <2>1. (\E k \in {"OPEN", "DATA", "CLOSE"} : Receive(k, s)) \/ UNCHANGED toAgent
    BY DEF SessionNext, OpenShell, OpenFails, TakeInput, CloseShell, CloseAll
  <2>2. QED
    BY <1>1, <2>1, ReceiveTyped
<1>5. toHub' \in Seq(ToHubMsg)
  <2>1. Send("EXIT", s) \/ UNCHANGED toHub
    BY DEF SessionNext, OpenShell, OpenFails, TakeInput, CloseShell, CloseAll
  <2>2. QED
    BY <1>1, <2>1, SendTyped
<1>6. LinkTyped'
  BY <1>2, <1>4, <1>5 DEF LinkTyped, linkVars
<1>7. PtyInv'
  <2>1. CASE OpenShell(s)
    BY <2>1, OpenShellTyped
  <2>2. CASE OpenFails(s) \/ TakeInput(s)
    <3>1. UNCHANGED agentVars
      BY <2>2 DEF OpenFails, TakeInput
    <3>2. QED
      BY <3>1, PtysKept
  <2>3. CASE CloseShell(s) \/ CloseAll(s)
    <3>1. TakeOut(RunOnce, s) /\ UNCHANGED <<of, shells, starting, pump>>
      BY <2>3 DEF CloseShell, CloseAll
    <3>2. RunOnce \in Closers /\ RunOnce \notin Ptys
      BY TerminalConstants DEF Closers
    <3>3. QED
      BY <3>1, <3>2, TakeOutTyped
  <2>4. QED
    BY <2>1, <2>2, <2>3 DEF SessionNext
<1>8. QED
  BY <1>3, <1>6, <1>7

LEMMA PtyTyped ==
  ASSUME TypeInv, NEW y \in Ptys, PtyNext(y)
  PROVE  HubTyped' /\ LinkTyped' /\ Busy' /\ PtyInv'
<1> USE DEF TypeInv
<1>1. UNCHANGED hubVars /\ UNCHANGED linkVars /\ UNCHANGED toAgent
  BY DEF PtyNext, ShellWrites, ShellExits, PumpEnds
<1>2. HubTyped' /\ Busy'
  BY <1>1 DEF HubTyped, Busy, hubVars
<1>3. toHub \in Seq(ToHubMsg)
  BY DEF LinkTyped
<1>4. CASE ShellWrites(y)
  <2>1. Send("OUT", of[y]) /\ of[y] \in Ids /\ UNCHANGED agentVars
    BY <1>4 DEF ShellWrites, PtyInv, PtysOwned
  <2>2. toHub' \in Seq(ToHubMsg)
    BY <1>3, <2>1, SendTyped
  <2>3. QED
    BY <1>1, <1>2, <2>1, <2>2, PtysKept DEF LinkTyped, linkVars
<1>5. CASE ShellExits(y)
  BY <1>1, <1>2, <1>5 DEF ShellExits, LinkTyped, linkVars, PtyInv, PtysTyped, PtysOwned
<1>6. CASE PumpEnds(y)
  <2>1. of[y] \in Ids /\ y \in Closers /\ pump[y] # "none"
    BY <1>6 DEF PumpEnds, PtyInv, PtysOwned, Closers
  <2>2. /\ TakeOut(y, of[y]) /\ UNCHANGED <<of, shells, starting>>
        /\ pump' = [pump EXCEPT ![y] = IF table[of[y]] # NoPty THEN "killing" ELSE "done"]
    BY <1>6 DEF PumpEnds
  <2>3. PtyInv'
    BY <2>1, <2>2, TakeOutTyped
  <2>4. LinkTyped'
    BY <1>1, <1>6 DEF PumpEnds, LinkTyped, linkVars
  <2>5. QED
    BY <1>2, <2>3, <2>4
<1>7. QED
  BY <1>4, <1>5, <1>6 DEF PtyNext

\* The pumps of a manager that is gone.
LEMMA OutlivedPumps ==
  ASSUME PtysTyped, OutliveRunOnce
  PROVE  /\ pump' \in [Ptys -> {"none", "reading", "killing", "late", "done"}]
         /\ \A y \in Ptys : /\ pump'[y] \notin {"reading", "killing"}
                            /\ (pump'[y] = "none") <=> (pump[y] = "none")
                            /\ pump[y] \in {"killing", "late"} => pump'[y] = "late"
<1>1. pump \in [Ptys -> {"none", "reading", "killing", "late", "done"}]
  BY DEF PtysTyped
<1> DEFINE Next_(st) == IF st = "reading" THEN "done" ELSE IF st = "killing" THEN "late" ELSE st
<1>2. pump' = [y \in Ptys |-> Next_(pump[y])]
  BY DEF OutliveRunOnce
<1>3. ASSUME NEW st \in {"none", "reading", "killing", "late", "done"}
      PROVE  /\ Next_(st) \in {"none", "late", "done"}
             /\ (Next_(st) = "none") <=> (st = "none")
             /\ st \in {"killing", "late"} => Next_(st) = "late"
  OBVIOUS
<1> HIDE DEF Next_
<1>4. \A y \in Ptys : pump[y] \in {"none", "reading", "killing", "late", "done"}
  BY <1>1
<1>5. QED
  BY <1>2, <1>3, <1>4

LEMMA AgentTyped ==
  ASSUME TypeInv, AgentNext
  PROVE  HubTyped' /\ LinkTyped' /\ Busy' /\ PtyInv'
<1> USE DEF TypeInv
<1>1. ASSUME NEW c \in Closers, Kill(c)
      PROVE  HubTyped' /\ LinkTyped' /\ Busy' /\ PtyInv'
  <2>1. UNCHANGED hubVars /\ UNCHANGED linkVars /\ UNCHANGED toAgent
    BY <1>1 DEF Kill
  <2>2. QED
    BY <1>1, <2>1, KillTyped DEF HubTyped, LinkTyped, Busy, hubVars, linkVars
<1>2. CASE EnterShell
  <2>1. UNCHANGED hubVars /\ UNCHANGED linkVars /\ UNCHANGED <<toAgent, toHub>>
    BY <1>2 DEF EnterShell
  <2>2. QED
    BY <1>2, <2>1, EnterShellTyped DEF HubTyped, LinkTyped, Busy, hubVars, linkVars
<1>3. CASE RunOnceReturns
  <2>1. /\ UNCHANGED hubVars /\ UNCHANGED <<reader, live, toAgent, toHub>>
        /\ agent' = "down" /\ UNCHANGED <<table, of, shells, starting, hand>>
    BY <1>3 DEF RunOnceReturns
  <2>2. HubTyped' /\ LinkTyped' /\ Busy'
    BY <2>1 DEF HubTyped, LinkTyped, Busy, hubVars
  <2>3. OutliveRunOnce
    BY <1>3 DEF RunOnceReturns
  <2>4. PtyInv'
    BY <2>1, <2>3, OutlivedPumps DEF PtyInv, PtysTyped, PtysOwned
  <2>5. QED
    BY <2>2, <2>4
<1>4. QED
  BY <1>1, <1>2, <1>3, SessionTyped, PtyTyped DEF AgentNext

LEMMA TypeStep == TypeInv /\ [Next]_vars => TypeInv'
<1> SUFFICES ASSUME TypeInv, [Next]_vars PROVE TypeInv'
  OBVIOUS
<1>1. CASE UNCHANGED vars
  BY <1>1 DEF TypeInv, HubTyped, LinkTyped, Busy, PtyInv, PtysTyped, PtysOwned, vars
<1>2. CASE \/ \E s \in Ids : ReaperNext(s)
           \/ \E b \in Browsers : HandlerNext(b)
           \/ \E p \in Procs : EndNext(p)
           \/ \E l \in Loops : LoopNext(l)
           \/ LinkNext \/ PanicNext
  <2>1. UNCHANGED agentVars
    BY <1>2 DEF ReaperNext, CheckConnected, Mint, Reap, HandlerNext, FindSession, UpgradeFails,
         AttachBrowser, RequestShell, Input, BrowserLeaves, ReadFails, EndNext, Unlink, Capture,
         CloseBrowser, Release, LoopNext, DeliverOutput, OutputWritten, DeliverExit, Connect,
         LinkNext, LinkBreaks, HubDetaches, PanicNext, HandlerPanics, LoopPanics, ReaperPanics
  <2>2. HubTyped' /\ LinkTyped' /\ Busy'
    BY <1>2, ReaperTyped, HandlerTyped, EndTyped, LoopTyped, LinkStepTyped, PanicTyped
  <2>3. QED
    BY <2>1, <2>2, PtysKept DEF TypeInv
<1>3. CASE AgentNext
  BY <1>3, AgentTyped DEF TypeInv
<1>4. QED
  BY <1>1, <1>2, <1>3 DEF Next

\* Type correctness.
THEOREM TypeCorrect == Spec => []TypeOK
<1>1. TypeInv => TypeOK
  BY TypeParts DEF TypeInv, PtyInv
<1>2. QED
  BY <1>1, TypeInit, TypeStep, PTL DEF Spec

-----------------------------------------------------------------------------
(* Who answers for a session.  The row and the entry of a session change at   *)
(* different moments and by different goroutines; the invariant names the one *)
(* goroutine that is between the two, and the handler that has the session    *)
(* once the reaper has let go of it.                                          *)

Finishing == {"capturing", "notifying", "releasing"}

RowInv ==
  /\ \A s \in Ids : pc[s] \in {"idle", "minting"} => row[s] = "none"
  /\ \A b \in Browsers : pc[b] = "found" => row[job[b]] # "none"
  /\ \A s \in Ids : row[s] = "none" => browser[s] = NoBrowser

AuditInv ==
  /\ \A s \in held : row[s] = "open"
  /\ \A s \in Ids : row[s] = "open" /\ s \notin held /\ s \notin cut
                      => \E p \in Procs : job[p] = s /\ pc[p] \in Finishing
  /\ \A s \in cut : row[s] = "open" /\ s \notin held
  /\ \A p \in Procs : pc[p] \in Finishing => row[job[p]] = "open" /\ job[p] \notin held \cup cut
  /\ \A p, q \in Procs : pc[p] \in Finishing /\ pc[q] \in Finishing /\ job[p] = job[q] => p = q

KeptBy(b, s) == job[b] = s /\ pc[b] \in {"opening", "pumping", "unlinking"}

KeeperInv ==
  \A s \in held :
    \/ pc[s] \in {"armed", "unlinking"} /\ browser[s] = NoBrowser
    \/ \E b \in Browsers : KeptBy(b, s)

SessionInv == RowInv /\ AuditInv /\ KeeperInv

LEMMA SessionInit == Init => SessionInv
BY DEF Init, SessionInv, RowInv, AuditInv, KeeperInv, Finishing, Procs

\* The reaper.
LEMMA ReaperKeeps ==
  ASSUME TypeInv, SessionInv, NEW s \in Ids, ReaperNext(s)
  PROVE  SessionInv'
<1> USE DEF TypeInv, HubTyped, Busy, Finishing
<1>0. s \in Procs /\ s \notin Browsers /\ s \notin Loops
  BY TerminalConstants DEF Procs
<1>1. CASE CheckConnected(s)
  <2>1. RowInv'
    BY <1>0, <1>1 DEF SessionInv, RowInv, AuditInv, CheckConnected, Goto
  <2>2. AuditInv'
    BY <1>0, <1>1 DEF SessionInv, RowInv, AuditInv, CheckConnected, Goto
  <2>3. KeeperInv'
    BY <1>0, <1>1 DEF SessionInv, RowInv, AuditInv, KeeperInv, KeptBy, CheckConnected, Goto
  <2>4. QED
    BY <2>1, <2>2, <2>3 DEF SessionInv
<1>2. CASE Mint(s)
  <2>1. RowInv'
    BY <1>0, <1>2 DEF SessionInv, RowInv, AuditInv, Mint, Goto
  <2>2. AuditInv'
    BY <1>0, <1>2 DEF SessionInv, RowInv, AuditInv, Mint, Goto
  <2>3. KeeperInv'
    BY <1>0, <1>2 DEF SessionInv, RowInv, AuditInv, KeeperInv, KeptBy, Mint, Goto
  <2>4. QED
    BY <2>1, <2>2, <2>3 DEF SessionInv
<1>3. CASE Reap(s)
  <2>1. RowInv'
    BY <1>0, <1>3 DEF SessionInv, RowInv, AuditInv, Reap, Goto
  <2>2. AuditInv'
    BY <1>0, <1>3 DEF SessionInv, RowInv, AuditInv, Reap, Goto
  <2>3. KeeperInv'
    BY <1>0, <1>3 DEF SessionInv, RowInv, AuditInv, KeeperInv, KeptBy, Reap, Goto
  <2>4. QED
    BY <2>1, <2>2, <2>3 DEF SessionInv
<1>4. QED
  BY <1>1, <1>2, <1>3 DEF ReaperNext

\* The steps of a handler that touch a session.
LEMMA HandlerKeeps ==
  ASSUME TypeInv, SessionInv, NEW b \in Browsers, HandlerNext(b), ~Input(b), ~BrowserLeaves(b)
  PROVE  SessionInv'
<1> USE DEF TypeInv, HubTyped, Busy, Finishing
<1>0. b \in Procs /\ b \notin Ids /\ b \notin Loops
  BY TerminalConstants DEF Procs
<1>1. ASSUME NEW s \in Ids, FindSession(b, s) PROVE SessionInv'
  <2>1. RowInv'
    BY <1>0, <1>1 DEF SessionInv, RowInv, AuditInv, FindSession, Goto
  <2>2. AuditInv'
    BY <1>0, <1>1 DEF SessionInv, RowInv, AuditInv, FindSession, Goto
  <2>3. KeeperInv'
    BY <1>0, <1>1 DEF SessionInv, RowInv, AuditInv, KeeperInv, KeptBy, FindSession, Goto
  <2>4. QED
    BY <2>1, <2>2, <2>3 DEF SessionInv
<1>2. CASE UpgradeFails(b)
  <2>1. RowInv'
    BY <1>0, <1>2 DEF SessionInv, RowInv, AuditInv, UpgradeFails, Goto
  <2>2. AuditInv'
    BY <1>0, <1>2 DEF SessionInv, RowInv, AuditInv, UpgradeFails, Goto
  <2>3. KeeperInv'
    BY <1>0, <1>2 DEF SessionInv, RowInv, AuditInv, KeeperInv, KeptBy, UpgradeFails, Goto
  <2>4. QED
    BY <2>1, <2>2, <2>3 DEF SessionInv
<1>3. CASE AttachBrowser(b)
  <2>1. RowInv'
    BY <1>0, <1>3 DEF SessionInv, RowInv, AuditInv, AttachBrowser, Goto
  <2>2. AuditInv'
    BY <1>0, <1>3 DEF SessionInv, RowInv, AuditInv, AttachBrowser, Goto
  <2>3. KeeperInv'
    BY <1>0, <1>3 DEF SessionInv, RowInv, AuditInv, KeeperInv, KeptBy, AttachBrowser, Goto
  <2>4. QED
    BY <2>1, <2>2, <2>3 DEF SessionInv
<1>4. CASE RequestShell(b)
  <2>1. RowInv'
    BY <1>0, <1>4 DEF SessionInv, RowInv, AuditInv, RequestShell, Goto
  <2>2. AuditInv'
    BY <1>0, <1>4 DEF SessionInv, RowInv, AuditInv, RequestShell, Goto
  <2>3. KeeperInv'
    BY <1>0, <1>4 DEF SessionInv, RowInv, AuditInv, KeeperInv, KeptBy, RequestShell, Goto
  <2>4. QED
    BY <2>1, <2>2, <2>3 DEF SessionInv
<1>5. CASE ReadFails(b)
  <2>1. RowInv'
    BY <1>0, <1>5 DEF SessionInv, RowInv, AuditInv, ReadFails, Goto
  <2>2. AuditInv'
    BY <1>0, <1>5 DEF SessionInv, RowInv, AuditInv, ReadFails, Goto
  <2>3. KeeperInv'
    BY <1>0, <1>5 DEF SessionInv, RowInv, AuditInv, KeeperInv, KeptBy, ReadFails, Goto
  <2>4. QED
    BY <2>1, <2>2, <2>3 DEF SessionInv
<1>6. QED
  BY <1>1, <1>2, <1>3, <1>4, <1>5 DEF HandlerNext

\* endSession.
LEMMA EndKeeps ==
  ASSUME TypeInv, SessionInv, NEW p \in Procs, EndNext(p)
  PROVE  SessionInv'
<1> USE DEF TypeInv, HubTyped, Busy, Finishing
<1>0. p \in Procs /\ (p \in Ids => p \notin Loops)
  BY TerminalConstants DEF Procs
<1>1. CASE Unlink(p)
  <2>1. RowInv'
    BY <1>0, <1>1 DEF SessionInv, RowInv, AuditInv, Unlink, Goto, After
  <2>2. AuditInv'
    BY <1>0, <1>1 DEF SessionInv, RowInv, AuditInv, Unlink, Goto, After
  <2>3. KeeperInv'
    BY <1>0, <1>1 DEF SessionInv, RowInv, AuditInv, KeeperInv, KeptBy, Unlink, Goto, After
  <2>4. QED
    BY <2>1, <2>2, <2>3 DEF SessionInv
<1>2. CASE Capture(p)
  <2>1. RowInv'
    BY <1>0, <1>2 DEF SessionInv, RowInv, AuditInv, Capture, Goto, After
  <2>2. AuditInv'
    BY <1>0, <1>2 DEF SessionInv, RowInv, AuditInv, Capture, Goto, After
  <2>3. KeeperInv'
    BY <1>0, <1>2 DEF SessionInv, RowInv, AuditInv, KeeperInv, KeptBy, Capture, Goto, After
  <2>4. QED
    BY <2>1, <2>2, <2>3 DEF SessionInv
<1>3. CASE CloseBrowser(p)
  <2>1. RowInv'
    BY <1>0, <1>3 DEF SessionInv, RowInv, AuditInv, CloseBrowser, Goto, After
  <2>2. AuditInv'
    BY <1>0, <1>3 DEF SessionInv, RowInv, AuditInv, CloseBrowser, Goto, After
  <2>3. KeeperInv'
    BY <1>0, <1>3 DEF SessionInv, RowInv, AuditInv, KeeperInv, KeptBy, CloseBrowser, Goto, After
  <2>4. QED
    BY <2>1, <2>2, <2>3 DEF SessionInv
<1>4. CASE Release(p)
  <2>1. RowInv'
    BY <1>0, <1>4 DEF SessionInv, RowInv, AuditInv, Release, Goto, After
  <2>2. AuditInv'
    BY <1>0, <1>4 DEF SessionInv, RowInv, AuditInv, Release, Goto, After
  <2>3. KeeperInv'
    BY <1>0, <1>4 DEF SessionInv, RowInv, AuditInv, KeeperInv, KeptBy, Release, Goto, After
  <2>4. QED
    BY <2>1, <2>2, <2>3 DEF SessionInv
<1>5. QED
  BY <1>1, <1>2, <1>3, <1>4 DEF EndNext

\* The read loop.
LEMMA LoopKeeps ==
  ASSUME TypeInv, SessionInv, NEW l \in Loops, LoopNext(l), ~Connect(l)
  PROVE  SessionInv'
<1> USE DEF TypeInv, HubTyped, Busy, Finishing
<1>0. l \in Procs /\ l \notin Ids /\ l \notin Browsers
  BY TerminalConstants DEF Procs
<1>1. CASE DeliverOutput(l)
  <2>1. /\ pc[l] = "idle"
        /\ pc' = pc \/ pc' = [pc EXCEPT ![l] = "delivering"]
        /\ UNCHANGED <<held, row, browser, cut>>
    BY <1>1 DEF DeliverOutput, Take, Goto
  <2>2. PICK s : job' = [job EXCEPT ![l] = s]
    BY <1>1 DEF DeliverOutput, Take
  <2>3. /\ pc'[l] \in {"idle", "delivering"} /\ held' = held /\ row' = row
        /\ browser' = browser /\ cut' = cut
    BY <1>0, <2>1
  <2>4. \A p \in Procs \ {l} : pc'[p] = pc[p] /\ job'[p] = job[p]
    BY <1>0, <2>1, <2>2
  <2>5. Ids \subseteq Procs \ {l} /\ Browsers \subseteq Procs \ {l}
    BY TerminalConstants DEF Procs
  <2>6. RowInv'
    BY <2>3, <2>4, <2>5 DEF SessionInv, RowInv
  <2>7. AuditInv'
    <3>1. \A p \in Procs : pc[p] \in Finishing => p # l
      BY <2>1
    <3>2. \A p \in Procs : pc'[p] \in Finishing => p # l
      BY <2>3
    <3> HIDE DEF Finishing
    <3>3. QED
      BY <2>3, <2>4, <3>1, <3>2 DEF SessionInv, AuditInv
  <2>8. KeeperInv'
    BY <2>3, <2>4, <2>5 DEF SessionInv, KeeperInv, KeptBy
  <2>9. QED
    BY <2>6, <2>7, <2>8 DEF SessionInv
<1>2. CASE OutputWritten(l)
  <2>1. RowInv'
    BY <1>0, <1>2 DEF SessionInv, RowInv, AuditInv, OutputWritten, Take, Goto
  <2>2. AuditInv'
    BY <1>0, <1>2 DEF SessionInv, RowInv, AuditInv, OutputWritten, Take, Goto
  <2>3. KeeperInv'
    BY <1>0, <1>2 DEF SessionInv, RowInv, AuditInv, KeeperInv, KeptBy, OutputWritten, Take, Goto
  <2>4. QED
    BY <2>1, <2>2, <2>3 DEF SessionInv
<1>3. CASE DeliverExit(l)
  <2>1. RowInv'
    BY <1>0, <1>3 DEF SessionInv, RowInv, AuditInv, DeliverExit, Take, Goto
  <2>2. AuditInv'
    BY <1>0, <1>3 DEF SessionInv, RowInv, AuditInv, DeliverExit, Take, Goto
  <2>3. KeeperInv'
    BY <1>0, <1>3 DEF SessionInv, RowInv, AuditInv, KeeperInv, KeptBy, DeliverExit, Take, Goto
  <2>4. QED
    BY <2>1, <2>2, <2>3 DEF SessionInv
<1>4. QED
  BY <1>1, <1>2, <1>3 DEF LoopNext

\* A panic: the goroutine that was ending a session leaves it cut short.
LEMMA UnwindKeeps ==
  ASSUME TypeInv, SessionInv, NEW p \in Browsers \cup Loops, NEW step \in {"idle", "done"},
         p \in Loops => step = "idle", p \in Browsers => step = "done",
         MayPanic(p), Unwind(p, step), UNCHANGED <<held, row, browser, job>>
  PROVE  SessionInv'
<1> USE DEF TypeInv, HubTyped, Busy
<1>0. p \in Procs /\ p \notin Ids /\ job[p] \in Ids
  BY TerminalConstants DEF Procs, MayPanic
<1>1. /\ pc[p] \in {"delivering", "notifying"} /\ pc' = [pc EXCEPT ![p] = step]
      /\ cut' = IF pc[p] = "notifying" THEN cut \cup {job[p]} ELSE cut
  BY DEF MayPanic, Unwind, CutShort, Goto
<1>2. pc'[p] = step /\ \A q \in Procs \ {p} : pc'[q] = pc[q]
  BY <1>0, <1>1
<1>3. Ids \subseteq Procs \ {p} /\ Browsers \subseteq Procs
  BY <1>0, TerminalConstants DEF Procs
<1>4. RowInv'
  BY <1>2, <1>3 DEF SessionInv, RowInv
<1>5. AuditInv'
  <2>1. CASE pc[p] = "notifying"
    <3>1. /\ p \in Procs /\ pc[p] \in Finishing /\ pc'[p] \notin Finishing
          /\ cut' = cut \cup {job[p]}
      BY <1>0, <1>1, <1>2, <2>1 DEF Finishing
    <3> HIDE DEF Finishing
    <3>2. QED
      BY <1>0, <1>2, <3>1 DEF SessionInv, AuditInv
  <2>2. CASE pc[p] = "delivering"
    <3>1. pc[p] \notin Finishing /\ pc'[p] \notin Finishing /\ cut' = cut
      BY <1>1, <1>2, <2>2 DEF Finishing
    <3> HIDE DEF Finishing
    <3>2. QED
      BY <1>0, <1>2, <3>1 DEF SessionInv, AuditInv
  <2>3. QED
    BY <1>1, <2>1, <2>2
<1>6. KeeperInv'
  BY <1>1, <1>2, <1>3 DEF SessionInv, KeeperInv, KeptBy
<1>7. QED
  BY <1>4, <1>5, <1>6 DEF SessionInv

LEMMA PanicKeeps ==
  ASSUME TypeInv, SessionInv, PanicNext
  PROVE  SessionInv'
<1>1. ASSUME NEW b \in Browsers, HandlerPanics(b) PROVE SessionInv'
  <2>1. b \notin Loops
    BY TerminalConstants
  <2>2. MayPanic(b) /\ Unwind(b, "done") /\ UNCHANGED <<held, row, browser, job>>
    BY <1>1 DEF HandlerPanics
  <2>3. QED
    BY <2>1, <2>2, UnwindKeeps
<1>2. ASSUME NEW l \in Loops, LoopPanics(l) PROVE SessionInv'
  <2>1. l \notin Browsers
    BY TerminalConstants
  <2>2. MayPanic(l) /\ Unwind(l, "idle") /\ UNCHANGED <<held, row, browser, job>>
    BY <1>2 DEF LoopPanics
  <2>3. QED
    BY <2>1, <2>2, UnwindKeeps
<1>3. ASSUME NEW s \in Ids, ReaperPanics(s) PROVE SessionInv'
  <2>1. /\ held' = {} /\ browser' = [t \in Ids |-> NoBrowser] /\ row' = row
        /\ cut' = cut \cup {t \in Ids : row[t] = "open"}
    BY <1>3 DEF ReaperPanics
  <2>2. /\ \A p \in Procs : pc'[p] \in {"idle", "done"}
        /\ \A t \in Ids : pc'[t] = "idle" => row[t] = "none"
    BY <1>3, TerminalConstants DEF ReaperPanics, Procs
  <2>3. Ids \subseteq Procs /\ Browsers \subseteq Procs
    BY DEF Procs
  <2>4. RowInv'
    BY <2>1, <2>2, <2>3 DEF RowInv
  <2>5. AuditInv'
    BY <2>1, <2>2 DEF SessionInv, AuditInv, Finishing
  <2>6. KeeperInv'
    BY <2>1 DEF KeeperInv
  <2>7. QED
    BY <2>4, <2>5, <2>6 DEF SessionInv
<1>4. QED
  BY <1>1, <1>2, <1>3 DEF PanicNext

\* Every other step leaves the sessions alone.
LEMMA OtherKeeps ==
  ASSUME SessionInv, UNCHANGED <<held, row, browser, pc, job, cut>>
  PROVE  SessionInv'
BY DEF SessionInv, RowInv, AuditInv, KeeperInv, KeptBy

LEMMA SessionStep == TypeInv /\ SessionInv /\ [Next]_vars => SessionInv'
<1> SUFFICES ASSUME TypeInv, SessionInv, [Next]_vars PROVE SessionInv'
  OBVIOUS
<1>1. CASE \E s \in Ids : ReaperNext(s)
  BY <1>1, ReaperKeeps
<1>2. CASE \E b \in Browsers : HandlerNext(b) /\ ~Input(b) /\ ~BrowserLeaves(b)
  BY <1>2, HandlerKeeps
<1>3. CASE \E p \in Procs : EndNext(p)
  BY <1>3, EndKeeps
<1>4. CASE \E l \in Loops : LoopNext(l) /\ ~Connect(l)
  BY <1>4, LoopKeeps
<1>5. CASE PanicNext
  BY <1>5, PanicKeeps
<1>6. CASE \/ \E b \in Browsers : Input(b) \/ BrowserLeaves(b)
           \/ \E l \in Loops : Connect(l)
           \/ AgentNext \/ LinkNext \/ UNCHANGED vars
  <2>1. CASE AgentNext
    <3>1. UNCHANGED hubVars
      BY <2>1 DEF AgentNext, SessionNext, PtyNext, OpenShell, OpenFails, TakeInput, CloseShell,
                  ShellWrites, ShellExits, PumpEnds, CloseAll, Kill, EnterShell, RunOnceReturns
    <3>2. QED
      BY <3>1, OtherKeeps DEF hubVars
  <2>2. CASE ~AgentNext
    <3>1. UNCHANGED <<held, row, browser, pc, job, cut>>
      BY <1>6, <2>2 DEF Input, BrowserLeaves, Connect, LinkNext, LinkBreaks, HubDetaches, vars,
                        hubVars
    <3>2. QED
      BY <3>1, OtherKeeps
  <2>3. QED
    BY <2>1, <2>2
<1>7. QED
  BY <1>1, <1>2, <1>3, <1>4, <1>5, <1>6 DEF Next

\* A held session always has someone who will end it, and the audit table and
\* the proxy's table agree but for the one goroutine that is ending a session and
\* for the sessions whose end a panic of two writers cut short (terminal_proxy.go
\* :272, :304).
THEOREM SessionsAccounted == Spec => [](HeldHasKeeper /\ AuditMatchesSessions)
<1>1. TypeInv /\ SessionInv => HeldHasKeeper
  <2> SUFFICES ASSUME TypeInv, SessionInv, NEW s \in held
               PROVE  \E p \in Procs : job[p] = s
                        /\ pc[p] \in {"armed", "opening", "pumping", "unlinking"}
    BY DEF HeldHasKeeper
  <2>1. s \in Procs /\ job[s] = s /\ Browsers \subseteq Procs
    BY DEF TypeInv, HubTyped, Busy, Procs
  <2>2. QED
    BY <2>1 DEF SessionInv, KeeperInv, KeptBy
<1>2. TypeInv /\ SessionInv => AuditMatchesSessions
  <2>1. Ending \ {"unlinking"} = Finishing
    BY DEF Ending, Finishing
  <2>2. QED
    BY <2>1 DEF SessionInv, AuditInv, AuditMatchesSessions, TypeInv, HubTyped, Busy, Finishing
<1>3. QED
  BY <1>1, <1>2, TypeInit, TypeStep, SessionInit, SessionStep, PTL DEF Spec

\* A session in the proxy's table has a goroutine that will take it out: none is
\* forgotten there (Mint, HandleRoute, endSession).
THEOREM SessionsHaveKeepers == Spec => []HeldHasKeeper
  BY SessionsAccounted, PTL

-----------------------------------------------------------------------------
(* The shells of the agent. *)

\* ShellsDieWithLink, and what makes it last: runOnce has nothing in hand when it
\* has returned, and no pump of its manager goes on.
ShellInv ==
  /\ \A y \in shells : \/ table[of[y]] = y
                       \/ starting = y
                       \/ \E c \in Closers : hand[c] = y
  /\ agent = "down" => /\ \A s \in Ids : table[s] = NoPty
                       /\ starting = NoPty /\ hand[RunOnce] = NoPty
                       /\ \A z \in Ptys : pump[z] \notin {"reading", "killing"}

LEMMA TakeOutKeepsShells ==
  ASSUME PtyInv, ShellInv, NEW c \in Closers, NEW s \in Ids, TakeOut(c, s),
         hand[c] = NoPty, agent # "down", UNCHANGED <<agent, of, shells, starting>>
  PROVE  ShellInv'
<1> USE DEF PtyInv, PtysTyped, PtysOwned
<1>1. table' = [table EXCEPT ![s] = NoPty] /\ hand' = [hand EXCEPT ![c] = table[s]]
  BY DEF TakeOut
<1>2. ASSUME NEW y \in shells'
      PROVE  table'[of'[y]] = y \/ starting' = y \/ \E d \in Closers : hand'[d] = y
  <2>1. y \in shells /\ y \in Ptys /\ y # NoPty /\ of[y] \in Ids /\ of' = of
    BY <1>2, TerminalConstants
  <2>2. CASE table[of[y]] = y /\ of[y] = s
    BY <1>1, <2>1, <2>2
  <2>3. CASE table[of[y]] = y /\ of[y] # s
    BY <1>1, <2>1, <2>3
  <2>4. CASE starting = y
    BY <2>4
  <2>5. ASSUME NEW d \in Closers, hand[d] = y
        PROVE  hand'[d] = y
    BY <1>1, <2>1, <2>5
  <2>6. QED
    BY <2>1, <2>2, <2>3, <2>4, <2>5 DEF ShellInv
<1>3. QED
  BY <1>2 DEF ShellInv

LEMMA AgentKeepsShells ==
  ASSUME PtyInv, ShellInv, AgentNext
  PROVE  ShellInv'
<1> USE DEF PtyInv, PtysTyped, PtysOwned
<1>1. RunOnce \in Closers /\ RunOnce \notin Ptys /\ Ptys \subseteq Closers /\ NoPty \notin Ptys
  BY TerminalConstants DEF Closers
<1>2. ASSUME NEW s \in Ids, OpenShell(s) PROVE ShellInv'
  <2>1. CASE table[s] # NoPty
    BY <1>2, <2>1 DEF OpenShell, ShellInv, linkVars
  <2>2. CASE table[s] = NoPty
    <3>1. PICK y \in Ptys : /\ of[y] = NoId /\ of' = [of EXCEPT ![y] = s]
                            /\ shells' = shells \cup {y} /\ starting' = y
      BY <1>2, <2>2 DEF OpenShell, Spawn
    <3>2. UNCHANGED <<table, pump, hand, agent>> /\ agent = "connected" /\ starting = NoPty
      BY <1>2 DEF OpenShell, linkVars, Receive, Reading
    <3>3. \A z \in shells : z # y /\ of'[z] = of[z]
      BY <3>1, TerminalConstants
    <3>4. QED
      BY <1>1, <3>1, <3>2, <3>3 DEF ShellInv
  <2>3. QED
    BY <2>1, <2>2
<1>3. ASSUME NEW s \in Ids, OpenFails(s) \/ TakeInput(s) PROVE ShellInv'
  BY <1>3 DEF OpenFails, TakeInput, ShellInv, linkVars, agentVars
<1>4. ASSUME NEW s \in Ids, CloseShell(s) \/ CloseAll(s) PROVE ShellInv'
  <2>1. /\ TakeOut(RunOnce, s) /\ hand[RunOnce] = NoPty /\ agent # "down"
        /\ UNCHANGED <<agent, of, shells, starting, pump>>
    BY <1>4 DEF CloseShell, CloseAll, Receive, Reading, linkVars
  <2>2. QED
    BY <1>1, <2>1, TakeOutKeepsShells
<1>5. ASSUME NEW y \in Ptys, ShellWrites(y) \/ ShellExits(y) PROVE ShellInv'
  BY <1>5 DEF ShellWrites, ShellExits, ShellInv, linkVars, agentVars
<1>6. ASSUME NEW y \in Ptys, PumpEnds(y) PROVE ShellInv'
  <2>1. /\ TakeOut(y, of[y]) /\ of[y] \in Ids /\ hand[y] = NoPty /\ agent # "down"
        /\ UNCHANGED <<agent, of, shells, starting>>
    BY <1>6 DEF PumpEnds, linkVars, ShellInv
  <2>2. QED
    BY <1>1, <2>1, TakeOutKeepsShells
<1>7. ASSUME NEW c \in Closers, Kill(c) PROVE ShellInv'
  <2>1. /\ hand[c] # NoPty /\ hand' = [hand EXCEPT ![c] = NoPty] /\ shells' = shells \ {hand[c]}
        /\ pump' = IF c \in Ptys THEN [pump EXCEPT ![c] = "done"] ELSE pump
        /\ UNCHANGED <<agent, table, of, starting>>
    BY <1>7 DEF Kill, linkVars
  <2>2. ASSUME NEW y \in shells', NEW d \in Closers, hand[d] = y PROVE hand'[d] = y
    BY <2>1, <2>2
  <2>3. \A y \in shells' : \/ table'[of'[y]] = y
                           \/ starting' = y
                           \/ \E d \in Closers : hand'[d] = y
    BY <2>1, <2>2 DEF ShellInv
  <2>5. agent' = "down" => /\ \A s \in Ids : table'[s] = NoPty
                           /\ starting' = NoPty /\ hand'[RunOnce] = NoPty
                           /\ \A z \in Ptys : pump'[z] \notin {"reading", "killing"}
    BY <1>1, <2>1 DEF ShellInv
  <2>6. QED
    BY <2>3, <2>5 DEF ShellInv
<1>8. CASE EnterShell
  <2>1. PICK y \in Ptys : y = starting /\ of[y] \in Ids /\ table[of[y]] = NoPty
    BY <1>8 DEF EnterShell
  <2>2. /\ table' = [table EXCEPT ![of[y]] = y] /\ pump' = [pump EXCEPT ![y] = "reading"]
        /\ starting' = NoPty /\ UNCHANGED <<agent, of, shells, hand>> /\ agent # "down"
    BY <1>1, <1>8, <2>1 DEF EnterShell, linkVars, ShellInv
  <2>3. \A z \in shells' : \/ table'[of'[z]] = z
                           \/ starting' = z
                           \/ \E d \in Closers : hand'[d] = z
    BY <1>1, <2>1, <2>2 DEF ShellInv
  <2>4. QED
    BY <1>1, <2>1, <2>2, <2>3 DEF ShellInv
<1>9. CASE RunOnceReturns
  <2>1. /\ agent' = "down" /\ Reading /\ \A s \in Ids : table[s] = NoPty
        /\ UNCHANGED <<table, of, shells, starting, hand>>
    BY <1>9 DEF RunOnceReturns
  <2>3. \A z \in Ptys : pump'[z] \notin {"reading", "killing"}
    BY <1>9, OutlivedPumps DEF RunOnceReturns
  <2>2. QED
    BY <2>1, <2>3 DEF ShellInv, Reading
<1>10. ASSUME NEW s \in Ids, SessionNext(s) PROVE ShellInv'
  BY <1>2, <1>3, <1>4, <1>10 DEF SessionNext
<1>11. ASSUME NEW y \in Ptys, PtyNext(y) PROVE ShellInv'
  BY <1>5, <1>6, <1>11 DEF PtyNext
<1>12. QED
  BY <1>7, <1>8, <1>9, <1>10, <1>11 DEF AgentNext

LEMMA ShellStep == TypeInv /\ ShellInv /\ [Next]_vars => ShellInv'
<1> SUFFICES ASSUME TypeInv, ShellInv, [Next]_vars PROVE ShellInv'
  OBVIOUS
<1>1. CASE AgentNext
  BY <1>1, AgentKeepsShells DEF TypeInv
<1>2. CASE UNCHANGED agentVars /\ (agent' = "down" => agent = "down")
  BY <1>2 DEF ShellInv, agentVars
<1>3. CASE ~AgentNext
  <2>1. UNCHANGED agentVars /\ (agent' = "down" => agent = "down")
    BY <1>3 DEF Next, ReaperNext, CheckConnected, Mint, Reap, HandlerNext, FindSession,
         UpgradeFails, AttachBrowser, RequestShell, Input, BrowserLeaves, ReadFails, EndNext,
         Unlink, Capture, CloseBrowser, Release, LoopNext, DeliverOutput, OutputWritten,
         DeliverExit, Connect, LinkNext, LinkBreaks, HubDetaches, PanicNext, HandlerPanics,
         LoopPanics, ReaperPanics, vars, linkVars, agentVars
  <2>2. QED
    BY <1>2, <2>1
<1>4. QED
  BY <1>1, <1>3

\* A shell that runs is in the manager's table or in the hands of a goroutine
\* that will enter or kill it, and none but those that a pump has in hand is left
\* when the connection is gone (open, close, CloseAll and runOnce).
THEOREM NoShellLeftBehind == Spec => []ShellsDieWithLink
<1>1. Init => ShellInv
  BY TerminalConstants DEF Init, ShellInv, Closers
<1>2. TypeInv /\ ShellInv => ShellsDieWithLink
  <2> SUFFICES ASSUME TypeInv, ShellInv PROVE ShellsDieWithLink
    OBVIOUS
  <2>1. ASSUME agent = "down", NEW y \in shells
        PROVE  \E z \in Ptys : hand[z] = y /\ pump[z] = "late"
    <3>1. y \in Ptys /\ y # NoPty /\ of[y] \in Ids
      BY TerminalConstants DEF TypeInv, PtyInv, PtysTyped, PtysOwned
    <3>2. PICK c \in Closers : hand[c] = y
      BY <2>1, <3>1 DEF ShellInv
    <3>3. c \in Ptys
      BY <2>1, <3>1, <3>2 DEF ShellInv, Closers
    <3>4. QED
      BY <2>1, <3>1, <3>2, <3>3 DEF ShellInv, TypeInv, PtyInv, PtysOwned
  <2>2. QED
    BY <2>1 DEF ShellInv, ShellsDieWithLink
<1>3. QED
  BY <1>1, <1>2, ShellStep, TypeInit, TypeStep, PTL DEF Spec
=============================================================================

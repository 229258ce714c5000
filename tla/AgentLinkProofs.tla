--------------------------- MODULE AgentLinkProofs ---------------------------
(***************************************************************************)
(* Theorems about AgentLink, for every choice of its deadlines.            *)
(***************************************************************************)
EXTENDS AgentLink, TLAPS

(***************************************************************************)
(* LinkInv follows an outage through the places the two ends can be in.    *)
(* While the hub still has the WebSocket that the agent left, its read     *)
(* deadline runs along with the outage; while the agent has one that the   *)
(* hub left, the agent's deadline does; between the two only the sleep is  *)
(* left.  A link made during an outage is fresh, and only one made in the  *)
(* first of the three is still exposed to a stale handler.  A browser that *)
(* holds a handler holds the count of the outage too.                      *)
(***************************************************************************)
OneLink == mine # None /\ attached # None => attached = mine

OnlineIsAttached == shown = "online" => attached # None /\ silence <= hubQuiet

OverdueIsHeld == attached # None /\ ~Held => hubQuiet <= HubDeadline

KickedWhileWaiting == closing # {} /\ mine = None => wait > 0 \/ outage <= HubDeadline

HubHasOld == mine = None /\ attached # None => outage <= hubQuiet /\ outage <= HubDeadline

HeldHasOld == (Held /\ ~Linked) \/ attached \in closing => outage = 0

Waiting == mine = None /\ attached = None => outage + wait <= LongestOutage

AgentHasOld == mine # None /\ ~Linked => outage <= HubDeadline + agentQuiet

FreshLink ==
  Linked /\ outage > 0 =>
    /\ hubQuiet = 0 /\ agentQuiet = 0 /\ reader = "reading"
    /\ closing = {} \/ outage <= HubDeadline

OutageInv ==
  /\ net = "down" => outage = 0
  /\ KickedWhileWaiting
  /\ HubHasOld
  /\ HeldHasOld
  /\ Waiting
  /\ AgentHasOld
  /\ FreshLink
  /\ OutageBounded

LinkInv == TypeOK /\ OneLink /\ OnlineIsAttached /\ OverdueIsHeld /\ OutageInv

\* A sleep lasts at least one unit and at most the longest.
LEMMA SleepBounds ==
  ASSUME backoff \in InitialBackoff .. MaxBackoff,
         NEW jitter \in 0 .. backoff \div 2
  PROVE  /\ backoff + jitter \in 1 .. LongestSleep
         /\ Doubled(backoff) \in InitialBackoff .. MaxBackoff
         /\ LongestSleep \in Nat
BY LinkConstants DEF LongestSleep, Doubled

\* The bounds that the steps add up to.
LEMMA Sums ==
  /\ LongestSleep \in Nat /\ MaxWait \in Nat /\ LongestOutage \in Nat
  /\ MaxWait = HandshakeTimeout + LongestSleep
  /\ LongestOutage = HubDeadline + AgentDeadline + LongestSleep
  /\ MaxWait <= LongestOutage
BY LinkConstants DEF LongestSleep, MaxWait, LongestOutage

\* What a timer is set to when it starts.
LEMMA Starts ==
  /\ None \notin Conns
  /\ 0 \in 0 .. HubDeadline + 1 /\ 0 \in 0 .. PingEvery
  /\ 0 \in 0 .. AgentDeadline
  /\ 0 \in 0 .. HeartbeatEvery /\ HeartbeatEvery \in 0 .. HeartbeatEvery
  /\ InitialBackoff \in InitialBackoff .. MaxBackoff
  /\ 0 \in 0 .. MaxWait
BY LinkConstants, Sums

LEMMA InitLinkInv == Init => LinkInv
<1> SUFFICES ASSUME Init PROVE LinkInv
  OBVIOUS
<1>1. TypeOK
  BY Starts DEF Init, TypeOK
<1>2. OneLink /\ OnlineIsAttached /\ OverdueIsHeld
  BY DEF Init, OneLink, OnlineIsAttached, OverdueIsHeld
<1>3. OutageInv
  BY LinkConstants, Sums
  DEF Init, OutageInv, KickedWhileWaiting, HubHasOld, HeldHasOld, Waiting, AgentHasOld,
      FreshLink, OutageBounded, Linked, Held
<1> QED
  BY <1>1, <1>2, <1>3 DEF LinkInv

\* Every step keeps the types.
LEMMA NextTypeOK ==
  ASSUME TypeOK, Next
  PROVE  TypeOK'
<1> USE Starts DEF TypeOK, agentVars, retryVars, hubVars, timers
<1>1. ASSUME NEW c \in Conns, Dial(c)
      PROVE  TypeOK'
  <2>1. closing' \subseteq Conns
    BY <1>1 DEF Dial
  <2> QED
    BY <1>1, <2>1 DEF Dial
<1>2. CASE DialFails
  <2>1. PICK dialing \in 0 .. HandshakeTimeout, jitter \in 0 .. backoff \div 2 :
          wait' = dialing + backoff + jitter
    BY <1>2 DEF DialFails
  <2>2. /\ backoff + jitter \in 1 .. LongestSleep
        /\ Doubled(backoff) \in InitialBackoff .. MaxBackoff
        /\ LongestSleep \in Nat
    BY SleepBounds
  <2>3. wait' \in 0 .. MaxWait
    BY <2>1, <2>2, Sums, LinkConstants
  <2> QED
    BY <1>2, <2>2, <2>3 DEF DialFails
<1>3. CASE Leave
  <2>1. PICK jitter \in 0 .. backoff \div 2 : wait' = backoff + jitter
    BY <1>3 DEF Leave, Sleep
  <2>2. /\ backoff + jitter \in 1 .. LongestSleep
        /\ Doubled(backoff) \in InitialBackoff .. MaxBackoff
        /\ LongestSleep \in Nat
    BY SleepBounds
  <2>3. wait' \in 0 .. MaxWait
    BY <2>1, <2>2, Sums, LinkConstants
  <2> QED
    BY <1>3, <2>2, <2>3 DEF Leave, Sleep
<1>4. CASE ReaderEnds
  BY <1>4 DEF ReaderEnds
<1>5. CASE WriterBlocks \/ WriterResumes \/ WriterFails
  BY <1>5 DEF WriterBlocks, WriterResumes, WriterFails
<1>6. CASE Heartbeat
  BY <1>6 DEF Heartbeat, FrameSent
<1>7. ASSUME NEW c \in Conns, ClosedHandlerReturns(c)
      PROVE  TypeOK'
  <2>1. closing' \subseteq Conns
    BY <1>7 DEF ClosedHandlerReturns
  <2> QED
    BY <1>7, <2>1 DEF ClosedHandlerReturns, Detached
<1>8. CASE Ping \/ HubEnvelope
  <2>1. CASE Ping
    <3>1. /\ hubQuiet' \in 0 .. HubDeadline + 1 /\ silence' \in 0 .. HubDeadline + 1
          /\ backlog' \in BOOLEAN
      BY <2>1 DEF Ping, FrameSent
    <3> QED
      BY <2>1, <3>1 DEF Ping
  <2>2. CASE HubEnvelope
    BY <2>2 DEF HubEnvelope
  <2> QED
    BY <1>8, <2>1, <2>2
<1>9. CASE HubReadFails \/ HubRestart
  <2>1. CASE HubReadFails
    BY <2>1 DEF HubReadFails, Detached
  <2>2. CASE HubRestart
    BY <2>2 DEF HubRestart, Detached
  <2> QED
    BY <1>9, <2>1, <2>2
<1>10. CASE NetBreaks \/ NetHeals
  BY <1>10 DEF NetBreaks, NetHeals
<1>11. CASE Tick
  <2>1. mine = None => wait > 0
    BY <1>11 DEF Tick, AgentIdle
  <2>2. /\ hubQuiet' \in 0 .. HubDeadline + 1 /\ sincePing' \in 0 .. PingEvery
        /\ silence' \in 0 .. HubDeadline + 1
        /\ agentQuiet' \in 0 .. AgentDeadline /\ sinceBeat' \in 0 .. HeartbeatEvery
    BY <1>11, LinkConstants DEF Tick, Older
  <2>3. wait' \in 0 .. MaxWait /\ outage' \in Nat
    BY <1>11, <2>1, Sums DEF Tick
  <2> QED
    BY <1>11, <2>2, <2>3 DEF Tick
<1>12. CASE Relay
  <2>1. attached \in Conns
    BY <1>12 DEF Relay, Carries, Linked
  <2> QED
    BY <1>12, <2>1 DEF Relay
<1>13. CASE Relayed
  <2>1. /\ attached' \in Conns \cup {None} /\ shown' \in {"online", "offline"}
        /\ backlog' \in BOOLEAN
    BY <1>13 DEF Relayed, Detached
  <2>2. /\ hubQuiet' \in 0 .. HubDeadline + 1 /\ sincePing' \in 0 .. PingEvery
        /\ silence' \in 0 .. HubDeadline + 1
    BY <1>13 DEF Relayed, Detached
  <2>3. closing' \subseteq Conns /\ relaying' \subseteq Conns
    BY <1>13 DEF Relayed
  <2> QED
    BY <1>13, <2>1, <2>2, <2>3 DEF Relayed
<1>14. CASE RelayPanics
  <2>1. closing' \subseteq Conns /\ relaying' \subseteq Conns
    BY <1>14 DEF RelayPanics
  <2> QED
    BY <1>14, <2>1 DEF RelayPanics, Detached
<1>15. CASE PumpCloses
  BY <1>15 DEF PumpCloses, Held
<1>16. ASSUME NEW c \in Conns, Released(c)
       PROVE  TypeOK'
  BY <1>16 DEF Released
<1> QED
  BY <1>1, <1>2, <1>3, <1>4, <1>5, <1>6, <1>7, <1>8, <1>9, <1>10, <1>11, <1>12, <1>13, <1>14,
     <1>15, <1>16
  DEF Next, AgentNext, HubNext, RelayNext

\* An agent that is shown online is attached, its silence no longer than the deadline runs,
\* and only a held handler's deadline runs over.
LEMMA NextOnline ==
  ASSUME TypeOK, OnlineIsAttached, OverdueIsHeld, OneLink, Next
  PROVE  (OnlineIsAttached /\ OverdueIsHeld /\ OneLink)'
<1> DEFINE Goal == OnlineIsAttached /\ OverdueIsHeld /\ OneLink
<1> USE LinkConstants
    DEF TypeOK, OnlineIsAttached, OverdueIsHeld, OneLink, Held, agentVars, retryVars, hubVars,
        timers
<1>1. ASSUME NEW c \in Conns, Dial(c)
      PROVE  Goal'
  BY <1>1 DEF Dial
<1>2. CASE DialFails \/ ReaderEnds \/ Leave
  BY <1>2 DEF DialFails, ReaderEnds, Leave
<1>3. CASE WriterBlocks \/ WriterResumes \/ WriterFails
  BY <1>3 DEF WriterBlocks, WriterResumes, WriterFails
<1>4. CASE Heartbeat
  BY <1>4 DEF Heartbeat, FrameSent, Carries, Linked
<1>5. ASSUME NEW c \in Conns, ClosedHandlerReturns(c)
      PROVE  Goal'
  BY <1>5 DEF ClosedHandlerReturns, Detached
<1>6. CASE Ping \/ HubEnvelope
  BY <1>6 DEF Ping, FrameSent, HubEnvelope
<1>7. CASE HubReadFails \/ HubRestart
  BY <1>7 DEF HubReadFails, HubRestart, Detached
<1>8. CASE NetBreaks \/ NetHeals
  BY <1>8 DEF NetBreaks, NetHeals
<1>9. CASE Tick
  <2>1. attached # None => Held \/ hubQuiet < HubDeadline
    BY <1>9 DEF Tick, HubIdle, HubExpired
  <2> QED
    BY <1>9, <2>1 DEF Tick, Older
<1>10. CASE Relay
  BY <1>10 DEF Relay
<1>11. CASE Relayed
  BY <1>11 DEF Relayed, Detached, HubExpired
<1>12. CASE RelayPanics
  BY <1>12 DEF RelayPanics, Detached
<1>13. CASE PumpCloses
  BY <1>13 DEF PumpCloses
<1>14. ASSUME NEW c \in Conns, Released(c)
       PROVE  Goal'
  BY <1>14 DEF Released
<1> QED
  BY <1>1, <1>2, <1>3, <1>4, <1>5, <1>6, <1>7, <1>8, <1>9, <1>10, <1>11, <1>12, <1>13, <1>14
  DEF Next, AgentNext, HubNext, RelayNext

\* Every step keeps the account of the outage.
LEMMA NextOutage ==
  ASSUME LinkInv, Next
  PROVE  OutageInv'
<1> USE LinkConstants, Sums
    DEF LinkInv, TypeOK, OneLink, OutageInv, KickedWhileWaiting, HubHasOld, HeldHasOld, Waiting,
        AgentHasOld, FreshLink, OutageBounded, Linked, Held, agentVars, retryVars, hubVars, timers
<1>1. ASSUME NEW c \in Conns, Dial(c)
      PROVE  OutageInv'
  <2>1. CASE attached = None
    <3>1. closing' = closing /\ (closing = {} \/ outage <= HubDeadline)
      BY <1>1, <2>1 DEF Dial
    <3> QED
      BY <1>1, <2>1, <3>1 DEF Dial
  <2>2. CASE attached # None
    <3>1. outage' <= HubDeadline
      BY <1>1, <2>2 DEF Dial
    <3> QED
      BY <1>1, <2>2, <3>1 DEF Dial
  <2> QED
    BY <2>1, <2>2
<1>2. CASE DialFails
  <2>1. PICK dialing \in 0 .. HandshakeTimeout, jitter \in 0 .. backoff \div 2 :
          wait' = dialing + backoff + jitter
    BY <1>2 DEF DialFails
  <2>2. backoff + jitter \in 1 .. LongestSleep
    BY SleepBounds
  <2>3. wait' \in 1 .. MaxWait /\ outage' = 0
    BY <1>2, <2>1, <2>2 DEF DialFails
  <2> QED
    BY <1>2, <2>3 DEF DialFails
<1>3. CASE ReaderEnds
  <2>1. Linked => outage = 0
    BY <1>3 DEF ReaderEnds, AgentExpired, Carries
  <2> QED
    BY <1>3, <2>1 DEF ReaderEnds
<1>4. CASE Leave
  <2>1. PICK jitter \in 0 .. backoff \div 2 : wait' = backoff + jitter
    BY <1>4 DEF Leave, Sleep
  <2>2. wait' \in 1 .. LongestSleep
    BY <2>1, SleepBounds
  <2>3. CASE attached = None
    BY <1>4, <2>2, <2>3 DEF Leave
  <2>4. CASE attached # None
    <3>1. /\ mine # None /\ reader = "ended" /\ mine' = None /\ wait' > 0
          /\ UNCHANGED <<net, reader, attached, closing, relaying, hubQuiet, outage>>
      BY <1>4, <2>2 DEF Leave
    <3>2. Linked => outage = 0
      BY <3>1
    <3>3. Linked \/ attached \in closing
      BY <3>1, <2>4
    <3> QED
      BY <2>2, <2>4, <3>1, <3>2, <3>3
  <2> QED
    BY <2>3, <2>4
<1>5. CASE WriterBlocks \/ WriterResumes \/ WriterFails
  BY <1>5 DEF WriterBlocks, WriterResumes, WriterFails
<1>6. CASE Heartbeat
  BY <1>6 DEF Heartbeat, FrameSent, Carries
<1>7. ASSUME NEW c \in Conns, ClosedHandlerReturns(c)
      PROVE  OutageInv'
  <2>1. mine # None => outage <= HubDeadline + agentQuiet
    <3>1. closing # {}
      BY <1>7 DEF ClosedHandlerReturns
    <3>2. CASE Linked
      BY <3>1, <3>2
    <3> QED
      BY <3>2
  <2>2. mine = None => /\ wait > 0 \/ outage <= HubDeadline
                       /\ outage + wait <= LongestOutage
    <3>1. closing # {}
      BY <1>7 DEF ClosedHandlerReturns
    <3>2. CASE attached = None
      BY <3>1, <3>2
    <3>3. CASE attached # None
      BY <3>1, <3>3
    <3> QED
      BY <3>2, <3>3
  <2> QED
    BY <1>7, <2>1, <2>2 DEF ClosedHandlerReturns, Detached
<1>8. CASE Ping \/ HubEnvelope
  BY <1>8 DEF Ping, FrameSent, HubEnvelope, Carries
<1>9. CASE HubReadFails
  <2>1. Linked => outage' = 0
    BY <1>9 DEF HubReadFails, HubExpired, Carries
  <2>2. outage' = outage \/ outage' = 0
    BY <1>9 DEF HubReadFails
  <2>3. mine = None => outage' + wait <= LongestOutage
    BY <1>9, <2>2 DEF HubReadFails
  <2> QED
    BY <1>9, <2>1, <2>2, <2>3 DEF HubReadFails, Detached
<1>10. CASE HubRestart
  BY <1>10 DEF HubRestart, Detached
<1>11. CASE NetBreaks \/ NetHeals
  BY <1>11 DEF NetBreaks, NetHeals
<1>12. CASE Tick
  <2>1. /\ closing \subseteq relaying /\ closing' = closing /\ relaying' = relaying
        /\ mine' = mine /\ attached' = attached /\ net' = net
    BY <1>12 DEF Tick, HubIdle
  <2>2. CASE outage' = 0
    <3>1. mine = None => wait' <= MaxWait
      BY <1>12 DEF Tick, AgentIdle
    <3>2. agentQuiet' \in Nat /\ hubQuiet' \in Nat
      BY <1>12 DEF Tick, Older
    <3> QED
      BY <1>12, <2>1, <2>2, <3>1, <3>2 DEF Tick
  <2>3. CASE net = "up" /\ ~Linked /\ relaying = {}
    <3>1. closing = {} /\ ~Held
      BY <2>1, <2>3
    <3>2. CASE mine = None /\ attached = None
      BY <1>12, <2>1, <2>3, <3>1, <3>2 DEF Tick, AgentIdle
    <3>3. CASE mine = None /\ attached # None
      BY <1>12, <2>1, <2>3, <3>1, <3>3 DEF Tick, HubIdle, HubExpired, Older
    <3>4. CASE mine # None
      <4>1. reader = "reading" /\ agentQuiet < AgentDeadline
        BY <1>12, <2>3, <3>4 DEF Tick, AgentIdle, AgentExpired, Jammed
      <4> QED
        BY <1>12, <2>1, <2>3, <3>1, <3>4, <4>1 DEF Tick, Older
    <3> QED
      BY <3>2, <3>3, <3>4
  <2> QED
    BY <1>12, <2>2, <2>3 DEF Tick
<1>13. CASE Relay
  BY <1>13 DEF Relay, Carries
<1>14. CASE Relayed
  <2>1. HubExpired => outage = 0
    BY <1>14 DEF Relayed, HubExpired
  <2>2. mine = None => outage = 0
    BY <1>14 DEF Relayed
  <2>3. CASE UNCHANGED attached
    BY <1>14, <2>2, <2>3 DEF Relayed, Detached
  <2>4. CASE HubExpired /\ Detached
    BY <1>14, <2>1, <2>4 DEF Relayed, Detached
  <2> QED
    BY <1>14, <2>3, <2>4 DEF Relayed
<1>15. CASE RelayPanics
  BY <1>15 DEF RelayPanics, Detached
<1>16. CASE PumpCloses
  <2>1. outage = 0
    BY <1>16 DEF PumpCloses, Carries
  <2> QED
    BY <1>16, <2>1 DEF PumpCloses
<1>17. ASSUME NEW c \in Conns, Released(c)
       PROVE  OutageInv'
  BY <1>17 DEF Released
<1> QED
  BY <1>1, <1>2, <1>3, <1>4, <1>5, <1>6, <1>7, <1>8, <1>9, <1>10, <1>11, <1>12, <1>13, <1>14,
     <1>15, <1>16, <1>17
  DEF Next, AgentNext, HubNext, RelayNext

LEMMA LinkInvHolds == Spec => []LinkInv
<1>1. Init => LinkInv
  BY InitLinkInv
<1>2. LinkInv /\ [Next]_vars => LinkInv'
  <2> SUFFICES ASSUME LinkInv, [Next]_vars
               PROVE  LinkInv'
    OBVIOUS
  <2>1. CASE Next
    BY <2>1, NextTypeOK, NextOnline, NextOutage DEF LinkInv
  <2>2. CASE UNCHANGED vars
    BY <2>2
    DEF vars, agentVars, retryVars, hubVars, timers, LinkInv, TypeOK, OneLink, OnlineIsAttached,
        OverdueIsHeld, OutageInv, KickedWhileWaiting, HubHasOld, HeldHasOld, Waiting, AgentHasOld,
        FreshLink, OutageBounded, Linked, Held
  <2> QED
    BY <2>1, <2>2
<1> QED
  BY <1>1, <1>2, PTL DEF Spec

-----------------------------------------------------------------------------
\* Both ends of the link keep their types, and no timer runs past its deadline.
THEOREM TypeCorrect == Spec => []TypeOK
<1>1. LinkInv => TypeOK
  BY DEF LinkInv
<1> QED
  BY <1>1, LinkInvHolds, PTL

\* An agent shown online was heard within the hub's read deadline, or a browser holds its
\* handler in a write, for any deadlines.
THEOREM OnlineWasHeard == Spec => []OnlineIsRecent
<1>1. LinkInv => OnlineIsRecent
  BY LinkConstants DEF LinkInv, TypeOK, OnlineIsAttached, OverdueIsHeld, OnlineIsRecent
<1> QED
  BY <1>1, LinkInvHolds, PTL

\* With the network up and no handler held by a browser, agent and hub are apart for no
\* longer than the hub's deadline, the agent's deadline and the longest sleep together, the
\* stale Detach included.
THEOREM ReconnectsInTime == Spec => []OutageBounded
<1>1. LinkInv => OutageBounded
  BY DEF LinkInv, OutageInv
<1> QED
  BY <1>1, LinkInvHolds, PTL

=============================================================================

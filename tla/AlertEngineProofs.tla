-------------------------- MODULE AlertEngineProofs --------------------------
(***************************************************************************)
(* Proofs about AlertEngine, for every list of rules, every set of servers *)
(* and every cooldown.                                                     *)
(***************************************************************************)
EXTENDS AlertEngine, SequenceTheorems, TLAPS

RuleType ==
  [metric : Metrics, cond : {">", "<", ">=", "<=", "==", "!="}, threshold : Int,
   duration : Nat, cooldown : Int, servers : SUBSET Servers]

LEMMA RuleTyped ==
  /\ Len(Rules) \in Nat \ {0}
  /\ \A i \in RuleIds : Rules[i] \in RuleType
<1>1. Rules \in Seq(RuleType) /\ Rules # <<>>
  BY AlertConstants DEF RuleType
<1>2. Len(Rules) \in Nat /\ \A i \in 1..Len(Rules) : Rules[i] \in RuleType
  BY <1>1
<1>3. Len(Rules) # 0
  BY <1>1, EmptySeq
<1>4. QED
  BY <1>2, <1>3 DEF RuleIds

\* While the loop runs, `at` is a rule and (at, from) a key.
LEMMA LoopKey ==
  ASSUME TypeOK, at # 0
  PROVE  /\ at \in RuleIds
         /\ from \in Servers
         /\ Key(at, from) \in Keys
         /\ Rules[at] \in RuleType
  BY RuleTyped DEF TypeOK, RuleIds, Keys, Key

LEMMA NextRuleTyped ==
  ASSUME TypeOK, at # 0, NextRule
  PROVE  at' \in 0..Len(Rules)
  BY RuleTyped DEF TypeOK, NextRule

\* Appending an event, and dropping the oldest one over the cap, keeps a history.
LEMMA HistoryTyped ==
  ASSUME NEW h \in Seq(EventType), NEW e \in EventType
  PROVE  Append(h, e) \in Seq(EventType) /\ Trimmed(Append(h, e)) \in Seq(EventType)
<1>1. Append(h, e) \in Seq(EventType) /\ Append(h, e) # <<>>
  BY AppendProperties
<1>2. Tail(Append(h, e)) \in Seq(EventType)
  BY <1>1, HeadTailProperties
<1>3. QED
  BY <1>1, <1>2 DEF Trimmed

EventLogTyped ==
  /\ history \in Seq(EventType)
  /\ shown \in [Keys -> {"none", "triggered", "resolved"}]
  /\ fired \in [Keys -> 0..MaxTime]

LEMMA EmitTyped ==
  ASSUME TypeOK, NEW k \in Keys, TriggerAlert(k) \/ ResolveAlert(k) \/ Silent
  PROVE  EventLogTyped'
<1>1. Event(k, "triggered") \in EventType /\ Event(k, "resolved") \in EventType
  BY DEF Event, EventType
<1>2. history' \in Seq(EventType)
  BY <1>1, HistoryTyped DEF TypeOK, TriggerAlert, ResolveAlert, Silent
<1>3. shown' \in [Keys -> {"none", "triggered", "resolved"}]
  BY DEF TypeOK, TriggerAlert, ResolveAlert, Silent
<1>4. now \in 0..MaxTime
  BY DEF TypeOK
<1>5. fired' \in [Keys -> 0..MaxTime]
  BY <1>4 DEF TypeOK, TriggerAlert, ResolveAlert, Silent
<1>6. QED
  BY <1>2, <1>3, <1>5 DEF EventLogTyped

LEMMA SeenGoodTyped ==
  ASSUME TypeOK, NEW k \in Keys, SeenGood(k)
  PROVE  streak' \in [Keys -> 0..MaxTime] /\ lastBad' \in [Keys -> 0..MaxTime]
<1>1. 0 \in 0..MaxTime
  BY AlertConstants
<1>2. QED
  BY <1>1 DEF TypeOK, SeenGood

\* An evaluation keeps the clock, the server and the sample.
LEMMA FrameTyped ==
  ASSUME TypeOK, at # 0, UNCHANGED <<now, from, sample>>,
         at' \in 0..Len(Rules), states' \in [Keys -> StateType], EventLogTyped',
         streak' \in [Keys -> 0..MaxTime], lastBad' \in [Keys -> 0..MaxTime]
  PROVE  TypeOK'
<1>1. /\ now' \in 1..MaxTime
      /\ from' \in Servers
      /\ sample' \in [Metrics -> Values \cup {Absent}]
  BY DEF TypeOK
<1>2. QED
  BY <1>1 DEF TypeOK, EventLogTyped

-----------------------------------------------------------------------------
\* Type correctness.
THEOREM TypeCorrect == Spec => []TypeOK
<1>1. Init => TypeOK
  <2> SUFFICES ASSUME Init PROVE TypeOK
    OBVIOUS
  <2>1. now \in 1..MaxTime /\ 0 \in 0..MaxTime /\ 0 \in 0..Len(Rules)
    BY AlertConstants, RuleTyped DEF Init
  <2>2. history \in Seq(EventType)
    BY DEF Init
  <2>3. QED
    BY <2>1, <2>2 DEF Init, TypeOK, Clear, StateType
<1>2. ASSUME TypeOK, [Next]_vars PROVE TypeOK'
  <2>1. ASSUME NEW s \in Servers, NEW m \in [Metrics -> Values \cup {Absent}], Receive(s, m)
        PROVE  TypeOK'
    BY <1>2, <2>1, RuleTyped DEF TypeOK, Receive
  <2>2. CASE Skip
    BY <1>2, <2>2, NextRuleTyped, LoopKey DEF TypeOK, Skip
  <2>3. CASE Quiet
    <3> DEFINE k == Key(at, from)
    <3>1. at # 0 /\ at' \in 0..Len(Rules) /\ k \in Keys
      BY <1>2, <2>3, NextRuleTyped, LoopKey DEF Quiet
    <3>2. SeenGood(k) /\ Silent /\ UNCHANGED <<now, states, from, sample>>
      BY <2>3 DEF Quiet
    <3>3. /\ streak' \in [Keys -> 0..MaxTime] /\ lastBad' \in [Keys -> 0..MaxTime]
          /\ states' \in [Keys -> StateType]
      BY <1>2, <3>1, <3>2, SeenGoodTyped DEF TypeOK
    <3>4. EventLogTyped'
      BY <1>2, <3>1, <3>2, EmitTyped
    <3>5. QED
      BY <1>2, <3>1, <3>2, <3>3, <3>4, FrameTyped
  <2>4. CASE FirstBad \/ StillBad
    <3> DEFINE k == Key(at, from)
    <3>1. at # 0 /\ at' \in 0..Len(Rules) /\ k \in Keys
      BY <1>2, <2>4, NextRuleTyped, LoopKey DEF FirstBad, StillBad
    <3>2. now \in 0..MaxTime
      BY <1>2 DEF TypeOK
    <3>3. states' \in [Keys -> StateType]
      <4>1. states[k] \in StateType /\ states \in [Keys -> StateType]
        BY <1>2, <3>1 DEF TypeOK
      <4>2. \/ UNCHANGED states
            \/ states' = [states EXCEPT ![k].triggered = TRUE, ![k].since = now]
            \/ states' = [states EXCEPT ![k].alerted = TRUE, ![k].notified = now]
            \/ states' = [states EXCEPT ![k].triggered = TRUE, ![k].since = now,
                                        ![k].alerted = TRUE, ![k].notified = now]
        BY <2>4 DEF FirstBad, StillBad
      <4>3. \A st \in StateType :
              /\ [st EXCEPT !.triggered = TRUE, !.since = now] \in StateType
              /\ [st EXCEPT !.alerted = TRUE, !.notified = now] \in StateType
              /\ [st EXCEPT !.triggered = TRUE, !.since = now, !.alerted = TRUE, !.notified = now] \in StateType
        BY <3>2 DEF StateType
      <4> HIDE DEF k
      <4>4. CASE UNCHANGED states
        BY <4>1, <4>4
      <4>5. CASE states' = [states EXCEPT ![k].triggered = TRUE, ![k].since = now]
        BY <4>1, <4>3, <4>5
      <4>6. CASE states' = [states EXCEPT ![k].alerted = TRUE, ![k].notified = now]
        BY <4>1, <4>3, <4>6
      <4>7. CASE states' = [states EXCEPT ![k].triggered = TRUE, ![k].since = now,
                                          ![k].alerted = TRUE, ![k].notified = now]
        BY <4>1, <4>3, <4>7
      <4>8. QED
        BY <4>2, <4>4, <4>5, <4>6, <4>7
    <3>4. (TriggerAlert(k) \/ Silent) /\ SeenBad(k) /\ UNCHANGED <<now, from, sample>>
      BY <2>4 DEF FirstBad, StillBad
    <3>5. EventLogTyped'
      BY <1>2, <3>1, <3>4, EmitTyped
    <3>6. streak' \in [Keys -> 0..MaxTime] /\ lastBad' \in [Keys -> 0..MaxTime]
      BY <1>2, <3>1, <3>2, <3>4 DEF TypeOK, SeenBad
    <3>7. QED
      BY <1>2, <3>1, <3>3, <3>4, <3>5, <3>6, FrameTyped
  <2>5. CASE Resolve
    <3> DEFINE k == Key(at, from)
    <3>1. at # 0 /\ at' \in 0..Len(Rules) /\ k \in Keys
      BY <1>2, <2>5, NextRuleTyped, LoopKey DEF Resolve
    <3>2. /\ ResolveAlert(k) /\ SeenGood(k) /\ UNCHANGED <<now, from, sample>>
          /\ states' = [states EXCEPT ![k] = Clear]
      BY <2>5 DEF Resolve
    <3>3. EventLogTyped'
      BY <1>2, <3>1, <3>2, EmitTyped
    <3>4. Clear \in StateType
      BY AlertConstants DEF Clear, StateType
    <3>5. states' \in [Keys -> StateType]
      BY <1>2, <3>2, <3>4 DEF TypeOK
    <3>6. streak' \in [Keys -> 0..MaxTime] /\ lastBad' \in [Keys -> 0..MaxTime]
      BY <1>2, <3>1, <3>2, SeenGoodTyped
    <3>7. QED
      BY <1>2, <3>1, <3>2, <3>3, <3>5, <3>6, FrameTyped
  <2>6. CASE Tick
    BY <1>2, <2>6, AlertConstants DEF TypeOK, Tick
  <2>7. CASE UNCHANGED vars
    BY <1>2, <2>7 DEF TypeOK, vars
  <2>8. QED
    BY <1>2, <2>1, <2>2, <2>3, <2>4, <2>5, <2>6, <2>7 DEF Next
<1>3. QED
  BY <1>1, <1>2, PTL DEF Spec

-----------------------------------------------------------------------------
(* The strengthening.  AlertedIffSustained speaks of the samples; the code   *)
(* decides from the state it kept, so the invariant says what that state     *)
(* remembers of the samples.  That a key that has not alerted has never been *)
(* notified is what takes the cooldown out of every decision.                *)

KeyInv(k) ==
  /\ states[k].triggered <=> streak[k] # 0
  /\ states[k].triggered => states[k].since = streak[k] /\ streak[k] <= lastBad[k]
  /\ lastBad[k] <= now
  /\ states[k].alerted => states[k].triggered
  /\ ~states[k].alerted => states[k].notified = 0
  /\ shown[k] = "triggered" <=> states[k].alerted
  /\ states[k].alerted <=> /\ streak[k] # 0
                           /\ lastBad[k] - streak[k] >= Rules[k[1]].duration

EngineInv == \A k \in Keys : KeyInv(k)

\* An evaluation leaves every key but its own alone.
KeepsOthers(k) ==
  \A j \in Keys \ {k} :
    /\ states'[j] = states[j] /\ shown'[j] = shown[j]
    /\ streak'[j] = streak[j] /\ lastBad'[j] = lastBad[j]

LEMMA OneKey ==
  ASSUME EngineInv, NEW k \in Keys, now' = now, KeepsOthers(k), KeyInv(k)'
  PROVE  EngineInv'
<1>1. ASSUME NEW j \in Keys, j # k PROVE KeyInv(j)'
  BY <1>1 DEF EngineInv, KeyInv, KeepsOthers
<1>2. QED
  BY <1>1 DEF EngineInv

\* What the rules' turns do to the key of the turn.
LEMMA GoodKeepsOthers ==
  ASSUME TypeOK, NEW k \in Keys, SeenGood(k),
         states' = states \/ states' = [states EXCEPT ![k] = Clear],
         Silent \/ ResolveAlert(k)
  PROVE  KeepsOthers(k) /\ streak'[k] = 0 /\ lastBad'[k] = 0
BY DEF TypeOK, SeenGood, Silent, ResolveAlert, KeepsOthers

LEMMA BadKeepsOthers ==
  ASSUME TypeOK, NEW k \in Keys, SeenBad(k), Silent \/ TriggerAlert(k)
  PROVE  /\ \A j \in Keys \ {k} : /\ shown'[j] = shown[j] /\ streak'[j] = streak[j]
                                  /\ lastBad'[j] = lastBad[j]
         /\ streak'[k] = (IF streak[k] = 0 THEN now ELSE streak[k])
         /\ lastBad'[k] = now
BY DEF TypeOK, SeenBad, Silent, TriggerAlert

LEMMA EngineInvInit == Init => EngineInv
<1> SUFFICES ASSUME Init, NEW k \in Keys PROVE KeyInv(k)
  BY DEF EngineInv
<1>1. QED
  BY DEF Init, KeyInv, Clear

LEMMA EngineInvStep == TypeOK /\ EngineInv /\ [Next]_vars => EngineInv'
<1> SUFFICES ASSUME TypeOK, EngineInv, [Next]_vars PROVE EngineInv'
  OBVIOUS
<1>1. CASE Quiet
  <2>1. PICK k \in Keys : k = Key(at, from)
    BY <1>1, LoopKey DEF Quiet
  <2>2. /\ ~states[k].triggered /\ SeenGood(k) /\ Silent
        /\ now' = now /\ states' = states /\ shown' = shown
    BY <1>1, <2>1 DEF Quiet, Silent
  <2>3. KeyInv(k)
    BY <2>1 DEF EngineInv
  <2>4. KeepsOthers(k) /\ streak'[k] = 0 /\ lastBad'[k] = 0
    BY <2>1, <2>2, GoodKeepsOthers
  <2>5. KeyInv(k)'
    BY <2>2, <2>3, <2>4 DEF KeyInv, TypeOK
  <2>6. QED
    BY <2>1, <2>2, <2>4, <2>5, OneKey
<1>2. CASE FirstBad
  <2>1. PICK k \in Keys : k = Key(at, from) /\ k[1] = at /\ Rules[at].duration \in Nat
    BY <1>2, LoopKey DEF FirstBad, Key, RuleType
  <2> DEFINE fire == Rules[at].duration = 0 /\ CooldownExpired(states[k], Rules[at])
  <2>2. /\ ~states[k].triggered /\ SeenBad(k) /\ now' = now
        /\ \/ /\ fire
              /\ states' = [states EXCEPT ![k].triggered = TRUE, ![k].since = now,
                                          ![k].alerted = TRUE, ![k].notified = now]
              /\ TriggerAlert(k)
           \/ /\ ~fire
              /\ states' = [states EXCEPT ![k].triggered = TRUE, ![k].since = now]
              /\ Silent
    BY <1>2, <2>1 DEF FirstBad
  <2>3. KeyInv(k)
    BY <2>1 DEF EngineInv
  <2>4. fire <=> Rules[k[1]].duration = 0
    BY <2>1, <2>2, <2>3 DEF KeyInv, CooldownExpired
  <2> HIDE DEF fire
  <2>5. /\ KeepsOthers(k)
        /\ streak'[k] = now /\ lastBad'[k] = now
    BY <2>1, <2>2, <2>3, BadKeepsOthers DEF KeepsOthers, KeyInv, TypeOK
  <2>6. /\ states'[k].triggered /\ states'[k].since = now
        /\ states'[k].alerted <=> fire
        /\ ~fire => states'[k].notified = 0
        /\ shown'[k] = "triggered" <=> fire
    <3>1. states \in [Keys -> StateType] /\ shown \in [Keys -> {"none", "triggered", "resolved"}]
      BY DEF TypeOK
    <3>2. ~states[k].alerted /\ states[k].notified = 0 /\ shown[k] # "triggered"
      BY <2>2, <2>3 DEF KeyInv
    <3>3. CASE fire
      BY <2>1, <2>2, <3>1, <3>3 DEF StateType, TriggerAlert
    <3>4. CASE ~fire
      BY <2>1, <2>2, <3>1, <3>2, <3>4 DEF StateType, Silent
    <3>5. QED
      BY <3>3, <3>4
  <2>7. KeyInv(k)'
    BY <2>1, <2>2, <2>4, <2>5, <2>6 DEF KeyInv, TypeOK
  <2>8. QED
    BY <2>1, <2>2, <2>5, <2>7, OneKey
<1>3. CASE StillBad
  <2>1. PICK k \in Keys : k = Key(at, from) /\ k[1] = at /\ Rules[at].duration \in Nat
    BY <1>3, LoopKey DEF StillBad, Key, RuleType
  <2> DEFINE fire == /\ ~states[k].alerted
                     /\ now - states[k].since >= Rules[at].duration
                     /\ CooldownExpired(states[k], Rules[at])
  <2>2. /\ states[k].triggered /\ SeenBad(k) /\ now' = now
        /\ \/ /\ fire
              /\ states' = [states EXCEPT ![k].alerted = TRUE, ![k].notified = now]
              /\ TriggerAlert(k)
           \/ /\ ~fire
              /\ states' = states
              /\ Silent
    BY <1>3, <2>1 DEF StillBad
  <2>3. KeyInv(k)
    BY <2>1 DEF EngineInv
  <2>4. fire <=> /\ ~states[k].alerted
                 /\ now - streak[k] >= Rules[k[1]].duration
    BY <2>1, <2>2, <2>3 DEF KeyInv, CooldownExpired
  <2> HIDE DEF fire
  <2>5. /\ KeepsOthers(k)
        /\ streak'[k] = streak[k] /\ lastBad'[k] = now
    BY <2>1, <2>2, <2>3, BadKeepsOthers DEF KeepsOthers, KeyInv, TypeOK
  <2>6. /\ states'[k].triggered /\ states'[k].since = states[k].since
        /\ states'[k].alerted <=> (fire \/ states[k].alerted)
        /\ ~fire => states'[k].notified = states[k].notified
        /\ shown'[k] = "triggered" <=> (fire \/ shown[k] = "triggered")
    <3>1. states \in [Keys -> StateType] /\ shown \in [Keys -> {"none", "triggered", "resolved"}]
      BY DEF TypeOK
    <3>2. CASE fire
      BY <2>1, <2>2, <3>1, <3>2 DEF StateType, TriggerAlert
    <3>3. CASE ~fire
      BY <2>1, <2>2, <3>3 DEF Silent
    <3>4. QED
      BY <3>2, <3>3
  <2>7. KeyInv(k)'
    BY <2>1, <2>2, <2>3, <2>4, <2>5, <2>6 DEF KeyInv, TypeOK
  <2>8. QED
    BY <2>1, <2>2, <2>5, <2>7, OneKey
<1>4. CASE Resolve
  <2>1. PICK k \in Keys : k = Key(at, from)
    BY <1>4, LoopKey DEF Resolve
  <2>2. /\ SeenGood(k) /\ ResolveAlert(k) /\ now' = now
        /\ states' = [states EXCEPT ![k] = Clear]
    BY <1>4, <2>1 DEF Resolve
  <2>3. KeepsOthers(k) /\ streak'[k] = 0 /\ lastBad'[k] = 0
    BY <2>1, <2>2, GoodKeepsOthers
  <2>4. states'[k] = Clear /\ shown'[k] = "resolved"
    BY <2>1, <2>2 DEF ResolveAlert, TypeOK
  <2>5. KeyInv(k)'
    BY <2>2, <2>3, <2>4 DEF KeyInv, Clear, TypeOK
  <2>6. QED
    BY <2>1, <2>2, <2>3, <2>5, OneKey
<1>5. CASE Tick
  <2>1. now' = now + 1 /\ UNCHANGED <<states, shown, streak, lastBad>>
    BY <1>5 DEF Tick
  <2>2. ASSUME NEW k \in Keys PROVE KeyInv(k)'
    BY <2>1, <2>2 DEF EngineInv, KeyInv, TypeOK
  <2>3. QED
    BY <2>2 DEF EngineInv
<1>6. CASE (\E s \in Servers, m \in [Metrics -> Values \cup {Absent}] : Receive(s, m))
           \/ Skip \/ UNCHANGED vars
  <2>1. UNCHANGED <<now, states, shown, streak, lastBad>>
    BY <1>6 DEF Receive, Skip, vars
  <2>2. QED
    BY <2>1 DEF EngineInv, KeyInv
<1>7. QED
  BY <1>1, <1>2, <1>3, <1>4, <1>5, <1>6 DEF Next

\* The two invariants of the engine: it alerts on exactly the sustained
\* conditions, and what GetActiveAlerts returns is what was broadcast.
THEOREM EngineCorrect == Spec => [](AlertedIffSustained /\ ActiveMatchesEvents)
<1>1. TypeOK /\ EngineInv => AlertedIffSustained /\ ActiveMatchesEvents
  BY DEF EngineInv, KeyInv, AlertedIffSustained, ActiveMatchesEvents, Active
<1>2. QED
  BY <1>1, TypeCorrect, EngineInvInit, EngineInvStep, PTL DEF Spec

\* What GetActiveAlerts answers is what the browsers were told, event by event
\* (triggerAlert, resolveAlert, GetActiveAlerts).
THEOREM ActiveIsBroadcast == Spec => []ActiveMatchesEvents
  BY EngineCorrect, PTL

\* One server's messages never touch another server's alerts.
THEOREM Independence == Spec => ServersIndependent
<1> DEFINE Kept == \A k \in Keys :
             (states[k] # states'[k] \/ shown[k] # shown'[k]) => k[2] = from
<1>1. ASSUME TypeOK, [Next]_vars PROVE [Kept]_vars
  <2>1. CASE Quiet \/ Resolve
    <3>1. at # 0
      BY <2>1 DEF Quiet, Resolve
    <3>2. KeepsOthers(Key(at, from))
      BY <1>1, <2>1, <3>1, LoopKey, GoodKeepsOthers DEF Quiet, Resolve
    <3>3. QED
      BY <3>2 DEF KeepsOthers, Key
  <2>2. CASE FirstBad \/ StillBad
    <3> DEFINE k == Key(at, from)
    <3>1. k \in Keys /\ k[2] = from
      BY <1>1, <2>2, LoopKey DEF FirstBad, StillBad, Key
    <3>2. SeenBad(k) /\ (Silent \/ TriggerAlert(k))
      BY <2>2 DEF FirstBad, StillBad
    <3>3. \A j \in Keys \ {k} : states'[j] = states[j]
      BY <1>1, <2>2 DEF FirstBad, StillBad, TypeOK
    <3> HIDE DEF k
    <3>4. \A j \in Keys \ {k} : shown'[j] = shown[j]
      BY <1>1, <3>1, <3>2, BadKeepsOthers
    <3>5. QED
      BY <3>1, <3>3, <3>4
  <2>3. CASE (\E s \in Servers, m \in [Metrics -> Values \cup {Absent}] : Receive(s, m))
             \/ Skip \/ Tick \/ UNCHANGED vars
    BY <2>3 DEF Receive, Skip, Tick, vars
  <2>4. QED
    BY <1>1, <2>1, <2>2, <2>3 DEF Next
<1>2. QED
  BY <1>1, TypeCorrect, PTL DEF Spec, ServersIndependent

\* The history is never short of a recent event.
THEOREM HistoryKept == Spec => HistoryKeepsRecent
<1> DEFINE Grown ==
      \/ history' = history
      \/ \E e \in EventType :
           \/ history' = Append(history, e)
           \/ history' = Tail(Append(history, e)) /\ Len(history') >= HistoryCap
<1>1. ASSUME TypeOK, [Next]_vars PROVE [Grown]_vars
  <2>1. ASSUME NEW k \in Keys, TriggerAlert(k) \/ ResolveAlert(k) PROVE Grown
    <3>1. Event(k, "triggered") \in EventType /\ Event(k, "resolved") \in EventType
      BY DEF Event, EventType
    <3>2. CASE ResolveAlert(k)
      BY <3>1, <3>2 DEF ResolveAlert
    <3>3. CASE TriggerAlert(k)
      <4> DEFINE e == Event(k, "triggered")
                 h == Append(history, e)
      <4>1. history' = Trimmed(h) /\ e \in EventType
        BY <3>1, <3>3 DEF TriggerAlert
      <4>0. history \in Seq(EventType)
        BY <1>1 DEF TypeOK
      <4> HIDE DEF e
      <4>2. h \in Seq(EventType) /\ h # <<>>
        BY <4>1, <4>0, AppendProperties
      <4>3. Len(h) \in Nat /\ Len(Tail(h)) = Len(h) - 1
        BY <4>2, HeadTailProperties, LenProperties
      <4>4. history' = h \/ (history' = Tail(h) /\ Len(history') >= HistoryCap)
        BY <4>1, <4>3, AlertConstants DEF Trimmed
      <4>5. QED
        BY <4>1, <4>4
    <3>4. QED
      BY <2>1, <3>2, <3>3
  <2>2. CASE FirstBad \/ StillBad \/ Resolve
    <3>1. Key(at, from) \in Keys
      BY <1>1, <2>2, LoopKey DEF FirstBad, StillBad, Resolve
    <3>2. \/ TriggerAlert(Key(at, from)) \/ ResolveAlert(Key(at, from))
          \/ history' = history
      BY <2>2 DEF FirstBad, StillBad, Resolve, Silent
    <3>3. QED
      BY <2>1, <3>1, <3>2
  <2>3. CASE \/ \E s \in Servers, m \in [Metrics -> Values \cup {Absent}] : Receive(s, m)
             \/ Skip \/ Quiet \/ Tick \/ UNCHANGED vars
    BY <2>3 DEF Receive, Skip, Quiet, Silent, Tick, vars
  <2>4. QED
    BY <1>1, <2>2, <2>3 DEF Next
<1>2. QED
  BY <1>1, TypeCorrect, PTL DEF Spec, HistoryKeepsRecent
=============================================================================

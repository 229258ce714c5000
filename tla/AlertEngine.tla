----------------------------- MODULE AlertEngine -----------------------------
(***************************************************************************)
(* The threshold engine of alerts/alerts.go.  CheckMetricsForServer runs   *)
(* under e.mu for one metrics message of one server and walks the rules in *)
(* their configured order; an action here is one turn of that loop, and    *)
(* `at` holds the mutex from the first rule to the last.  Rules are the    *)
(* enabled ones of an enabled engine (the other ones are skipped).         *)
(*                                                                         *)
(* Time is a clock of ticks that starts at 1, so that 0 is time.Time{}.    *)
(* A state whose Triggered is false and a missing map entry behave alike   *)
(* and are one value here.                                                 *)
(***************************************************************************)
EXTENDS Integers, Sequences

CONSTANTS
  Rules,            \* config.Rules: records [metric, cond, threshold, duration, cooldown, servers]
  Servers,          \* server IDs that report metrics
  Metrics,          \* metric paths
  Values,           \* numeric values a metric may take
  Absent,           \* path missing from the payload, or not a number
  NoServer,         \* e.mu is free
  DefaultCooldown,  \* 60 s
  HistoryCap,       \* 100
  MaxTime,          \* bound: last tick of the clock
  MaxHistory        \* bound: no new message once the history is this long

ASSUME AlertConstants ==
  /\ Rules \in Seq([metric : Metrics, cond : {">", "<", ">=", "<=", "==", "!="},
                    threshold : Int, duration : Nat, cooldown : Int,
                    servers : SUBSET Servers])
  /\ Rules # <<>>
  /\ Values \subseteq Int
  /\ Absent \notin Int
  /\ NoServer \notin Servers
  /\ DefaultCooldown \in Nat
  /\ HistoryCap \in Nat \ {0}
  /\ MaxTime \in Nat \ {0}
  /\ MaxHistory \in Nat

RuleIds == 1..Len(Rules)

\* State is kept per rule and server: rule.ID + "@" + serverID.
Keys == RuleIds \X Servers

VARIABLES
  now,      \* the clock
  states,   \* alertStates
  history,  \* alertHistory
  at,       \* loop position: the rule to evaluate next, 0 when e.mu is free
  from,     \* the server whose message is evaluated
  sample,   \* its metrics
  shown,    \* history variable: the last ALERT_* event broadcast for a key
  streak,   \* history variable: when the unbroken run of bad samples began, or 0
  lastBad,  \* history variable: time of the last bad sample of that run, or 0
  fired     \* history variable: when the key last triggered, or 0

vars == <<now, states, history, at, from, sample, shown, streak, lastBad, fired>>

StateType ==
  [triggered : BOOLEAN, since : 0..MaxTime, alerted : BOOLEAN, notified : 0..MaxTime]

EventType == [key : Keys, status : {"triggered", "resolved"}]

Clear == [triggered |-> FALSE, since |-> 0, alerted |-> FALSE, notified |-> 0]

Event(k, status) == [key |-> k, status |-> status]

Init ==
  /\ now = 1
  /\ states = [k \in Keys |-> Clear]
  /\ history = <<>>
  /\ at = 0
  /\ from = NoServer
  /\ sample = [m \in Metrics |-> Absent]
  /\ shown = [k \in Keys |-> "none"]
  /\ streak = [k \in Keys |-> 0]
  /\ lastBad = [k \in Keys |-> 0]
  /\ fired = [k \in Keys |-> 0]

-----------------------------------------------------------------------------
\* evaluateCondition: an unknown condition never triggers.
Triggers(value, rule) ==
  CASE rule.cond = ">"  -> value > rule.threshold
    [] rule.cond = "<"  -> value < rule.threshold
    [] rule.cond = ">=" -> value >= rule.threshold
    [] rule.cond = "<=" -> value <= rule.threshold
    [] rule.cond = "==" -> value = rule.threshold
    [] rule.cond = "!=" -> value # rule.threshold
    [] OTHER -> FALSE

\* cooldownExpired.
CooldownExpired(state, rule) ==
  \/ rule.cooldown < 0
  \/ state.notified = 0
  \/ now - state.notified >= IF rule.cooldown > 0 THEN rule.cooldown ELSE DefaultCooldown

\* Mutant: one state per rule, shared by every server.
KeyByRule(i, s) == <<i, CHOOSE x \in Servers : TRUE>>

\* The map entry that rule i and server s share.
Key(i, s) == <<i, s>>

\* getMetricValue and toFloat: what the payload holds under the rule's path.
Measured(i) == sample[Rules[i].metric]

\* The loop's filters: allow-list, a value under the metric's path, a number.
Applies(i) ==
  /\ Rules[i].servers = {} \/ from \in Rules[i].servers
  /\ Measured(i) # Absent

Bad(i) == Triggers(Measured(i), Rules[i])

\* Mutant: the loop runs one past the last rule.
NextRuleNoEnd == at' = at + 1

NextRule == at' = IF at = Len(Rules) THEN 0 ELSE at + 1

\* Mutant: the oldest entry is dropped when the cap is reached, not passed.
TrimmedEarly(h) == IF Len(h) >= HistoryCap THEN Tail(h) ELSE h

\* triggerAlert: append, drop the oldest entry beyond the cap, broadcast.
Trimmed(h) == IF Len(h) > HistoryCap THEN Tail(h) ELSE h

TriggerAlert(k) ==
  /\ history' = Trimmed(Append(history, Event(k, "triggered")))
  /\ shown' = [shown EXCEPT ![k] = "triggered"]
  /\ fired' = [fired EXCEPT ![k] = now]

\* resolveAlert: append and broadcast.
ResolveAlert(k) ==
  /\ history' = Append(history, Event(k, "resolved"))
  /\ shown' = [shown EXCEPT ![k] = "resolved"]
  /\ UNCHANGED fired

Silent == UNCHANGED <<history, shown, fired>>

\* Bookkeeping of the history variables: what the samples themselves say.
SeenBad(k) ==
  /\ streak' = [streak EXCEPT ![k] = IF @ = 0 THEN now ELSE @]
  /\ lastBad' = [lastBad EXCEPT ![k] = now]

SeenGood(k) ==
  /\ streak' = [streak EXCEPT ![k] = 0]
  /\ lastBad' = [lastBad EXCEPT ![k] = 0]

-----------------------------------------------------------------------------
\* A metrics message of server s arrives and e.mu is taken.
Receive(s, m) ==
  /\ at = 0
  /\ Len(history) < MaxHistory
  /\ at' = 1
  /\ from' = s
  /\ sample' = m
  /\ UNCHANGED <<now, states, history, shown, streak, lastBad, fired>>

\* The rule does not apply to this server or this message.
Skip ==
  /\ at # 0
  /\ ~Applies(at)
  /\ NextRule
  /\ UNCHANGED <<now, states, history, from, sample, shown, streak, lastBad, fired>>

\* The value is good and nothing was triggered.
Quiet ==
  /\ at # 0
  /\ Applies(at) /\ ~Bad(at)
  /\ LET k == Key(at, from) IN
       /\ ~states[k].triggered
       /\ SeenGood(k)
  /\ Silent
  /\ NextRule
  /\ UNCHANGED <<now, states, from, sample>>

\* Mutant: an instant alert does not set Alerted.
FirstBadNotAlerted ==
  /\ at # 0
  /\ Applies(at) /\ Bad(at)
  /\ LET k == Key(at, from) IN
       /\ ~states[k].triggered
       /\ states' = [states EXCEPT ![k].triggered = TRUE, ![k].since = now]
       /\ IF Rules[at].duration = 0 /\ CooldownExpired(states[k], Rules[at])
          THEN TriggerAlert(k)
          ELSE Silent
       /\ SeenBad(k)
  /\ NextRule
  /\ UNCHANGED <<now, from, sample>>

\* The first bad value: a rule without a duration alerts at once.
FirstBad ==
  /\ at # 0
  /\ Applies(at) /\ Bad(at)
  /\ LET k == Key(at, from)
         fire == Rules[at].duration = 0 /\ CooldownExpired(states[k], Rules[at])
     IN  /\ ~states[k].triggered
         /\ IF fire
            THEN /\ states' = [states EXCEPT ![k].triggered = TRUE, ![k].since = now,
                                             ![k].alerted = TRUE, ![k].notified = now]
                 /\ TriggerAlert(k)
            ELSE /\ states' = [states EXCEPT ![k].triggered = TRUE, ![k].since = now]
                 /\ Silent
         /\ SeenBad(k)
  /\ NextRule
  /\ UNCHANGED <<now, from, sample>>

\* Still bad: alert once, when the duration has passed.
StillBad ==
  /\ at # 0
  /\ Applies(at) /\ Bad(at)
  /\ LET k == Key(at, from)
         fire == /\ ~states[k].alerted
                 /\ now - states[k].since >= Rules[at].duration
                 /\ CooldownExpired(states[k], Rules[at])
     IN  /\ states[k].triggered
         /\ IF fire
            THEN /\ states' = [states EXCEPT ![k].alerted = TRUE, ![k].notified = now]
                 /\ TriggerAlert(k)
            ELSE UNCHANGED states /\ Silent
         /\ SeenBad(k)
  /\ NextRule
  /\ UNCHANGED <<now, from, sample>>

\* Mutant: the state survives with its LastNotified.
ResolveKeepsNotified ==
  /\ at # 0
  /\ Applies(at) /\ ~Bad(at)
  /\ LET k == Key(at, from) IN
       /\ states[k].triggered
       /\ ResolveAlert(k)
       /\ states' = [states EXCEPT ![k] = [Clear EXCEPT !.notified = states[k].notified]]
       /\ SeenGood(k)
  /\ NextRule
  /\ UNCHANGED <<now, from, sample>>

\* Good again: the event goes out whether or not the rule had alerted, and the
\* state is deleted.
Resolve ==
  /\ at # 0
  /\ Applies(at) /\ ~Bad(at)
  /\ LET k == Key(at, from) IN
       /\ states[k].triggered
       /\ ResolveAlert(k)
       /\ states' = [states EXCEPT ![k] = Clear]
       /\ SeenGood(k)
  /\ NextRule
  /\ UNCHANGED <<now, from, sample>>

\* Time passes between messages; a whole evaluation uses the `now` it began with.
Tick ==
  /\ at = 0
  /\ now < MaxTime
  /\ now' = now + 1
  /\ UNCHANGED <<states, history, at, from, sample, shown, streak, lastBad, fired>>

Next ==
  \/ \E s \in Servers, m \in [Metrics -> Values \cup {Absent}] : Receive(s, m)
  \/ Skip \/ Quiet \/ FirstBad \/ StillBad \/ Resolve
  \/ Tick

Spec == Init /\ [][Next]_vars

-----------------------------------------------------------------------------
(* Properties. *)

\* GetActiveAlerts.
Active == {k \in Keys : states[k].triggered /\ states[k].alerted}

\* Type invariant: the engine's state, its loop and the history variables.
TypeOK ==
  /\ now \in 1..MaxTime
  /\ states \in [Keys -> StateType]
  /\ history \in Seq(EventType)
  /\ at \in 0..Len(Rules)
  /\ from \in Servers \cup {NoServer}
  /\ at # 0 => from \in Servers
  /\ sample \in [Metrics -> Values \cup {Absent}]
  /\ shown \in [Keys -> {"none", "triggered", "resolved"}]
  /\ streak \in [Keys -> 0..MaxTime]
  /\ lastBad \in [Keys -> 0..MaxTime]
  /\ fired \in [Keys -> 0..MaxTime]

\* The alerts a client polls are the ones it was told about: a key is in
\* GetActiveAlerts exactly when the last event broadcast for it is
\* ALERT_TRIGGERED: none is forgotten without a resolve, and none is listed
\* that no event announced (alerts.go, the loop body).
ActiveMatchesEvents == Active = {k \in Keys : shown[k] = "triggered"}

\* The engine alerts on exactly the sustained conditions: a key has alerted if
\* and only if the unbroken run of bad samples has lasted the rule's duration,
\* at the last sample seen.  Neither the cooldown, nor a message that lacks the
\* metric, nor another rule or server on the way changes that.
AlertedIffSustained ==
  \A k \in Keys :
    states[k].alerted <=> /\ streak[k] # 0
                          /\ lastBad[k] - streak[k] >= Rules[k[1]].duration

\* "A CPU spike on server A doesn't suppress an alert from server B"
\* (alerts.go:83): evaluating one server's message touches no other's state and
\* raises no event for it.
ServersIndependent ==
  [][\A k \in Keys : (states[k] # states'[k] \/ shown[k] # shown'[k]) => k[2] = from]_vars

\* The history never loses a recent entry: a step keeps it, adds one event at
\* the end, or does so and drops the oldest, and it drops one only when the cap
\* is passed (alerts.go triggerAlert).
HistoryKeepsRecent ==
  [][\/ history' = history
     \/ \E e \in EventType :
          \/ history' = Append(history, e)
          \/ history' = Tail(Append(history, e)) /\ Len(history') >= HistoryCap]_vars

\* What config.go:65 promises: a rule's CooldownMs, when it is set, "is the
\* minimum gap between two triggers of this rule".
Gap(rule) == IF rule.cooldown > 0 THEN rule.cooldown ELSE 0

CooldownHonoured ==
  [][\A k \in Keys : fired[k] # 0 /\ fired'[k] # fired[k]
        => fired'[k] - fired[k] >= Gap(Rules[k[1]])]_vars
=============================================================================

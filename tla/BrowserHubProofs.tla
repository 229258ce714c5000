-------------------------- MODULE BrowserHubProofs --------------------------
(***************************************************************************)
(* Proofs about BrowserHub, for every set of clients and every capacity.   *)
(***************************************************************************)
EXTENDS BrowserHub, SequenceTheorems, TLAPS

Messages == 0..MaxMessages

\* The hub's own state, and the state of the clients.
HubTyped ==
  /\ clients \subseteq Clients
  /\ broadcast \in Seq(1..MaxMessages) /\ Len(broadcast) <= BroadcastCap
  /\ published \in 0..MaxMessages
  /\ relayed \in Seq(1..MaxMessages)
  /\ Len(relayed) + Len(broadcast) <= published
  /\ since \in [Clients -> 0..MaxMessages]
  /\ closed \subseteq Clients
  /\ crash \in {"no", "send", "close"}

PumpTyped ==
  /\ conn \in [Clients -> {"none", "open", "closed"}]
  /\ reading \in [Clients -> {"none", "registering", "reading", "unregistering", "done"}]
  /\ writing \in [Clients -> {"none", "waiting", "writing", "done"}]

QueueTyped ==
  /\ send \in [Clients -> Seq(Messages)]
  /\ held \in [Clients -> Seq(Messages)]
  /\ got \in [Clients -> Seq(Messages)]

\* Registered or not, a client whose read pump runs has a write pump that was
\* started; the channel of one that is in is open.
PumpInv ==
  /\ clients \cap closed = {}
  /\ \A c \in Clients : (c \in clients \/ c \in closed) <=> writing[c] # "none"
  /\ \A c \in Clients : reading[c] \in {"none", "registering"} <=> writing[c] = "none"
  /\ crash # "close"

Inv == HubTyped /\ PumpTyped /\ QueueTyped /\ PumpInv

LEMMA InvInit == Init => Inv
<1>1. ASSUME Init PROVE HubTyped /\ PumpTyped /\ PumpInv
  BY <1>1, HubConstants DEF Init, HubTyped, PumpTyped, PumpInv
<1>2. ASSUME Init PROVE QueueTyped
  BY <1>2 DEF Init, QueueTyped
<1>3. QED
  BY <1>1, <1>2 DEF Inv

LEMMA BroadcastKeeps == Inv /\ BroadcastFor => Inv'
<1> SUFFICES ASSUME Inv, BroadcastFor PROVE Inv'
  OBVIOUS
<1> USE DEF Inv
<1>1. published + 1 \in 1..MaxMessages /\ broadcast \in Seq(1..MaxMessages)
  BY HubConstants DEF BroadcastFor, HubTyped
<1>2. /\ Append(broadcast, published + 1) \in Seq(1..MaxMessages)
      /\ Len(Append(broadcast, published + 1)) = Len(broadcast) + 1
  BY <1>1, AppendProperties
<1>3. Len(broadcast) \in Nat /\ BroadcastCap \in Nat
  BY <1>1, HubConstants, LenProperties
<1>4. Len(relayed) \in Nat
  BY LenProperties DEF HubTyped
<1>5. HubTyped'
  <2>1. /\ broadcast' \in Seq(1..MaxMessages) /\ Len(broadcast') <= BroadcastCap
        /\ Len(broadcast') <= Len(broadcast) + 1
    <3>1. CASE Len(broadcast) < BroadcastCap
      BY <1>2, <1>3, <3>1 DEF BroadcastFor
    <3>2. CASE ~ (Len(broadcast) < BroadcastCap)
      BY <1>1, <1>3, <3>2 DEF BroadcastFor, HubTyped
    <3>3. QED
      BY <3>1, <3>2
  <2>2. published' = published + 1 /\ published \in Nat /\ Len(broadcast') \in Nat
    BY <2>1, LenProperties, HubConstants DEF BroadcastFor, HubTyped
  <2>3. Len(relayed) + Len(broadcast') <= published'
    BY <1>3, <1>4, <2>1, <2>2 DEF HubTyped
  <2>4. UNCHANGED <<clients, relayed, since, closed, crash>>
    BY DEF BroadcastFor
  <2>5. QED
    BY <1>1, <2>1, <2>2, <2>3, <2>4 DEF HubTyped
<1>6. QED
  BY <1>5 DEF BroadcastFor, PumpTyped, QueueTyped, PumpInv

LEMMA RelayKeeps == Inv /\ Relay => Inv'
<1> SUFFICES ASSUME Inv, Relay PROVE Inv'
  OBVIOUS
<1> USE DEF Inv
<1>1. broadcast \in Seq(1..MaxMessages) /\ broadcast # <<>> /\ relayed \in Seq(1..MaxMessages)
  BY DEF Relay, HubTyped
<1>2. /\ Head(broadcast) \in 1..MaxMessages
      /\ Tail(broadcast) \in Seq(1..MaxMessages)
      /\ Len(Tail(broadcast)) = Len(broadcast) - 1
  BY <1>1, HeadTailProperties
<1>3. relayed' \in Seq(1..MaxMessages) /\ Len(relayed') = Len(relayed) + 1
  BY <1>1, <1>2, AppendProperties DEF Relay
<1>4. Len(broadcast) \in Nat /\ BroadcastCap \in Nat /\ Len(relayed) \in Nat
  BY <1>1, HubConstants, LenProperties
<1>5. DEFINE slow == {c \in clients : Full(c)}
<1>6. /\ clients' = clients \ slow /\ closed' = closed \cup slow /\ crash' = crash
      /\ slow \subseteq clients /\ UNCHANGED <<conn, reading, writing, held, got, published, since>>
  BY DEF Relay, PumpInv
<1>7. HubTyped'
  <2> HIDE DEF slow
  <2>1. broadcast' = Tail(broadcast)
    BY DEF Relay
  <2>2. QED
    BY <1>2, <1>3, <1>4, <1>6, <2>1 DEF HubTyped
<1>8. QueueTyped'
  <2>1. \A c \in Clients : send[c] \in Seq(Messages) /\ Append(send[c], Head(broadcast)) \in Seq(Messages)
    <3>1. Head(broadcast) \in Messages
      BY <1>2, HubConstants DEF Messages
    <3>2. QED
      BY <3>1, AppendProperties DEF QueueTyped
  <2>2. send' \in [Clients -> Seq(Messages)]
    BY <2>1 DEF Relay
  <2>3. QED
    BY <1>6, <2>2 DEF QueueTyped
<1>9. PumpTyped' /\ PumpInv'
  <2> HIDE DEF slow
  <2>1. QED
    BY <1>6 DEF PumpTyped, PumpInv, HubTyped
<1>10. QED
  BY <1>7, <1>8, <1>9

LEMMA ClientKeeps ==
  ASSUME Inv, NEW c \in Clients, ClientNext(c)
  PROVE  Inv'
<1> USE DEF Inv
<1>0. Len(relayed) \in 0..MaxMessages
  BY LenProperties, HubConstants DEF HubTyped
<1>1. CASE ServeWS(c) \/ Register(c) \/ Unregister(c) \/ Leave(c) \/ ReadFails(c)
           \/ WriteFails(c) \/ Drained(c)
  <2>1. HubTyped'
    BY <1>0, <1>1 DEF HubTyped, PumpInv, hubVars, ServeWS, Register, Unregister, Leave, ReadFails, WriteFails, Drained
  <2>2. PumpTyped'
    BY <1>1 DEF PumpTyped, ServeWS, Register, Unregister, Leave, ReadFails, WriteFails, Drained
  <2>3. QueueTyped'
    BY <1>1 DEF QueueTyped, ServeWS, Register, Unregister, Leave, ReadFails, WriteFails, Drained
  <2>4. PumpInv'
    <3>1. CASE Register(c)
      BY <3>1 DEF HubTyped, PumpTyped, PumpInv, Register
    <3>2. CASE Unregister(c)
      BY <3>2 DEF HubTyped, PumpTyped, PumpInv, Unregister
    <3>3. CASE ServeWS(c) \/ Leave(c) \/ ReadFails(c)
      BY <3>3 DEF PumpTyped, PumpInv, hubVars, ServeWS, Leave, ReadFails
    <3>4. CASE WriteFails(c) \/ Drained(c)
      BY <3>4 DEF PumpTyped, PumpInv, hubVars, WriteFails, Drained
    <3>5. QED
      BY <1>1, <3>1, <3>2, <3>3, <3>4
  <2>5. QED
    BY <2>1, <2>2, <2>3, <2>4
<1>2. CASE Answer(c)
  <2>1. send[c] \in Seq(Messages) /\ Reply \in Messages
    BY HubConstants DEF QueueTyped, Messages, Reply
  <2>2. Append(send[c], Reply) \in Seq(Messages)
    BY <2>1, AppendProperties
  <2>3. send' \in [Clients -> Seq(Messages)]
    BY <1>2, <2>1, <2>2 DEF Answer, QueueTyped
  <2>4. QED
    BY <1>2, <2>3 DEF Answer, HubTyped, PumpTyped, QueueTyped, PumpInv, hubVars
<1>3. CASE TakeMessage(c)
  <2>1. send[c] \in Seq(Messages) /\ send[c] # <<>>
    BY <1>3 DEF QueueTyped, TakeMessage
  <2>2. Tail(send[c]) \in Seq(Messages) /\ Head(send[c]) \in Messages
    BY <2>1, HeadTailProperties
  <2>3. <<Head(send[c])>> \in Seq(Messages)
    BY <2>2
  <2>4. QueueTyped'
    BY <1>3, <2>2, <2>3 DEF TakeMessage, QueueTyped
  <2>5. QED
    BY <1>3, <2>4 DEF TakeMessage, HubTyped, PumpTyped, PumpInv, hubVars
<1>4. CASE Wrote(c)
  <2>1. got[c] \o held[c] \in Seq(Messages) /\ <<>> \in Seq(Messages)
    BY ConcatProperties, EmptySeq DEF QueueTyped
  <2>2. QueueTyped'
    BY <1>4, <2>1 DEF Wrote, QueueTyped
  <2>3. QED
    BY <1>4, <2>2 DEF Wrote, HubTyped, PumpTyped, PumpInv, hubVars
<1>5. QED
  BY <1>1, <1>2, <1>3, <1>4 DEF ClientNext

LEMMA InvStep == Inv /\ [Next]_vars => Inv'
<1>1. Inv /\ UNCHANGED vars => Inv'
  BY DEF vars, Inv, HubTyped, PumpTyped, QueueTyped, PumpInv
<1>2. QED
  BY <1>1, BroadcastKeeps, RelayKeeps, ClientKeeps DEF Next

\* Every variable keeps its type; in particular the broadcast channel never holds
\* more than its capacity.
THEOREM TypeCorrect == Spec => []TypeOK
<1>1. Inv => TypeOK
  BY DEF Inv, HubTyped, PumpTyped, QueueTyped, Messages, TypeOK
<1>2. QED
  BY <1>1, InvInit, InvStep, PTL DEF Spec

\* A channel is closed at most once, and only when its client is taken out: the
\* two places where Run closes a channel never meet.
THEOREM ChannelsClosedOnce == Spec => []ClosedOnce
<1>1. Inv => ClosedOnce
  BY DEF Inv, HubTyped, PumpInv, ClosedOnce
<1>2. QED
  BY <1>1, InvInit, InvStep, PTL DEF Spec

-----------------------------------------------------------------------------
(* What streams carry.                                                      *)

\* Nothing was sent, of nothing.
LEMMA CarriesNone == \A r, from : from \in Nat => Carries(<<>>, r, from, from)
  BY DEF Carries, Envelopes

\* Streams are put together in any order.
LEMMA ConcatMessages ==
  \A a, b, d \in Seq(Messages) : /\ a \o b \in Seq(Messages)
                                 /\ (a \o b) \o d = a \o (b \o d)
  BY ConcatProperties, ConcatAssociative

LEMMA ConcatAppend ==
  \A a, b \in Seq(Messages), m \in Messages : a \o Append(b, m) = Append(a \o b, m)
<1> TAKE a, b \in Seq(Messages), m \in Messages
<1>1. <<m>> \in Seq(Messages) /\ a \o b \in Seq(Messages)
  BY ConcatMessages
<1>2. Append(b, m) = b \o <<m>> /\ Append(a \o b, m) = (a \o b) \o <<m>>
  BY <1>1, AppendIsConcat
<1>3. (a \o b) \o <<m>> = a \o (b \o <<m>>)
  BY <1>1, ConcatMessages
<1>4. QED
  BY <1>2, <1>3

\* A reply at the end changes nothing.
LEMMA CarriesReply ==
  ASSUME NEW s \in Seq(Messages), NEW r, NEW from, NEW to, Carries(s, r, from, to)
  PROVE  Carries(Append(s, Reply), r, from, to)
<1>1. /\ DOMAIN s = 1..Len(s) /\ Len(s) \in Nat
      /\ DOMAIN Append(s, Reply) = 1..(Len(s) + 1)
      /\ \A i \in 1..Len(s) : Append(s, Reply)[i] = s[i]
      /\ Append(s, Reply)[Len(s) + 1] = Reply
  <2>1. Reply \in Messages
    BY HubConstants DEF Reply, Messages
  <2>2. QED
    BY <2>1, AppendProperties, LenProperties
<1>2. Envelopes(Append(s, Reply)) = Envelopes(s)
  BY <1>1 DEF Envelopes, IsBroadcast
<1>3. \A i \in Envelopes(s) : Append(s, Reply)[i] = s[i]
  BY <1>1 DEF Envelopes
<1>4. /\ {Append(s, Reply)[i] : i \in Envelopes(s)} = {s[i] : i \in Envelopes(s)}
      /\ \A i, j \in Envelopes(s) : i < j => Append(s, Reply)[i] < Append(s, Reply)[j]
  BY <1>3 DEF Carries
<1>5. QED
  BY <1>2, <1>4 DEF Carries

\* Run takes an envelope and does not send it.
LEMMA CarriesLonger ==
  ASSUME NEW s, NEW r \in Seq(Messages), NEW m \in Messages,
         NEW from \in Nat, NEW to \in 0..Len(r), Carries(s, r, from, to)
  PROVE  Carries(s, Append(r, m), from, to)
<1>1. \A k \in 1..Len(r) : Append(r, m)[k] = r[k]
  BY AppendProperties
<1>2. \A k \in (from + 1)..to : k \in 1..Len(r)
  BY LenProperties
<1>3. {Append(r, m)[k] : k \in (from + 1)..to} = {r[k] : k \in (from + 1)..to}
  BY <1>1, <1>2
<1>4. QED
  BY <1>3 DEF Carries

\* Run takes an envelope, the largest so far, and sends it.
LEMMA CarriesNext ==
  ASSUME NEW s \in Seq(Messages), NEW r \in Seq(Messages), NEW m \in Messages,
         IsBroadcast(m), \A k \in 1..Len(r) : r[k] < m,
         NEW from \in 0..Len(r), Carries(s, r, from, Len(r))
  PROVE  Carries(Append(s, m), Append(r, m), from, Len(r) + 1)
<1> DEFINE t == Append(s, m)
           q == Append(r, m)
<1>1. /\ Len(s) \in Nat /\ DOMAIN s = 1..Len(s) /\ DOMAIN t = 1..(Len(s) + 1)
      /\ \A i \in 1..Len(s) : t[i] = s[i]
      /\ t[Len(s) + 1] = m
  BY AppendProperties, LenProperties
<1>2. /\ Len(r) \in Nat
      /\ \A k \in 1..Len(r) : q[k] = r[k]
      /\ q[Len(r) + 1] = m
  BY AppendProperties, LenProperties
<1> HIDE DEF t, q
<1>3. Envelopes(t) = Envelopes(s) \cup {Len(s) + 1}
  BY <1>1 DEF Envelopes
<1>4. \A i \in Envelopes(s) : i \in 1..Len(s) /\ t[i] = s[i]
  BY <1>1 DEF Envelopes
<1>5. \A i \in Envelopes(s) : s[i] < m
  <2> TAKE i \in Envelopes(s)
  <2>1. PICK k \in (from + 1)..Len(r) : s[i] = r[k]
    BY DEF Carries
  <2>2. k \in 1..Len(r)
    BY <1>2, <2>1
  <2>3. QED
    BY <2>1, <2>2
<1>6. \A i, j \in Envelopes(t) : i < j => t[i] < t[j]
  BY <1>1, <1>3, <1>4, <1>5 DEF Carries
<1>7. {t[i] : i \in Envelopes(t)} = {s[i] : i \in Envelopes(s)} \cup {m}
  BY <1>1, <1>3, <1>4
<1>8. (from + 1)..(Len(r) + 1) = ((from + 1)..Len(r)) \cup {Len(r) + 1}
  BY <1>2
<1>9. \A k \in (from + 1)..Len(r) : q[k] = r[k]
  BY <1>2
<1>10. {q[k] : k \in (from + 1)..(Len(r) + 1)} = {r[k] : k \in (from + 1)..Len(r)} \cup {m}
  BY <1>2, <1>8, <1>9
<1>11. QED
  BY <1>6, <1>7, <1>10 DEF Carries, t, q

\* A reply in the middle is written and forgotten.
LEMMA CarriesWithout ==
  ASSUME NEW a \in Seq(Messages), NEW b \in Seq(Messages), NEW r, NEW from, NEW to,
         Carries((a \o <<Reply>>) \o b, r, from, to)
  PROVE  Carries((a \o <<>>) \o b, r, from, to)
<1> DEFINE s == (a \o <<Reply>>) \o b
           t == a \o b
           n == Len(a)
           At(i) == IF i <= n THEN i ELSE i + 1
<1>1. <<Reply>> \in Seq(Messages) /\ Len(<<Reply>>) = 1 /\ <<Reply>>[1] = Reply
  BY HubConstants DEF Reply, Messages
<1>2. /\ a \o <<Reply>> \in Seq(Messages) /\ Len(a \o <<Reply>>) = n + 1
      /\ n \in Nat /\ Len(b) \in Nat
      /\ \A i \in 1..(n + 1) : (a \o <<Reply>>)[i] = IF i <= n THEN a[i] ELSE <<Reply>>[i - n]
  BY <1>1, ConcatProperties, LenProperties
<1>3. /\ s \in Seq(Messages) /\ Len(s) = (n + 1) + Len(b)
      /\ \A i \in 1..((n + 1) + Len(b)) :
           s[i] = IF i <= n + 1 THEN (a \o <<Reply>>)[i] ELSE b[i - (n + 1)]
  BY <1>2, ConcatProperties
<1>4. /\ t \in Seq(Messages) /\ Len(t) = n + Len(b)
      /\ \A i \in 1..(n + Len(b)) : t[i] = IF i <= n THEN a[i] ELSE b[i - n]
  BY ConcatProperties
<1>5. DOMAIN s = 1..(n + 1 + Len(b)) /\ DOMAIN t = 1..(n + Len(b))
  BY <1>2, <1>3, <1>4, LenProperties
<1>6. (a \o <<>>) \o b = t
  BY ConcatEmptySeq
<1> HIDE DEF s, t, n
<1>7. s[n + 1] = Reply
  <2>1. (a \o <<Reply>>)[n + 1] = <<Reply>>[(n + 1) - n]
    BY <1>2
  <2>2. (n + 1) - n = 1
    BY <1>2
  <2>3. QED
    BY <1>1, <1>2, <1>3, <2>1, <2>2
<1>8. \A i \in DOMAIN t : At(i) \in DOMAIN s /\ t[i] = s[At(i)] /\ At(i) # n + 1
  <2> TAKE i \in DOMAIN t
  <2>1. CASE i <= n
    BY <1>2, <1>3, <1>4, <1>5, <2>1
  <2>2. CASE ~ (i <= n)
    <3>1. i + 1 \in 1..((n + 1) + Len(b)) /\ ~ (i + 1 <= n + 1) /\ (i + 1) - (n + 1) = i - n
      BY <1>2, <1>5, <2>2
    <3>2. s[i + 1] = b[i - n]
      BY <1>3, <3>1
    <3>3. QED
      BY <1>2, <1>3, <1>4, <1>5, <2>2, <3>1, <3>2
  <2>3. QED
    BY <2>1, <2>2
<1>9. \A j \in DOMAIN s : j # n + 1 => \E i \in DOMAIN t : j = At(i)
  <2> SUFFICES ASSUME NEW j \in DOMAIN s, j # n + 1
               PROVE  \E i \in DOMAIN t : j = At(i)
    OBVIOUS
  <2>1. CASE j <= n
    BY <1>2, <1>5, <2>1
  <2>2. CASE ~ (j <= n)
    <3>1. j - 1 \in DOMAIN t /\ j = At(j - 1)
      BY <1>2, <1>5, <2>2
    <3>2. QED
      BY <3>1
  <2>3. QED
    BY <2>1, <2>2
<1>10. \A i, j \in DOMAIN t : i < j => At(i) < At(j)
  BY <1>2, <1>5
<1> HIDE DEF At
<1>11. \A i \in DOMAIN t : i \in Envelopes(t) <=> At(i) \in Envelopes(s)
  BY <1>8 DEF Envelopes
<1>12. Envelopes(t) \subseteq DOMAIN t /\ Envelopes(s) \subseteq DOMAIN s /\ n + 1 \notin Envelopes(s)
  BY <1>7 DEF Envelopes, IsBroadcast
<1>13. \A i, j \in Envelopes(t) : i < j => t[i] < t[j]
  <2> TAKE i, j \in Envelopes(t)
  <2>1. i \in DOMAIN t /\ j \in DOMAIN t
    BY <1>12
  <2>2. At(i) \in Envelopes(s) /\ At(j) \in Envelopes(s) /\ t[i] = s[At(i)] /\ t[j] = s[At(j)]
    BY <1>8, <1>11, <2>1
  <2>3. QED
    BY <1>10, <2>1, <2>2 DEF Carries, s
<1>14. {t[i] : i \in Envelopes(t)} = {s[i] : i \in Envelopes(s)}
  BY <1>8, <1>9, <1>11, <1>12
<1>15. QED
  BY <1>6, <1>13, <1>14 DEF Carries, s
-----------------------------------------------------------------------------
(* The invariant behind NoHoles.                                            *)

\* Envelopes go through the hub in the order of their numbers.
RelayInv ==
  /\ \A i, j \in DOMAIN relayed : i < j => relayed[i] < relayed[j]
  /\ \A i, j \in DOMAIN broadcast : i < j => broadcast[i] < broadcast[j]
  /\ \A i \in DOMAIN relayed, j \in DOMAIN broadcast : relayed[i] < broadcast[j]
  /\ \A i \in DOMAIN relayed : relayed[i] <= published
  /\ \A j \in DOMAIN broadcast : broadcast[j] <= published

\* A write pump holds a message while it writes, and what no pump serves is empty.
HeldInv ==
  \A c \in Clients :
    /\ writing[c] \in {"none", "waiting"} => held[c] = <<>>
    /\ writing[c] = "none" => got[c] = <<>> /\ send[c] = <<>>

\* What the stream of a client carries.
StreamInv ==
  \A c \in Clients : \E n \in since[c]..Len(relayed) :
    /\ Carries(Stream(c), relayed, since[c], n)
    /\ c \in clients => n = Len(relayed)

OrderInv == Inv /\ RelayInv /\ HeldInv /\ StreamInv

LEMMA OrderInit == Init => OrderInv
<1> SUFFICES ASSUME Init PROVE OrderInv
  OBVIOUS
<1>1. Inv
  BY InvInit
<1>2. RelayInv
  BY DEF Init, RelayInv
<1>3. HeldInv
  BY DEF Init, HeldInv
<1>4. StreamInv
  <2> SUFFICES ASSUME NEW c \in Clients
               PROVE  \E n \in since[c]..Len(relayed) :
                        /\ Carries(Stream(c), relayed, since[c], n)
                        /\ c \in clients => n = Len(relayed)
    BY DEF StreamInv
  <2>1. since[c] = 0 /\ Len(relayed) = 0 /\ clients = {}
    BY DEF Init
  <2>2. got[c] = <<>> /\ held[c] = <<>> /\ send[c] = <<>> /\ <<>> \in Seq(Messages)
    BY DEF Init
  <2>3. Stream(c) = <<>>
    BY <2>2, ConcatEmptySeq DEF Stream
  <2>4. QED
    BY <2>1, <2>3, CarriesNone
<1>5. QED
  BY <1>1, <1>2, <1>3, <1>4 DEF OrderInv

\* BroadcastFor adds the largest number.
LEMMA BroadcastOrdered == OrderInv /\ BroadcastFor => RelayInv'
<1> SUFFICES ASSUME OrderInv, BroadcastFor PROVE RelayInv'
  OBVIOUS
<1>1. broadcast \in Seq(Nat) /\ relayed \in Seq(Nat) /\ published \in Nat
  BY HubConstants DEF OrderInv, Inv, HubTyped
<1>2. /\ DOMAIN broadcast = 1..Len(broadcast) /\ DOMAIN relayed = 1..Len(relayed)
      /\ Len(broadcast) \in Nat /\ Len(relayed) \in Nat
      /\ \A i \in DOMAIN broadcast : broadcast[i] \in Nat
      /\ \A i \in DOMAIN relayed : relayed[i] \in Nat
  BY <1>1, LenProperties, ElementOfSeq
<1>3. published' = published + 1 /\ relayed' = relayed
  BY DEF BroadcastFor
<1>4. CASE broadcast' = broadcast
  BY <1>1, <1>2, <1>3, <1>4 DEF OrderInv, RelayInv
<1>5. CASE broadcast' = Append(broadcast, published + 1)
  <2>1. published + 1 \in Nat
    BY <1>1
  <2>2. /\ DOMAIN broadcast' = 1..(Len(broadcast) + 1)
        /\ \A i \in 1..Len(broadcast) : broadcast'[i] = broadcast[i]
        /\ broadcast'[Len(broadcast) + 1] = published + 1
    BY <1>1, <1>5, <2>1, AppendProperties, LenProperties
  <2>3. \A j \in DOMAIN broadcast' : \/ j \in DOMAIN broadcast /\ broadcast'[j] = broadcast[j]
                                     \/ j = Len(broadcast) + 1 /\ broadcast'[j] = published + 1
    BY <1>2, <2>2
  <2>4. /\ \A i \in DOMAIN broadcast' : broadcast'[i] <= published'
        /\ \A i \in DOMAIN relayed' : relayed'[i] <= published'
    BY <1>1, <1>2, <1>3, <2>3 DEF OrderInv, RelayInv
  <2>5. \A i, j \in DOMAIN broadcast' : i < j => broadcast'[i] < broadcast'[j]
    BY <1>1, <1>2, <2>3 DEF OrderInv, RelayInv
  <2>6. \A i \in DOMAIN relayed', j \in DOMAIN broadcast' : relayed'[i] < broadcast'[j]
    BY <1>1, <1>2, <1>3, <2>3 DEF OrderInv, RelayInv
  <2>7. QED
    BY <1>3, <2>4, <2>5, <2>6 DEF OrderInv, RelayInv
<1>6. QED
  BY <1>4, <1>5 DEF BroadcastFor

\* Run takes the smallest of the queued envelopes, and it is new.
LEMMA RelayOrdered ==
  OrderInv /\ Relay => /\ RelayInv'
                       /\ \A k \in 1..Len(relayed) : relayed[k] < Head(broadcast)
<1> SUFFICES ASSUME OrderInv, Relay
             PROVE  RelayInv' /\ \A k \in 1..Len(relayed) : relayed[k] < Head(broadcast)
  OBVIOUS
<1> DEFINE m == Head(broadcast)
<1>1. /\ broadcast \in Seq(Nat) /\ broadcast # <<>> /\ relayed \in Seq(Nat) /\ published \in Nat
      /\ broadcast' = Tail(broadcast) /\ relayed' = Append(relayed, m) /\ published' = published
  BY HubConstants DEF OrderInv, Inv, HubTyped, Relay
<1>2. /\ DOMAIN broadcast = 1..Len(broadcast) /\ DOMAIN relayed = 1..Len(relayed)
      /\ Len(broadcast) \in Nat /\ Len(broadcast) # 0 /\ Len(relayed) \in Nat
      /\ \A i \in DOMAIN broadcast : broadcast[i] \in Nat
      /\ \A i \in DOMAIN relayed : relayed[i] \in Nat
  BY <1>1, LenProperties, ElementOfSeq, EmptySeq
<1>3. m = broadcast[1] /\ m \in Nat /\ 1 \in DOMAIN broadcast
  BY <1>1, <1>2
<1>4. \A j \in DOMAIN broadcast' : j + 1 \in DOMAIN broadcast /\ j \in Nat /\ broadcast'[j] = broadcast[j + 1]
  <2>1. DOMAIN broadcast' = 1..Len(broadcast') /\ Len(broadcast') = Len(broadcast) - 1
    BY <1>1, HeadTailProperties, LenProperties
  <2>2. \A j \in 1..Len(broadcast') : broadcast'[j] = broadcast[j + 1]
    BY <1>1, HeadTailProperties
  <2>3. QED
    BY <1>2, <2>1, <2>2
<1>5. \A i \in DOMAIN relayed' : \/ i \in DOMAIN relayed /\ relayed'[i] = relayed[i]
                                 \/ i = Len(relayed) + 1 /\ relayed'[i] = m
  <2>1. /\ DOMAIN relayed' = 1..(Len(relayed) + 1)
        /\ \A i \in 1..Len(relayed) : relayed'[i] = relayed[i]
        /\ relayed'[Len(relayed) + 1] = m
    BY <1>1, <1>3, AppendProperties, LenProperties
  <2>2. QED
    BY <1>2, <2>1
<1> HIDE DEF m
<1>6. \A j \in DOMAIN broadcast' : m < broadcast'[j] /\ broadcast'[j] <= published
  <2> TAKE j \in DOMAIN broadcast'
  <2>1. j + 1 \in DOMAIN broadcast /\ 1 < j + 1 /\ broadcast'[j] = broadcast[j + 1]
    BY <1>2, <1>4
  <2>2. QED
    BY <1>3, <2>1 DEF OrderInv, RelayInv
<1>7. \A i \in DOMAIN relayed : relayed[i] < m
  BY <1>3 DEF OrderInv, RelayInv
<1>8. m <= published
  BY <1>3 DEF OrderInv, RelayInv
<1>9. \A i, j \in DOMAIN relayed' : i < j => relayed'[i] < relayed'[j]
  BY <1>2, <1>5, <1>7 DEF OrderInv, RelayInv
<1>10. \A i, j \in DOMAIN broadcast' : i < j => broadcast'[i] < broadcast'[j]
  <2> TAKE i, j \in DOMAIN broadcast'
  <2>1. i < j => i + 1 < j + 1
    BY <1>4
  <2>2. QED
    BY <1>4, <2>1 DEF OrderInv, RelayInv
<1>11. \A i \in DOMAIN relayed', j \in DOMAIN broadcast' : relayed'[i] < broadcast'[j]
  <2> TAKE i \in DOMAIN relayed', j \in DOMAIN broadcast'
  <2>1. CASE i \in DOMAIN relayed /\ relayed'[i] = relayed[i]
    BY <1>4, <2>1 DEF OrderInv, RelayInv
  <2>2. CASE relayed'[i] = m
    BY <1>6, <2>2
  <2>3. QED
    BY <1>5, <2>1, <2>2
<1>12. \A i \in DOMAIN relayed' : relayed'[i] <= published
  BY <1>5, <1>8 DEF OrderInv, RelayInv
<1>13. QED
  BY <1>1, <1>2, <1>6, <1>7, <1>9, <1>10, <1>11, <1>12 DEF RelayInv, m

LEMMA RelayStream == OrderInv /\ Relay => StreamInv'
<1> SUFFICES ASSUME OrderInv, Relay, NEW c \in Clients
             PROVE  \E n \in since'[c]..Len(relayed') :
                      /\ Carries(Stream(c)', relayed', since'[c], n)
                      /\ c \in clients' => n = Len(relayed')
  BY DEF StreamInv
<1> DEFINE m == Head(broadcast)
<1>1. /\ m \in Messages /\ IsBroadcast(m) /\ relayed \in Seq(Messages)
      /\ relayed' = Append(relayed, m) /\ since' = since
  BY HubConstants, HeadTailProperties DEF OrderInv, Inv, HubTyped, Relay, Messages, IsBroadcast, Reply
<1>2. \A k \in 1..Len(relayed) : relayed[k] < m
  BY RelayOrdered
<1>3. got[c] \in Seq(Messages) /\ held[c] \in Seq(Messages) /\ send[c] \in Seq(Messages)
  BY DEF OrderInv, Inv, QueueTyped
<1>4. since[c] \in Nat /\ Len(relayed) \in Nat /\ Len(relayed') = Len(relayed) + 1
  BY <1>1, HubConstants, AppendProperties, LenProperties DEF OrderInv, Inv, HubTyped
<1>5. PICK n \in since[c]..Len(relayed) :
        /\ Carries(Stream(c), relayed, since[c], n)
        /\ c \in clients => n = Len(relayed)
  BY DEF OrderInv, StreamInv
<1>6. got' = got /\ held' = held
  BY DEF Relay
<1> HIDE DEF m
<1>7. CASE c \in clients /\ ~Full(c)
  <2>1. send'[c] = Append(send[c], m)
    BY <1>7 DEF Relay, m
  <2>2. got[c] \o held[c] \in Seq(Messages) /\ Stream(c) \in Seq(Messages)
    BY <1>3, ConcatProperties DEF Stream
  <2>3. Stream(c)' = Append(Stream(c), m)
    <3>1. (got[c] \o held[c]) \o Append(send[c], m) = Append((got[c] \o held[c]) \o send[c], m)
      BY <1>1, <1>3, <2>2, ConcatAppend
    <3>2. Stream(c)' = (got[c] \o held[c]) \o Append(send[c], m)
      BY <1>6, <2>1 DEF Stream
    <3>3. QED
      BY <3>1, <3>2 DEF Stream
  <2>4. since[c] \in 0..Len(relayed) /\ Carries(Stream(c), relayed, since[c], Len(relayed))
    BY <1>4, <1>5, <1>7
  <2>5. Carries(Append(Stream(c), m), Append(relayed, m), since[c], Len(relayed) + 1)
    BY <1>1, <1>2, <2>2, <2>4, CarriesNext
  <2>6. QED
    BY <1>1, <1>4, <1>5, <2>3, <2>5
<1>8. CASE ~ (c \in clients /\ ~Full(c))
  <2>1. send'[c] = send[c] /\ c \notin clients'
    BY <1>8 DEF Relay
  <2>2. Stream(c)' = Stream(c)
    BY <1>6, <2>1 DEF Stream
  <2>3. Carries(Stream(c), Append(relayed, m), since[c], n)
    BY <1>1, <1>4, <1>5, CarriesLonger
  <2>4. QED
    BY <1>1, <1>4, <1>5, <2>1, <2>2, <2>3
<1>9. QED
  BY <1>7, <1>8

LEMMA ClientStream ==
  ASSUME OrderInv, NEW d \in Clients, ClientNext(d), NEW c \in Clients
  PROVE  \E n \in since'[c]..Len(relayed') :
           /\ Carries(Stream(c)', relayed', since'[c], n)
           /\ c \in clients' => n = Len(relayed')
<1>1. relayed' = relayed /\ Len(relayed) \in Nat /\ since[c] \in Nat
  <2>1. relayed' = relayed
    BY DEF ClientNext, hubVars, ServeWS, Register, Unregister, Answer, Leave, ReadFails,
           TakeMessage, Wrote, WriteFails, Drained
  <2>2. relayed \in Seq(1..MaxMessages) /\ since[c] \in 0..MaxMessages
    BY DEF OrderInv, Inv, HubTyped
  <2>3. QED
    BY <2>1, <2>2, HubConstants, LenProperties
<1>2. PICK n \in since[c]..Len(relayed) :
        /\ Carries(Stream(c), relayed, since[c], n)
        /\ c \in clients => n = Len(relayed)
  BY DEF OrderInv, StreamInv
<1>3. got[c] \in Seq(Messages) /\ held[c] \in Seq(Messages) /\ send[c] \in Seq(Messages)
  BY DEF OrderInv, Inv, QueueTyped
<1>4. Stream(c) \in Seq(Messages)
  BY <1>3, ConcatProperties DEF Stream
<1>5. got[c] \o held[c] \in Seq(Messages)
  BY <1>3, ConcatMessages
<1>6. CASE UNCHANGED <<got[c], held[c], send[c], since[c]>> /\ (c \in clients' => c \in clients)
  <2>1. Stream(c)' = Stream(c)
    BY <1>6 DEF Stream
  <2>2. QED
    BY <1>1, <1>2, <1>6, <2>1
<1>7. CASE c # d
  BY <1>6, <1>7
  DEF OrderInv, Inv, HubTyped, QueueTyped, ClientNext, hubVars, ServeWS, Register, Unregister,
      Answer, Leave, ReadFails, TakeMessage, Wrote, WriteFails, Drained
<1>8. CASE c = d /\ Register(d)
  <2>1. since'[c] = Len(relayed) /\ UNCHANGED <<got, held, send>>
    BY <1>8 DEF Register, OrderInv, Inv, HubTyped
  <2>2. writing[c] = "none"
    BY <1>8 DEF Register, OrderInv, Inv, PumpInv
  <2>3. got[c] = <<>> /\ held[c] = <<>> /\ send[c] = <<>>
    BY <2>2 DEF OrderInv, HeldInv
  <2>4. Stream(c)' = <<>>
    BY <1>3, <2>1, <2>3, ConcatEmptySeq DEF Stream
  <2>5. QED
    BY <1>1, <2>1, <2>4, CarriesNone
<1>9. CASE c = d /\ Answer(d)
  <2>1. UNCHANGED <<got, held, since, clients>>
    BY <1>9 DEF Answer, hubVars
  <2>2. CASE send' = send
    BY <1>6, <2>1, <2>2
  <2>3. CASE send'[c] = Append(send[c], Reply)
    <3>1. Reply \in Messages
      BY HubConstants DEF Reply, Messages
    <3>2. (got[c] \o held[c]) \o Append(send[c], Reply)
            = Append((got[c] \o held[c]) \o send[c], Reply)
      BY <1>3, <1>5, <3>1, ConcatAppend
    <3>3. Stream(c)' = (got[c] \o held[c]) \o Append(send[c], Reply)
      BY <2>1, <2>3 DEF Stream
    <3>4. Stream(c)' = Append(Stream(c), Reply)
      BY <3>2, <3>3 DEF Stream
    <3>5. Carries(Stream(c)', relayed, since[c], n)
      BY <1>2, <1>4, <3>4, CarriesReply
    <3>6. QED
      BY <1>1, <1>2, <2>1, <3>5
  <2>4. QED
    BY <1>6, <1>9, <2>1, <2>2, <2>3 DEF Answer, OrderInv, Inv, QueueTyped
<1>10. CASE c = d /\ TakeMessage(d)
  <2>1. UNCHANGED <<got, since, clients>> /\ send[c] # <<>>
    BY <1>10 DEF TakeMessage, hubVars
  <2>2. held[c] = <<>>
    BY <1>10 DEF TakeMessage, OrderInv, HeldInv
  <2>3. held'[c] = <<Head(send[c])>> /\ send'[c] = Tail(send[c])
    BY <1>10 DEF TakeMessage, OrderInv, Inv, QueueTyped
  <2>4. /\ Head(send[c]) \in Messages /\ Tail(send[c]) \in Seq(Messages)
        /\ <<Head(send[c])>> \in Seq(Messages)
    BY <1>3, <2>1, HeadTailProperties
  <2>5. <<Head(send[c])>> \o Tail(send[c]) = send[c]
    BY <1>3, <2>1
  <2>6. Stream(c)' = got[c] \o send[c]
    <3> DEFINE h == <<Head(send[c])>>
               t == Tail(send[c])
    <3>1. /\ got[c] \in Seq(Messages) /\ h \in Seq(Messages) /\ t \in Seq(Messages)
          /\ h \o t = send[c]
      BY <1>3, <2>4, <2>5
    <3>2. Stream(c)' = (got[c] \o h) \o t
      BY <2>1, <2>3 DEF Stream
    <3> HIDE DEF h, t
    <3>3. (got[c] \o h) \o t = got[c] \o (h \o t)
      BY <3>1, ConcatMessages
    <3>4. QED
      BY <3>1, <3>2, <3>3
  <2>7. Stream(c)' = Stream(c)
    BY <1>3, <2>2, <2>6, ConcatEmptySeq DEF Stream
  <2>8. QED
    BY <1>1, <1>2, <2>1, <2>7
<1>11. CASE c = d /\ Wrote(d)
  <2>1. UNCHANGED <<send, since, clients>> /\ held'[c] = <<>>
    BY <1>11 DEF Wrote, hubVars, OrderInv, Inv, QueueTyped
  <2>2. CASE held[c] = <<Reply>>
    <3>1. got'[c] = got[c]
      BY <1>11, <2>2 DEF Wrote, OrderInv, Inv, QueueTyped
    <3>2. Stream(c) = (got[c] \o <<Reply>>) \o send[c]
      BY <2>2 DEF Stream
    <3>3. Stream(c)' = (got[c] \o <<>>) \o send[c]
      BY <2>1, <3>1 DEF Stream
    <3>4. Carries(Stream(c)', relayed, since[c], n)
      BY <1>2, <1>3, <3>2, <3>3, CarriesWithout
    <3>5. QED
      BY <1>1, <1>2, <2>1, <3>4
  <2>3. CASE held[c] # <<Reply>>
    <3>1. got'[c] = got[c] \o held[c]
      BY <1>11, <2>3 DEF Wrote, OrderInv, Inv, QueueTyped
    <3>2. got[c] \o held[c] \in Seq(Messages)
      BY <1>3, ConcatProperties
    <3>3. Stream(c)' = Stream(c)
      BY <2>1, <3>1, <3>2, ConcatEmptySeq DEF Stream
    <3>4. QED
      BY <1>1, <1>2, <2>1, <3>3
  <2>4. QED
    BY <2>2, <2>3
<1>12. CASE c = d /\ ( \/ ServeWS(d) \/ Unregister(d) \/ Leave(d) \/ ReadFails(d)
                       \/ WriteFails(d) \/ Drained(d) )
  BY <1>6, <1>12 DEF hubVars, ServeWS, Unregister, Leave, ReadFails, WriteFails, Drained
<1>13. QED
  BY <1>7, <1>8, <1>9, <1>10, <1>11, <1>12 DEF ClientNext

LEMMA HeldStep == OrderInv /\ [Next]_vars => HeldInv'
<1> SUFFICES ASSUME OrderInv, [Next]_vars PROVE HeldInv'
  OBVIOUS
<1> USE DEF OrderInv, HeldInv
<1>1. CASE UNCHANGED vars \/ BroadcastFor
  BY <1>1 DEF vars, BroadcastFor
<1>2. CASE Relay
  <2>1. \A c \in clients : writing[c] # "none"
    BY DEF Inv, HubTyped, PumpInv
  <2>2. \A c \in Clients \ clients : send'[c] = send[c]
    BY <1>2 DEF Relay
  <2>3. QED
    BY <1>2, <2>1, <2>2 DEF Relay
<1>3. ASSUME NEW d \in Clients, ClientNext(d) PROVE HeldInv'
  <2>1. CASE \/ ServeWS(d) \/ Register(d) \/ Unregister(d) \/ Leave(d) \/ ReadFails(d)
             \/ WriteFails(d) \/ Drained(d)
    BY <2>1 DEF Inv, PumpTyped, PumpInv, hubVars, ServeWS, Register, Unregister, Leave,
                ReadFails, WriteFails, Drained
  <2>2. CASE Answer(d)
    <3>1. writing[d] # "none"
      BY <2>2 DEF Answer, Inv, PumpInv
    <3>2. \A c \in Clients : c # d => send'[c] = send[c]
      BY <2>2 DEF Answer, Inv, QueueTyped
    <3>3. QED
      BY <2>2, <3>1, <3>2 DEF Answer
  <2>3. CASE TakeMessage(d)
    BY <2>3 DEF TakeMessage, Inv, PumpTyped, QueueTyped
  <2>4. CASE Wrote(d)
    BY <2>4 DEF Wrote, Inv, PumpTyped, QueueTyped
  <2>5. QED
    BY <1>3, <2>1, <2>2, <2>3, <2>4 DEF ClientNext
<1>4. QED
  BY <1>1, <1>2, <1>3 DEF Next

LEMMA OrderStep == OrderInv /\ [Next]_vars => OrderInv'
<1> SUFFICES ASSUME OrderInv, [Next]_vars PROVE OrderInv'
  OBVIOUS
<1>1. Inv' /\ HeldInv'
  BY InvStep, HeldStep DEF OrderInv
<1>2. CASE UNCHANGED vars
  <2>1. RelayInv' /\ StreamInv'
    BY <1>2 DEF OrderInv, vars, RelayInv, StreamInv, Stream
  <2>2. QED
    BY <1>1, <2>1 DEF OrderInv
<1>3. CASE BroadcastFor
  <2>1. StreamInv'
    BY <1>3 DEF BroadcastFor, OrderInv, StreamInv, Stream
  <2>2. QED
    BY <1>1, <1>3, <2>1, BroadcastOrdered DEF OrderInv
<1>4. CASE Relay
  BY <1>1, <1>4, RelayOrdered, RelayStream DEF OrderInv
<1>5. ASSUME NEW d \in Clients, ClientNext(d) PROVE OrderInv'
  <2>1. UNCHANGED <<broadcast, relayed, published>>
    BY <1>5 DEF ClientNext, hubVars, ServeWS, Register, Unregister, Answer, Leave, ReadFails,
                TakeMessage, Wrote, WriteFails, Drained
  <2>2. RelayInv'
    BY <2>1 DEF OrderInv, RelayInv
  <2>3. StreamInv'
    BY <1>5, ClientStream DEF StreamInv
  <2>4. QED
    BY <1>1, <2>2, <2>3 DEF OrderInv
<1>6. QED
  BY <1>2, <1>3, <1>4, <1>5 DEF Next

\* The stream of every browser carries exactly the envelopes that Run relayed
\* from its registration on, up to the last one while it is in: in order, each
\* once, with no hole, whatever the pumps, the replies and the dropped
\* envelopes of BroadcastFor do.
THEOREM StreamsUnbroken == Spec => []NoHoles
<1>1. OrderInv => NoHoles
  BY DEF OrderInv, RelayInv, StreamInv, NoHoles
<1>2. QED
  BY <1>1, OrderInit, OrderStep, PTL DEF Spec
=============================================================================

----------------------------- MODULE BrowserHub -----------------------------
(***************************************************************************)
(* The fan-out to browsers (realtime/websocket.go): the hub's Run          *)
(* goroutine, the read and the write pump of each client, the callers of   *)
(* BroadcastFor, and the handler that answers a browser's request with     *)
(* SendMessage (cmd/server/main.go).                                       *)
(*                                                                         *)
(* Run owns the set of clients and holds h.mu for a whole case of its      *)
(* select, which is one action here.  A panic in a pump ends the process.  *)
(***************************************************************************)
EXTENDS Naturals, Sequences

CONSTANTS
  Clients,       \* browsers that connect
  BroadcastCap,  \* capacity of h.broadcast: 64
  SendCap,       \* capacity of client.send: 256
  MaxMessages    \* bound: envelopes that are broadcast

ASSUME HubConstants ==
  /\ BroadcastCap \in Nat \ {0}
  /\ SendCap \in Nat \ {0}
  /\ MaxMessages \in Nat

\* Broadcast envelopes are numbered from 1; a reply of SendMessage is a 0.
Reply == 0

IsBroadcast(m) == m # Reply

VARIABLES
  clients,    \* h.clients
  broadcast,  \* h.broadcast
  send,       \* client.send
  closed,     \* the send channels that are closed
  conn,       \* the client's WebSocket: "none", "open", "closed"
  reading,    \* ServeWS and then readPump
  writing,    \* writePump
  held,       \* what writePump took from its channel and is writing
  got,        \* history: the envelopes written to the browser
  published,  \* history: envelopes broadcast so far
  relayed,    \* history: the envelopes Run took, in order
  since,      \* history: how many of them came before the client registered
  crash       \* "no", or the panic: "send" or "close" of a closed channel

hubVars == <<clients, broadcast, published, relayed, since>>
vars == <<clients, broadcast, send, closed, conn, reading, writing, held, got, published,
          relayed, since, crash>>

Init ==
  /\ clients = {}
  /\ broadcast = <<>>
  /\ send = [c \in Clients |-> <<>>]
  /\ closed = {}
  /\ conn = [c \in Clients |-> "none"]
  /\ reading = [c \in Clients |-> "none"]
  /\ writing = [c \in Clients |-> "none"]
  /\ held = [c \in Clients |-> <<>>]
  /\ got = [c \in Clients |-> <<>>]
  /\ published = 0
  /\ relayed = <<>>
  /\ since = [c \in Clients |-> 0]
  /\ crash = "no"

\* The process has not panicked.
Alive == crash = "no"

Full(c) == Len(send[c]) >= SendCap

-----------------------------------------------------------------------------
\* Mutant: the channel has no limit.
BroadcastForUnlimited ==
  /\ Alive
  /\ published < MaxMessages
  /\ published' = published + 1
  /\ broadcast' = Append(broadcast, published + 1)
  /\ UNCHANGED <<clients, send, closed, conn, reading, writing, held, got, relayed, since, crash>>

\* BroadcastFor: never blocks, drops on a full channel.
BroadcastFor ==
  /\ Alive
  /\ published < MaxMessages
  /\ published' = published + 1
  /\ broadcast' = IF Len(broadcast) < BroadcastCap
                  THEN Append(broadcast, published + 1) ELSE broadcast
  /\ UNCHANGED <<clients, send, closed, conn, reading, writing, held, got, relayed, since, crash>>

\* ServeWS: upgraded, and waiting for Run to take the registration.
ServeWS(c) ==
  /\ Alive
  /\ reading[c] = "none"
  /\ conn' = [conn EXCEPT ![c] = "open"]
  /\ reading' = [reading EXCEPT ![c] = "registering"]
  /\ UNCHANGED <<hubVars, send, closed, writing, held, got, crash>>

-----------------------------------------------------------------------------
(* Run. *)

\* The client is in, and ServeWS starts both pumps.
Register(c) ==
  /\ Alive
  /\ reading[c] = "registering"
  /\ clients' = clients \cup {c}
  /\ since' = [since EXCEPT ![c] = Len(relayed)]
  /\ reading' = [reading EXCEPT ![c] = "reading"]
  /\ writing' = [writing EXCEPT ![c] = "waiting"]
  /\ UNCHANGED <<broadcast, send, closed, conn, held, got, published, relayed, crash>>

\* Mutant: the channel is closed whether or not the client was still in.
UnregisterUnchecked(c) ==
  /\ Alive
  /\ reading[c] = "unregistering"
  /\ clients' = clients \ {c}
  /\ closed' = closed \cup {c}
  /\ crash' = IF c \in closed THEN "close" ELSE crash
  /\ conn' = [conn EXCEPT ![c] = "closed"]
  /\ reading' = [reading EXCEPT ![c] = "done"]
  /\ UNCHANGED <<broadcast, send, writing, held, got, published, relayed, since>>

\* Mutant: the channel is left open.
UnregisterNoClose(c) ==
  /\ Alive
  /\ reading[c] = "unregistering"
  /\ clients' = clients \ {c}
  /\ conn' = [conn EXCEPT ![c] = "closed"]
  /\ reading' = [reading EXCEPT ![c] = "done"]
  /\ UNCHANGED <<broadcast, send, closed, writing, held, got, published, relayed, since, crash>>

\* A client that is still in goes, and its channel is closed.
Unregister(c) ==
  /\ Alive
  /\ reading[c] = "unregistering"
  /\ clients' = clients \ {c}
  /\ closed' = IF c \in clients THEN closed \cup {c} ELSE closed
  /\ crash' = IF c \in clients /\ c \in closed THEN "close" ELSE crash
  /\ conn' = [conn EXCEPT ![c] = "closed"]
  /\ reading' = [reading EXCEPT ![c] = "done"]
  /\ UNCHANGED <<broadcast, send, writing, held, got, published, relayed, since>>

\* Mutant: a slow client misses the envelope and stays.
RelaySkipsSlow ==
  /\ Alive
  /\ broadcast # <<>>
  /\ send' = [c \in Clients |-> IF c \in clients /\ ~Full(c)
                                THEN Append(send[c], Head(broadcast)) ELSE send[c]]
  /\ broadcast' = Tail(broadcast)
  /\ relayed' = Append(relayed, Head(broadcast))
  /\ UNCHANGED <<clients, closed, conn, reading, writing, held, got, published, since, crash>>

\* One envelope to every client; the ones with a full channel are dropped.
Relay ==
  /\ Alive
  /\ broadcast # <<>>
  /\ LET slow == {c \in clients : Full(c)}
     IN  /\ send' = [c \in Clients |-> IF c \in clients \ slow
                                       THEN Append(send[c], Head(broadcast)) ELSE send[c]]
         /\ clients' = clients \ slow
         /\ closed' = closed \cup slow
         /\ crash' = IF slow \cap closed # {} THEN "close" ELSE crash
  /\ broadcast' = Tail(broadcast)
  /\ relayed' = Append(relayed, Head(broadcast))
  /\ UNCHANGED <<conn, reading, writing, held, got, published, since>>

-----------------------------------------------------------------------------
(* The read pump. *)

\* A request of the browser is answered with SendMessage: dropped on a full
\* channel, a panic on a closed one.
Answer(c) ==
  /\ Alive
  /\ reading[c] = "reading"
  /\ IF c \in closed
     THEN crash' = "send" /\ UNCHANGED send
     ELSE /\ send' = [send EXCEPT ![c] = IF Full(c) THEN @ ELSE Append(@, Reply)]
          /\ UNCHANGED crash
  /\ UNCHANGED <<hubVars, closed, conn, reading, writing, held, got>>

\* The browser closes its side.
Leave(c) ==
  /\ Alive
  /\ conn[c] = "open"
  /\ conn' = [conn EXCEPT ![c] = "closed"]
  /\ UNCHANGED <<hubVars, send, closed, reading, writing, held, got, crash>>

\* ReadMessage fails: the pump hands the client to Run.
ReadFails(c) ==
  /\ Alive
  /\ reading[c] = "reading" /\ conn[c] = "closed"
  /\ reading' = [reading EXCEPT ![c] = "unregistering"]
  /\ UNCHANGED <<hubVars, send, closed, conn, writing, held, got, crash>>

-----------------------------------------------------------------------------
(* The write pump. *)

TakeMessage(c) ==
  /\ Alive
  /\ writing[c] = "waiting"
  /\ send[c] # <<>>
  /\ held' = [held EXCEPT ![c] = <<Head(send[c])>>]
  /\ send' = [send EXCEPT ![c] = Tail(@)]
  /\ writing' = [writing EXCEPT ![c] = "writing"]
  /\ UNCHANGED <<hubVars, closed, conn, reading, got, crash>>

\* The write succeeds on an open WebSocket.
Wrote(c) ==
  /\ Alive
  /\ writing[c] = "writing" /\ conn[c] = "open"
  /\ got' = [got EXCEPT ![c] = IF held[c] = <<Reply>> THEN @ ELSE @ \o held[c]]
  /\ held' = [held EXCEPT ![c] = <<>>]
  /\ writing' = [writing EXCEPT ![c] = "waiting"]
  /\ UNCHANGED <<hubVars, send, closed, conn, reading, crash>>

\* It fails, and the pump closes the WebSocket.
WriteFails(c) ==
  /\ Alive
  /\ writing[c] = "writing"
  /\ conn' = [conn EXCEPT ![c] = "closed"]
  /\ writing' = [writing EXCEPT ![c] = "done"]
  /\ UNCHANGED <<hubVars, send, closed, reading, held, got, crash>>

\* The channel is closed and empty: a close frame, and the WebSocket is closed.
Drained(c) ==
  /\ Alive
  /\ writing[c] = "waiting"
  /\ c \in closed /\ send[c] = <<>>
  /\ conn' = [conn EXCEPT ![c] = "closed"]
  /\ writing' = [writing EXCEPT ![c] = "done"]
  /\ UNCHANGED <<hubVars, send, closed, reading, held, got, crash>>

-----------------------------------------------------------------------------
ClientNext(c) ==
  \/ ServeWS(c) \/ Register(c) \/ Unregister(c)
  \/ Answer(c) \/ Leave(c) \/ ReadFails(c)
  \/ TakeMessage(c) \/ Wrote(c) \/ WriteFails(c) \/ Drained(c)

Next ==
  \/ BroadcastFor
  \/ Relay
  \/ \E c \in Clients : ClientNext(c)

\* The pumps are scheduled, and a read or a write on a closed WebSocket returns.
\* A client that waits for Run is served: Run's select takes one of its ready
\* cases at random.  No write to an open WebSocket is assumed to return: the code
\* sets no deadline.
Fairness ==
  \A c \in Clients :
    /\ WF_vars(Register(c))
    /\ WF_vars(Unregister(c))
    /\ WF_vars(ReadFails(c))
    /\ WF_vars(TakeMessage(c) \/ Drained(c))
    /\ WF_vars(conn[c] = "closed" /\ WriteFails(c))

Spec == Init /\ [][Next]_vars
FairSpec == Spec /\ Fairness

-----------------------------------------------------------------------------
(* Properties. *)

\* Type invariant: the hub, its channels and the two pumps of each client.
TypeOK ==
  /\ clients \subseteq Clients
  /\ broadcast \in Seq(1..MaxMessages) /\ Len(broadcast) <= BroadcastCap
  /\ send \in [Clients -> Seq(0..MaxMessages)]
  /\ closed \subseteq Clients
  /\ conn \in [Clients -> {"none", "open", "closed"}]
  /\ reading \in [Clients -> {"none", "registering", "reading", "unregistering", "done"}]
  /\ writing \in [Clients -> {"none", "waiting", "writing", "done"}]
  /\ held \in [Clients -> Seq(0..MaxMessages)]
  /\ got \in [Clients -> Seq(0..MaxMessages)]
  /\ published \in 0..MaxMessages
  /\ relayed \in Seq(1..MaxMessages)
  /\ since \in [Clients -> 0..MaxMessages]
  /\ crash \in {"no", "send", "close"}

\* What was sent to a client: received, being written, queued.
Stream(c) == got[c] \o held[c] \o send[c]

\* The places of the envelopes in a stream, among the replies.
Envelopes(s) == {i \in DOMAIN s : IsBroadcast(s[i])}

\* The envelopes of stream s are those at from+1..to of r, in order and once.
Carries(s, r, from, to) ==
  /\ \A i, j \in Envelopes(s) : i < j => s[i] < s[j]
  /\ {s[i] : i \in Envelopes(s)} = {r[k] : k \in (from + 1)..to}

\* A browser sees every envelope that Run relayed since it registered, in order
\* and once, with none left out in between; the stream of a client that is
\* dropped for being slow ends, it never has a hole (Run, the broadcast case).
\* Envelopes are relayed in the order of their numbers.
NoHoles ==
  /\ \A i, j \in DOMAIN relayed : i < j => relayed[i] < relayed[j]
  /\ \A c \in Clients : \E n \in since[c]..Len(relayed) :
       /\ Carries(Stream(c), relayed, since[c], n)
       /\ c \in clients => n = Len(relayed)

\* Run closes a channel in two places, when a browser leaves and when it is
\* slow; no channel is closed twice, and the clients that are in are the ones
\* whose channel is open.
ClosedOnce ==
  /\ crash # "close"
  /\ clients = {c \in Clients : writing[c] # "none"} \ closed

\* When its WebSocket is closed, by either side, a client's goroutines end, its
\* channel is closed and the hub forgets it.
PumpsEnd ==
  \A c \in Clients :
    conn[c] = "closed" ~> \/ /\ reading[c] = "done" /\ writing[c] = "done"
                             /\ c \notin clients
                          \/ crash # "no"

\* "a slow consumer must never stall a monitor goroutine" (websocket.go:110).
\* A panic in a read pump ends the process, the monitors with it.
SlowConsumerHarmless == crash = "no"
=============================================================================

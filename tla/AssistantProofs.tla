-------------------------- MODULE AssistantProofs --------------------------
(***************************************************************************)
(* That a turn goes into one conversation, and into it once, and that a    *)
(* page shows the conversation it names, whatever chats, deletions and     *)
(* loads overlap, for any pages, ids and bounds.                           *)
(***************************************************************************)
EXTENDS Assistant, SequenceTheorems, TLAPS

-----------------------------------------------------------------------------
(* Sequences of turns. *)

\* What a sequence contains once it has one element more.
LEMMA AppendContains ==
  ASSUME NEW S, NEW s \in Seq(S), NEW x \in S, NEW e
  PROVE  Contains(Append(s, x), e) <=> Contains(s, e) \/ e = x
  BY DEF Contains

\* It stays without repetition if the element is new to it.
LEMMA AppendUnrepeated ==
  ASSUME NEW S, NEW s \in Seq(S), NEW x \in S, IsInjective(s), ~Contains(s, x)
  PROVE  IsInjective(Append(s, x))
<1>1. \A k \in 1..Len(s) : s[k] # x
  BY DEF Contains
<1>2. QED
  BY <1>1 DEF IsInjective

\* The conversation that is not there.
LEMMA EmptyConversation ==
  /\ <<>> \in Seq(Turns) /\ IsInjective(<<>>)
  /\ \A e : ~Contains(<<>>, e)
  BY DEF Contains, IsInjective

-----------------------------------------------------------------------------
(* The inductive invariant. *)

\* A chat that has a turn to add, and one that has read the conversation.
Asks(p) == chat[p].stage \in {"asked", "running"}
Runs(p) == chat[p].stage = "running"

\* Only ids that were minted are in use, and an id not minted has no turns.
IdsInv ==
  /\ \A p \in Pages : /\ conversationId[p] \in minted \cup {None}
                      /\ chat[p].conv \in minted \cup {None}
                      /\ chat[p].stage = "answered" => chat[p].conv \in minted
  /\ \A k \in Calls : call[k] # NoCall => call[k].page \in Pages /\ call[k].conv \in minted
  /\ \A c \in Convs \ minted : stored[c] = <<>>

\* A turn under way is its chat's own, and is in no conversation yet.
TurnInv ==
  /\ \A p \in Pages : Asks(p) => chat[p].turn \in 1..sent
  /\ \A p, q \in Pages : Asks(p) /\ Asks(q) /\ p # q => chat[p].turn # chat[q].turn
  /\ \A p \in Pages, c \in Convs : Asks(p) => ~Contains(stored[c], chat[p].turn)
  /\ \A p, q \in Pages : Asks(p) /\ Runs(q) => ~Contains(chat[q].body, chat[p].turn)
  /\ \A c \in Convs, t \in Turns : Contains(stored[c], t) => t <= sent
  /\ \A p \in Pages, t \in Turns : Runs(p) /\ Contains(chat[p].body, t) => t <= sent

\* What the hub has stored, and what its chats have read to write back, keeps
\* the conversations apart.
ApartInv ==
  /\ \A c \in Convs : IsInjective(stored[c])
  /\ \A p \in Pages : Runs(p) => /\ IsInjective(chat[p].body)
                                 /\ chat[p].conv = None => chat[p].body = <<>>
  /\ \A c, d \in Convs, t \in Turns :
       c # d /\ Contains(stored[c], t) => ~Contains(stored[d], t)
  /\ \A p \in Pages, c \in Convs, t \in Turns :
       Runs(p) /\ chat[p].conv # c /\ Contains(chat[p].body, t) => ~Contains(stored[c], t)
  /\ \A p, q \in Pages, t \in Turns :
       Runs(p) /\ Runs(q) /\ chat[p].conv # chat[q].conv /\ Contains(chat[p].body, t)
         => ~Contains(chat[q].body, t)

\* The parts of TypeOK.
PagesTyped ==
  /\ shell \in [Pages -> {"hidden", "closed", "open"}]
  /\ conversationId \in [Pages -> Convs \cup {None}]
  /\ messages \in [Pages -> Seq(Turns \cup {Sent, Failed})]

CallsTyped ==
  /\ chat \in [Pages -> ChatCalls] /\ call \in [Calls -> ListCalls]
  /\ contested \subseteq Convs /\ deleted \subseteq Convs /\ misread \subseteq Convs

HubTyped ==
  /\ stored \in [Convs -> Seq(Turns)]
  /\ minted \subseteq Convs
  /\ sent \in 0..MaxTurns

Typed == PagesTyped /\ CallsTyped /\ HubTyped

Inv == Typed /\ IdsInv /\ TurnInv /\ ApartInv

\* It holds at the start, where no conversation has a turn.
LEMMA InvInit == Init => Inv
<1> SUFFICES ASSUME Init PROVE Inv
  OBVIOUS
<1> USE AssistantConstants, EmptyConversation DEF Init, Idle, NoCall
<1>1. Typed
  BY DEF Typed, PagesTyped, CallsTyped, HubTyped, ChatCalls, ListCalls, Turns
<1>2. IdsInv
  BY DEF IdsInv
<1>3. TurnInv /\ ApartInv
  BY DEF TurnInv, ApartInv, Asks, Runs
<1>4. QED
  BY <1>1, <1>2, <1>3 DEF Inv

\* What TurnInv and ApartInv speak of is the hub and the chats that ask.
LEMMA RestKeeps ==
  ASSUME TurnInv, ApartInv, UNCHANGED <<stored, sent>>,
         \A p \in Pages : chat'[p] = chat[p] \/ chat'[p].stage \notin {"asked", "running"}
  PROVE  TurnInv' /\ ApartInv'
<1>1. \A p \in Pages : /\ Asks(p)' => Asks(p) /\ chat'[p] = chat[p]
                       /\ Runs(p)' => Runs(p) /\ chat'[p] = chat[p]
  BY DEF Asks, Runs
<1>2. TurnInv'
  BY <1>1 DEF TurnInv
<1>3. ApartInv'
  BY <1>1 DEF ApartInv
<1>4. QED
  BY <1>2, <1>3

\* What a page shows stays typed.
LEMMA ShowKeeps ==
  ASSUME PagesTyped, NEW p \in Pages, NEW c \in Convs \cup {None}, NEW m \in Seq(Turns),
         ShowConversation(p, c, m), UNCHANGED shell
  PROVE  /\ PagesTyped'
         /\ conversationId'[p] = c
         /\ \A q \in Pages \ {p} : conversationId'[q] = conversationId[q]
<1>1. m \in Seq(Turns \cup {Sent, Failed})
  OBVIOUS
<1>2. QED
  BY <1>1 DEF ShowConversation, PagesTyped

\* The sidebar opens, closes and shows no conversation.
LEMMA SidebarKeeps ==
  ASSUME Inv, NEW p \in Pages, InitAIChat(p) \/ SetOpen(p) \/ NewConversation(p)
  PROVE  Inv'
<1> USE DEF Inv, Typed, hubVars, pageVars, historyVars
<1>1. CASE InitAIChat(p) \/ SetOpen(p)
  <2>1. PagesTyped' /\ UNCHANGED <<conversationId, stored, minted, sent, chat, call>>
    BY <1>1 DEF InitAIChat, SetOpen, RenderShell, PagesTyped
  <2>2. HubTyped' /\ CallsTyped'
    BY <1>1 DEF InitAIChat, SetOpen, HubTyped, CallsTyped
  <2>3. IdsInv' /\ TurnInv' /\ ApartInv'
    BY <2>1, RestKeeps DEF IdsInv
  <2>4. QED
    BY <2>1, <2>2, <2>3
<1>2. CASE NewConversation(p)
  <2>1. /\ ShowConversation(p, None, <<>>)
        /\ UNCHANGED <<shell, stored, minted, sent, chat, call, contested, deleted, misread>>
    BY <1>2 DEF NewConversation
  <2>2. PagesTyped'
    BY <2>1, ShowKeeps, EmptyConversation
  <2>3. \A q \in Pages : conversationId'[q] \in minted \cup {None}
    BY <2>1, ShowKeeps, EmptyConversation DEF IdsInv
  <2>4. IdsInv' /\ TurnInv' /\ ApartInv'
    BY <2>1, <2>3, RestKeeps DEF IdsInv
  <2>5. QED
    BY <2>1, <2>2, <2>4 DEF HubTyped, CallsTyped
<1>3. QED
  BY <1>1, <1>2

\* A call begins, goes on or ends, and the pages show conversations in use.
LEMMA CallKeeps ==
  ASSUME Inv, NEW k \in Calls, NEW r \in ListCalls, PagesTyped',
         \A q \in Pages : conversationId'[q] \in minted \cup {None},
         r # NoCall => r.page \in Pages /\ r.conv \in minted,
         call' = [call EXCEPT ![k] = r],
         UNCHANGED <<stored, minted, sent, chat, contested, deleted, misread>>
  PROVE  Inv'
<1>1. CallsTyped' /\ HubTyped'
  BY DEF Inv, Typed, CallsTyped, HubTyped
<1>2. IdsInv'
  <2>1. \A j \in Calls : call'[j] = IF j = k THEN r ELSE call[j]
    BY DEF Inv, Typed, CallsTyped
  <2>2. QED
    BY <2>1 DEF Inv, IdsInv
<1>3. TurnInv' /\ ApartInv'
  BY RestKeeps DEF Inv
<1>4. QED
  BY <1>1, <1>2, <1>3 DEF Inv, Typed

\* What is known of a call and of the pages.
LEMMA CallTyped ==
  ASSUME Inv, NEW k \in Calls
  PROVE  /\ call[k] \in ListCalls /\ NoCall \in ListCalls
         /\ call[k] # NoCall => /\ call[k].page \in Pages
                                /\ call[k].conv \in minted /\ call[k].conv \in Convs
         /\ PagesTyped /\ \A q \in Pages : conversationId[q] \in minted \cup {None}
         /\ \A d \in Convs : stored[d] \in Seq(Turns)
<1>1. NoCall \in ListCalls
  BY EmptyConversation DEF NoCall, ListCalls
<1>2. QED
  BY <1>1 DEF Inv, Typed, CallsTyped, HubTyped, IdsInv

\* A conversation is asked for or its deletion is.
LEMMA RequestKeeps ==
  ASSUME Inv, NEW k \in Calls, NEW p \in Pages, NEW c \in Convs,
         LoadConversation(k, p, c) \/ DeleteConversation(k, p, c)
  PROVE  Inv'
<1>1. PICK kind \in {"load", "delete"} :
        /\ c \in minted /\ call' = [call EXCEPT ![k] = Request(kind, p, c)]
        /\ UNCHANGED <<stored, minted, sent, shell, conversationId, messages, chat,
                       contested, deleted, misread>>
  BY DEF LoadConversation, Choose, DeleteConversation, hubVars, pageVars, historyVars
<1> DEFINE r == Request(kind, p, c)
<1>2. r \in ListCalls /\ r.page \in Pages /\ r.conv \in minted
  BY <1>1, EmptyConversation DEF ListCalls, Request
<1>3. PagesTyped'
  BY <1>1, CallTyped DEF PagesTyped
<1>4. QED
  BY <1>1, <1>2, <1>3, CallTyped, CallKeeps

\* A conversation is read and shown, a page leaves the one it deleted, or a call
\* fails.
LEMMA AnswerKeeps ==
  ASSUME Inv, NEW k \in Calls, GetConversation(k) \/ Loaded(k) \/ Deleted(k) \/ CallFails(k)
  PROVE  Inv'
<1> USE EmptyConversation DEF hubVars, pageVars, historyVars
<1>1. call[k] # NoCall
  BY DEF GetConversation, Loaded, Deleted, CallFails, NoCall
<1>2. /\ call[k] \in ListCalls /\ NoCall \in ListCalls
      /\ call[k].page \in Pages /\ call[k].conv \in minted /\ call[k].conv \in Convs
      /\ PagesTyped /\ \A q \in Pages : conversationId[q] \in minted \cup {None}
      /\ \A d \in Convs : stored[d] \in Seq(Turns)
  BY <1>1, CallTyped
<1>3. CASE GetConversation(k)
  <2> DEFINE r == [call[k] EXCEPT !.stage = IF stored[call[k].conv] = <<>> THEN "failed"
                                                                          ELSE "answered",
                                  !.body = stored[call[k].conv]]
  <2>1. /\ r \in ListCalls /\ r.page \in Pages /\ r.conv \in minted
        /\ call' = [call EXCEPT ![k] = r]
        /\ UNCHANGED <<stored, minted, sent, shell, conversationId, messages, chat,
                       contested, deleted, misread>>
    BY <1>2, <1>3 DEF GetConversation, ListCalls
  <2>2. PagesTyped'
    BY <1>2, <2>1 DEF PagesTyped
  <2>3. QED
    BY <1>2, <2>1, <2>2, CallKeeps
<1>4. CASE Loaded(k)
  <2>1. /\ call[k].body \in Seq(Turns)
        /\ ShowConversation(call[k].page, call[k].conv, call[k].body)
        /\ call' = [call EXCEPT ![k] = NoCall]
        /\ UNCHANGED <<stored, minted, sent, shell, chat, contested, deleted, misread>>
    BY <1>2, <1>4 DEF Loaded, ListCalls
  <2>2. PagesTyped' /\ \A q \in Pages : conversationId'[q] \in minted \cup {None}
    BY <1>2, <2>1, ShowKeeps
  <2>3. QED
    BY <1>2, <2>1, <2>2, CallKeeps
<1>5. CASE Deleted(k)
  <2>1. /\ \/ ShowConversation(call[k].page, None, <<>>)
           \/ UNCHANGED <<conversationId, messages>>
        /\ call' = [call EXCEPT ![k] = NoCall]
        /\ UNCHANGED <<stored, minted, sent, shell, chat, contested, deleted, misread>>
    BY <1>5 DEF Deleted
  <2>2. PagesTyped' /\ \A q \in Pages : conversationId'[q] \in minted \cup {None}
    <3>1. CASE ShowConversation(call[k].page, None, <<>>)
      <4>1. PICK p \in Pages : ShowConversation(p, None, <<>>)
        BY <1>2, <3>1
      <4>2. PagesTyped /\ UNCHANGED shell /\ <<>> \in Seq(Turns) /\ None \in Convs \cup {None}
        BY <1>2, <2>1
      <4>3. PagesTyped' /\ \A q \in Pages : conversationId'[q] \in {None, conversationId[q]}
        BY <4>1, <4>2, ShowKeeps
      <4>4. QED
        BY <1>2, <4>3
    <3>2. CASE UNCHANGED <<conversationId, messages>>
      BY <1>2, <2>1, <3>2 DEF PagesTyped
    <3>3. QED
      BY <2>1, <3>1, <3>2
  <2>3. QED
    BY <1>2, <2>1, <2>2, CallKeeps
<1>6. CASE CallFails(k)
  <2>1. /\ call' = [call EXCEPT ![k] = NoCall]
        /\ UNCHANGED <<stored, minted, sent, shell, conversationId, messages, chat,
                       contested, deleted, misread>>
    BY <1>6 DEF CallFails
  <2>2. PagesTyped'
    BY <1>2, <2>1 DEF PagesTyped
  <2>3. QED
    BY <1>2, <2>1, <2>2, CallKeeps
<1>7. QED
  BY <1>3, <1>4, <1>5, <1>6

\* The hub deletes a conversation.
LEMMA HubDeletesKeeps ==
  ASSUME Inv, NEW k \in Calls, HubDeletes(k)
  PROVE  Inv'
<1> DEFINE c == call[k].conv
<1> DEFINE d == [call[k] EXCEPT !.stage = "answered"]
<1> USE EmptyConversation
<1>1. /\ c \in Convs /\ c \in minted
      /\ d \in ListCalls /\ d.page \in Pages /\ d.conv = c
  <2>1. call[k] # NoCall
    BY DEF HubDeletes, NoCall
  <2>2. QED
    BY <2>1, CallTyped DEF ListCalls
<1>2. /\ stored' = [stored EXCEPT ![c] = <<>>]
      /\ call' = [call EXCEPT ![k] = d]
      /\ deleted' = deleted \cup {c}
      /\ UNCHANGED <<minted, sent, shell, conversationId, messages, chat, contested, misread>>
  BY DEF HubDeletes, pageVars
<1>3. Typed'
  <2>1. PagesTyped' /\ HubTyped'
    BY <1>1, <1>2 DEF Inv, Typed, PagesTyped, HubTyped
  <2>2. CallsTyped'
    BY <1>1, <1>2 DEF Inv, Typed, CallsTyped
  <2>3. QED
    BY <2>1, <2>2 DEF Typed
<1>4. \A x \in Convs : stored'[x] = stored[x] \/ stored'[x] = <<>>
  BY <1>2 DEF Inv, Typed, HubTyped
<1>5. IdsInv'
  <2>1. \A j \in Calls : call'[j] = IF j = k THEN d ELSE call[j]
    BY <1>2 DEF Inv, Typed, CallsTyped
  <2>2. QED
    BY <1>1, <1>2, <1>4, <2>1 DEF Inv, IdsInv
<1>6. TurnInv'
  BY <1>2, <1>4 DEF Inv, TurnInv, Asks, Runs
<1>7. ApartInv'
  BY <1>2, <1>4 DEF Inv, ApartInv, Runs
<1>8. QED
  BY <1>3, <1>5, <1>6, <1>7 DEF Inv

-----------------------------------------------------------------------------
(* A message and its answer. *)

\* A chat fails, or its page has been answered.
LEMMA ChatEnds ==
  ASSUME Inv, NEW p \in Pages, ChatFails(p) \/ ShowAnswer(p) \/ ShowError(p)
  PROVE  Inv'
<1> USE AssistantConstants, EmptyConversation DEF hubVars, pageVars, historyVars
<1>1. /\ chat[p] \in ChatCalls /\ Idle \in ChatCalls
      /\ chat[p].conv \in minted \cup {None}
      /\ \A q \in Pages : conversationId[q] \in minted \cup {None}
      /\ PagesTyped
  BY DEF Inv, Typed, CallsTyped, IdsInv, ChatCalls, Idle
<1>2. PICK r \in ChatCalls : /\ chat' = [chat EXCEPT ![p] = r]
                        /\ r.stage \in {"idle", "failed"} /\ r.conv \in minted \cup {None}
  <2>1. CASE ChatFails(p)
    <3> DEFINE r == [chat[p] EXCEPT !.stage = "failed"]
    <3>1. chat' = [chat EXCEPT ![p] = r]
      BY <2>1 DEF ChatFails
    <3>2. r \in ChatCalls /\ r.stage = "failed" /\ r.conv = chat[p].conv
      BY <1>1 DEF ChatCalls
    <3>3. QED
      BY <1>1, <3>1, <3>2
  <2>2. CASE ShowAnswer(p) \/ ShowError(p)
    BY <1>1, <2>2 DEF ShowAnswer, ShowError, Idle
  <2>3. QED
    BY <2>1, <2>2
<1>3. \A q \in Pages : chat'[q] = IF q = p THEN r ELSE chat[q]
  BY <1>2 DEF Inv, Typed, CallsTyped
<1>4. UNCHANGED <<stored, minted, sent, shell, call, contested, deleted, misread>>
  BY DEF ChatFails, ShowAnswer, ShowError
<1>5. PagesTyped' /\ \A q \in Pages : conversationId'[q] \in minted \cup {None}
  <2>1. CASE ChatFails(p)
    BY <1>1, <2>1 DEF ChatFails, PagesTyped
  <2>2. CASE ShowAnswer(p)
    <3>1. /\ chat[p].body \in Seq(Turns) /\ chat[p].conv \in minted
          /\ chat[p].conv \in Convs \cup {None}
      BY <1>1, <2>2 DEF ShowAnswer, ChatCalls, Inv, IdsInv
    <3>2. QED
      BY <1>1, <1>4, <2>2, <3>1, ShowKeeps DEF ShowAnswer
  <2>3. CASE ShowError(p)
    <3>1. /\ messages' = [messages EXCEPT ![p] = Append(@, Failed)]
          /\ UNCHANGED <<conversationId, shell>>
      BY <2>3 DEF ShowError, PushMessage
    <3>2. QED
      BY <1>1, <3>1 DEF PagesTyped
  <2>4. QED
    BY <2>1, <2>2, <2>3
<1>6. CallsTyped' /\ HubTyped'
  BY <1>2, <1>4 DEF Inv, Typed, CallsTyped, HubTyped
<1>7. IdsInv'
  BY <1>2, <1>3, <1>4, <1>5 DEF Inv, IdsInv
<1>8. TurnInv' /\ ApartInv'
  <2>1. \A q \in Pages : chat'[q] = chat[q] \/ chat'[q].stage \notin {"asked", "running"}
    BY <1>2, <1>3
  <2>2. QED
    BY <1>4, <2>1, RestKeeps DEF Inv
<1>9. QED
  BY <1>5, <1>6, <1>7, <1>8 DEF Inv, Typed

\* A message is sent: its turn is new.
LEMMA SendKeeps ==
  ASSUME Inv, NEW p \in Pages, SendMessage(p)
  PROVE  Inv'
<1> DEFINE r == Ask(conversationId[p], sent + 1)
<1> USE AssistantConstants, EmptyConversation
<1>1. /\ sent < MaxTurns /\ sent' = sent + 1
      /\ messages' = [messages EXCEPT ![p] = Append(@, Sent)]
      /\ chat' = [chat EXCEPT ![p] = r]
      /\ UNCHANGED <<stored, minted, shell, conversationId, call, contested, deleted, misread>>
  BY DEF SendMessage, PushMessage, hubVars, historyVars
<1>2. /\ conversationId[p] \in Convs \cup {None} /\ conversationId[p] \in minted \cup {None}
      /\ sent \in Nat /\ MaxTurns \in Nat /\ sent + 1 \in 0..MaxTurns
  BY <1>1 DEF Inv, Typed, PagesTyped, HubTyped, IdsInv
<1>3. /\ r \in ChatCalls /\ r.stage = "asked" /\ r.turn = sent + 1
      /\ r.conv \in minted \cup {None}
  BY <1>2 DEF Ask, ChatCalls
<1>4. \A q \in Pages : chat'[q] = IF q = p THEN r ELSE chat[q]
  BY <1>1 DEF Inv, Typed, CallsTyped
<1>5. Typed'
  <2>1. PagesTyped'
    BY <1>1 DEF Inv, Typed, PagesTyped
  <2>2. CallsTyped'
    BY <1>1, <1>3 DEF Inv, Typed, CallsTyped
  <2>3. HubTyped'
    BY <1>1, <1>2 DEF Inv, Typed, HubTyped
  <2>4. QED
    BY <2>1, <2>2, <2>3 DEF Typed
<1>6. IdsInv'
  BY <1>1, <1>3, <1>4 DEF Inv, IdsInv
<1>7. \A q \in Pages : /\ Runs(q)' => q # p /\ Runs(q) /\ chat'[q] = chat[q]
                       /\ Asks(q)' => q = p \/ (Asks(q) /\ chat'[q] = chat[q])
  BY <1>3, <1>4 DEF Asks, Runs
<1>8. TurnInv'
  <2>1. sent + 1 \in Turns
    BY <1>1, <1>2 DEF Turns
  <2>2. /\ \A c \in Convs : ~Contains(stored[c], sent + 1)
        /\ \A q \in Pages : Runs(q) => ~Contains(chat[q].body, sent + 1)
        /\ \A q \in Pages : Asks(q) => chat[q].turn \in 1..sent
    BY <1>2, <2>1 DEF Inv, TurnInv
  <2>3. /\ \A q \in Pages : Asks(q)' => chat'[q].turn \in 1..sent'
        /\ \A q1, q2 \in Pages :
             Asks(q1)' /\ Asks(q2)' /\ q1 # q2 => chat'[q1].turn # chat'[q2].turn
    BY <1>1, <1>2, <1>3, <1>4, <1>7, <2>2 DEF Inv, TurnInv
  <2>4. /\ \A q \in Pages, c \in Convs : Asks(q)' => ~Contains(stored'[c], chat'[q].turn)
        /\ \A q1, q2 \in Pages : Asks(q1)' /\ Runs(q2)' => ~Contains(chat'[q2].body, chat'[q1].turn)
    BY <1>1, <1>3, <1>4, <1>7, <2>2 DEF Inv, TurnInv
  <2>5. /\ \A c \in Convs, t \in Turns : Contains(stored'[c], t) => t <= sent'
        /\ \A q \in Pages, t \in Turns : Runs(q)' /\ Contains(chat'[q].body, t) => t <= sent'
    BY <1>1, <1>2, <1>7 DEF Inv, TurnInv, Turns
  <2>6. QED
    BY <2>3, <2>4, <2>5 DEF TurnInv
<1>9. ApartInv'
  BY <1>1, <1>7 DEF Inv, ApartInv
<1>10. QED
  BY <1>5, <1>6, <1>8, <1>9 DEF Inv

\* The hub reads the conversation a chat is about.
LEMMA StartKeeps ==
  ASSUME Inv, NEW p \in Pages, NEW ok \in BOOLEAN, ChatStarts(p, ok)
  PROVE  Inv'
<1> DEFINE c == chat[p].conv
<1> DEFINE b == IF c # None /\ stored[c] # <<>> /\ ok THEN stored[c] ELSE <<>>
<1> DEFINE r == [chat[p] EXCEPT !.stage = "running", !.body = b]
<1> USE AssistantConstants, EmptyConversation
<1>1. /\ chat[p].stage = "asked"
      /\ chat' = [chat EXCEPT ![p] = r]
      /\ contested' = contested \/ (c # None /\ contested' = contested \cup {c})
      /\ misread' = misread \/ (c # None /\ misread' = misread \cup {c})
      /\ UNCHANGED <<stored, minted, sent, shell, conversationId, messages, call, deleted>>
  BY DEF ChatStarts, hubVars, pageVars
<1>2. /\ chat[p] \in ChatCalls /\ c \in Convs \cup {None} /\ c \in minted \cup {None}
      /\ b \in Seq(Turns)
  BY DEF Inv, Typed, CallsTyped, HubTyped, IdsInv, ChatCalls
<1>3. /\ r \in ChatCalls /\ r.stage = "running" /\ r.turn = chat[p].turn
      /\ r.conv = c /\ r.body = b
  BY <1>2 DEF ChatCalls
<1>4. \A q \in Pages : chat'[q] = IF q = p THEN r ELSE chat[q]
  BY <1>1 DEF Inv, Typed, CallsTyped
<1>5. Typed'
  <2>1. PagesTyped' /\ HubTyped'
    BY <1>1 DEF Inv, Typed, PagesTyped, HubTyped
  <2>2. CallsTyped'
    BY <1>1, <1>2, <1>3 DEF Inv, Typed, CallsTyped
  <2>3. QED
    BY <2>1, <2>2 DEF Typed
<1>6. IdsInv'
  BY <1>1, <1>2, <1>3, <1>4 DEF Inv, IdsInv
<1>7. /\ Asks(p)
      /\ \A q \in Pages : /\ Asks(q)' => Asks(q) /\ chat'[q].turn = chat[q].turn
                          /\ chat'[q].conv = chat[q].conv
                          /\ Runs(q)' => q = p \/ (Runs(q) /\ chat'[q] = chat[q])
  BY <1>1, <1>3, <1>4 DEF Asks, Runs
<1>8. b = <<>> \/ (c \in Convs /\ b = stored[c])
  BY <1>2
<1>9. TurnInv'
  <2>1. /\ \A q \in Pages : Asks(q) => ~Contains(b, chat[q].turn)
        /\ \A t \in Turns : Contains(b, t) => t <= sent
    <3>1. CASE b = <<>>
      BY <3>1
    <3>2. CASE c \in Convs /\ b = stored[c]
      BY <3>2 DEF Inv, TurnInv
    <3>3. QED
      BY <1>8, <3>1, <3>2
  <2>2. chat'[p].body = b
    BY <1>3, <1>4
  <2>3. /\ \A q \in Pages : Asks(q)' => chat'[q].turn \in 1..sent'
        /\ \A q1, q2 \in Pages :
             Asks(q1)' /\ Asks(q2)' /\ q1 # q2 => chat'[q1].turn # chat'[q2].turn
        /\ \A q \in Pages, d \in Convs : Asks(q)' => ~Contains(stored'[d], chat'[q].turn)
        /\ \A d \in Convs, t \in Turns : Contains(stored'[d], t) => t <= sent'
    BY <1>1, <1>7 DEF Inv, TurnInv
  <2>4. \A q1, q2 \in Pages :
          Asks(q1)' /\ Runs(q2)' => ~Contains(chat'[q2].body, chat'[q1].turn)
    BY <1>7, <2>1, <2>2 DEF Inv, TurnInv
  <2>5. \A q \in Pages, t \in Turns : Runs(q)' /\ Contains(chat'[q].body, t) => t <= sent'
    BY <1>1, <1>7, <2>1, <2>2 DEF Inv, TurnInv
  <2>6. QED
    BY <2>3, <2>4, <2>5 DEF TurnInv
<1>10. ApartInv'
  <2>1. /\ IsInjective(b) /\ (c = None => b = <<>>)
        /\ \A d \in Convs, t \in Turns : c # d /\ Contains(b, t) => ~Contains(stored[d], t)
        /\ \A q \in Pages, t \in Turns :
             Runs(q) /\ chat[q].conv # c /\ Contains(chat[q].body, t) => ~Contains(b, t)
    <3>1. CASE b = <<>>
      BY <3>1
    <3>2. CASE c \in Convs /\ b = stored[c]
      BY <3>2, AssistantConstants DEF Inv, ApartInv
    <3>3. QED
      BY <1>8, <3>1, <3>2
  <2>2. /\ \A d \in Convs : IsInjective(stored'[d])
        /\ \A d, e \in Convs, t \in Turns :
             d # e /\ Contains(stored'[d], t) => ~Contains(stored'[e], t)
    BY <1>1 DEF Inv, ApartInv
  <2>3. chat'[p].conv = c /\ chat'[p].body = b
    BY <1>3, <1>4
  <2>4. ASSUME NEW q \in Pages, Runs(q)'
        PROVE  /\ IsInjective(chat'[q].body)
               /\ chat'[q].conv = None => chat'[q].body = <<>>
               /\ \A d \in Convs, t \in Turns :
                    chat'[q].conv # d /\ Contains(chat'[q].body, t) => ~Contains(stored'[d], t)
    <3>1. CASE q = p
      BY <1>1, <2>1, <2>3, <3>1
    <3>2. CASE q # p
      <4>1. Runs(q) /\ chat'[q] = chat[q]
        BY <1>7, <2>4, <3>2
      <4>2. QED
        BY <1>1, <4>1 DEF Inv, ApartInv
    <3>3. QED
      BY <3>1, <3>2
  <2>5. ASSUME NEW q1 \in Pages, NEW q2 \in Pages, NEW t \in Turns, Runs(q1)', Runs(q2)',
               chat'[q1].conv # chat'[q2].conv, Contains(chat'[q1].body, t)
        PROVE  ~Contains(chat'[q2].body, t)
    <3>1. CASE q1 # p /\ q2 # p
      <4>1. Runs(q1) /\ Runs(q2) /\ chat'[q1] = chat[q1] /\ chat'[q2] = chat[q2]
        BY <1>7, <2>5, <3>1
      <4>2. QED
        BY <2>5, <4>1 DEF Inv, ApartInv
    <3>2. CASE q1 # p /\ q2 = p
      <4>1. Runs(q1) /\ chat'[q1] = chat[q1]
        BY <1>7, <2>5, <3>2
      <4>2. QED
        BY <2>1, <2>3, <2>5, <3>2, <4>1
    <3>3. CASE q1 = p /\ q2 # p
      <4>1. Runs(q2) /\ chat'[q2] = chat[q2]
        BY <1>7, <2>5, <3>3
      <4>2. QED
        BY <2>1, <2>3, <2>5, <3>3, <4>1
    <3>4. QED
      BY <2>5, <3>1, <3>2, <3>3
  <2>6. QED
    BY <2>2, <2>4, <2>5 DEF ApartInv
<1>11. QED
  BY <1>5, <1>6, <1>9, <1>10 DEF Inv

\* The hub writes the conversation back, with the turn of the chat.
LEMMA SaveKeeps ==
  ASSUME Inv, NEW p \in Pages, NEW c \in Convs, SaveConversation(p, c)
  PROVE  Inv'
<1> DEFINE b == chat[p].body
<1> DEFINE u == chat[p].turn
<1> DEFINE w == Append(b, u)
<1> DEFINE r == [chat[p] EXCEPT !.stage = "answered", !.conv = c, !.body = w]
<1> USE AssistantConstants, EmptyConversation
<1>1. /\ chat[p].stage = "running" /\ SavedUnder(chat[p].conv, c)
      /\ stored' = [stored EXCEPT ![c] = w]
      /\ chat' = [chat EXCEPT ![p] = r]
      /\ minted' = minted \cup {c}
      /\ UNCHANGED <<sent, shell, conversationId, messages, call, contested, deleted, misread>>
  BY DEF SaveConversation, WithTurn, pageVars, historyVars
<1>2. Runs(p) /\ Asks(p)
  BY <1>1 DEF Runs, Asks
<1>3. /\ chat[p] \in ChatCalls /\ b \in Seq(Turns) /\ sent \in 0..MaxTurns
      /\ u \in 1..sent /\ u \in Turns /\ w \in Seq(Turns)
  <2>1. chat[p] \in ChatCalls /\ sent \in 0..MaxTurns /\ u \in 1..sent
    BY <1>2 DEF Inv, Typed, CallsTyped, HubTyped, TurnInv
  <2>2. b \in Seq(Turns) /\ u \in Turns
    BY <2>1 DEF ChatCalls, Turns
  <2>3. QED
    BY <2>1, <2>2
<1>4. r \in ChatCalls /\ r.stage = "answered" /\ r.conv = c
  BY <1>3 DEF ChatCalls
<1>5. /\ \A q \in Pages : chat'[q] = IF q = p THEN r ELSE chat[q]
      /\ stored'[c] = w /\ \A d \in Convs \ {c} : stored'[d] = stored[d]
  BY <1>1 DEF Inv, Typed, CallsTyped, HubTyped
<1>6. \A q \in Pages : /\ Asks(q)' => q # p /\ Asks(q) /\ chat'[q] = chat[q]
                       /\ Runs(q)' => q # p /\ Runs(q) /\ chat'[q] = chat[q]
  BY <1>4, <1>5 DEF Asks, Runs
<1>7. IsInjective(w) /\ \A t : Contains(w, t) <=> Contains(b, t) \/ t = u
  <2>1. IsInjective(b) /\ ~Contains(b, u)
    BY <1>2 DEF Inv, TurnInv, ApartInv
  <2>2. QED
    BY <1>3, <2>1, AppendContains, AppendUnrepeated
<1>8. Typed'
  <2>1. PagesTyped'
    BY <1>1 DEF Inv, Typed, PagesTyped
  <2>2. CallsTyped'
    BY <1>1, <1>4 DEF Inv, Typed, CallsTyped
  <2>3. HubTyped'
    BY <1>1, <1>3 DEF Inv, Typed, HubTyped
  <2>4. QED
    BY <2>1, <2>2, <2>3 DEF Typed
<1>9. IdsInv'
  BY <1>1, <1>4, <1>5 DEF Inv, IdsInv
<1>10. /\ chat[p].conv = c \/ (chat[p].conv = None /\ b = <<>>)
       /\ chat[p].conv # c => \A t : ~Contains(b, t)
  BY <1>1, <1>2 DEF SavedUnder, Inv, ApartInv
<1>11. TurnInv'
  <2>1. /\ \A q \in Pages : Asks(q)' => chat'[q].turn \in 1..sent'
        /\ \A q1, q2 \in Pages :
             Asks(q1)' /\ Asks(q2)' /\ q1 # q2 => chat'[q1].turn # chat'[q2].turn
        /\ \A q1, q2 \in Pages :
             Asks(q1)' /\ Runs(q2)' => ~Contains(chat'[q2].body, chat'[q1].turn)
        /\ \A q \in Pages, t \in Turns : Runs(q)' /\ Contains(chat'[q].body, t) => t <= sent'
    BY <1>1, <1>6 DEF Inv, TurnInv
  <2>2. ASSUME NEW q \in Pages, NEW d \in Convs, Asks(q)'
        PROVE  ~Contains(stored'[d], chat'[q].turn)
    <3>1. q # p /\ Asks(q) /\ chat'[q] = chat[q]
      BY <1>6, <2>2
    <3>2. ~Contains(w, chat[q].turn)
      BY <1>2, <1>7, <3>1 DEF Inv, TurnInv
    <3>3. ~Contains(stored[d], chat[q].turn)
      BY <3>1 DEF Inv, TurnInv
    <3>4. QED
      BY <1>5, <3>1, <3>2, <3>3
  <2>3. ASSUME NEW d \in Convs, NEW t \in Turns, Contains(stored'[d], t)
        PROVE  t <= sent'
    <3>1. CASE d = c
      <4>1. Contains(b, t) \/ t = u
        BY <1>5, <1>7, <2>3, <3>1
      <4>2. QED
        BY <1>1, <1>2, <1>3, <4>1 DEF Inv, TurnInv
    <3>2. CASE d # c
      BY <1>1, <1>5, <2>3, <3>2 DEF Inv, TurnInv
    <3>3. QED
      BY <3>1, <3>2
  <2>4. QED
    BY <2>1, <2>2, <2>3 DEF TurnInv
<1>12. ApartInv'
  <2>1. \A d \in Convs : IsInjective(stored'[d])
    BY <1>5, <1>7 DEF Inv, ApartInv
  <2>2. \A q \in Pages : Runs(q)' => /\ IsInjective(chat'[q].body)
                                     /\ chat'[q].conv = None => chat'[q].body = <<>>
    BY <1>6 DEF Inv, ApartInv
  <2>3. \A d \in Convs \ {c}, t \in Turns : Contains(w, t) => ~Contains(stored[d], t)
    <3>1. \A d \in Convs \ {c}, t \in Turns : Contains(b, t) => ~Contains(stored[d], t)
      BY <1>2, <1>10 DEF Inv, ApartInv
    <3>2. \A d \in Convs : ~Contains(stored[d], u)
      BY <1>2 DEF Inv, TurnInv
    <3>3. QED
      BY <1>7, <3>1, <3>2
  <2>4. ASSUME NEW d \in Convs, NEW e \in Convs, NEW t \in Turns, d # e,
               Contains(stored'[d], t)
        PROVE  ~Contains(stored'[e], t)
    <3>1. CASE d = c
      BY <1>5, <2>3, <2>4, <3>1
    <3>2. CASE e = c
      BY <1>5, <2>3, <2>4, <3>2
    <3>3. CASE d # c /\ e # c
      BY <1>5, <2>4, <3>3 DEF Inv, ApartInv
    <3>4. QED
      BY <3>1, <3>2, <3>3
  <2>5. ASSUME NEW q \in Pages, NEW d \in Convs, NEW t \in Turns, Runs(q)',
               chat'[q].conv # d, Contains(chat'[q].body, t)
        PROVE  ~Contains(stored'[d], t)
    <3>1. q # p /\ Runs(q) /\ chat'[q] = chat[q]
      BY <1>6, <2>5
    <3>2. CASE d # c
      BY <1>5, <2>5, <3>1, <3>2 DEF Inv, ApartInv
    <3>3. CASE d = c
      <4>1. t # u
        BY <1>2, <2>5, <3>1 DEF Inv, TurnInv
      <4>2. ~Contains(b, t)
        <5>1. CASE chat[p].conv = c
          BY <1>2, <2>5, <3>1, <3>3, <5>1 DEF Inv, ApartInv
        <5>2. QED
          BY <1>10, <5>1
      <4>3. QED
        BY <1>5, <1>7, <3>3, <4>1, <4>2
    <3>4. QED
      BY <3>2, <3>3
  <2>6. \A q1, q2 \in Pages, t \in Turns :
          Runs(q1)' /\ Runs(q2)' /\ chat'[q1].conv # chat'[q2].conv
            /\ Contains(chat'[q1].body, t)
            => ~Contains(chat'[q2].body, t)
    BY <1>6 DEF Inv, ApartInv
  <2>7. QED
    BY <2>1, <2>2, <2>4, <2>5, <2>6 DEF ApartInv
<1>13. QED
  BY <1>8, <1>9, <1>11, <1>12 DEF Inv

-----------------------------------------------------------------------------
(* What the pages show. *)

\* Conversations in which no two chats ran at once, that were not deleted, and
\* that every chat could read.
Settled == Convs \ (contested \cup deleted \cup misread)

\* s is the beginning of t.
Begins(s, t) == Len(s) <= Len(t) /\ \A i \in 1..Len(s) : s[i] = t[i]

\* The messages of a page are of its conversation, and a page without one has
\* no turn.
ShownInv ==
  \A p \in Pages :
    /\ conversationId[p] = None => Shows(messages[p], <<>>)
    /\ conversationId[p] \in Settled => Shows(messages[p], stored[conversationId[p]])

\* A chat that runs has the conversation as it is, and runs alone.
RunsInv ==
  \A p \in Pages : Runs(p) /\ chat[p].conv \in Settled =>
    /\ chat[p].body = stored[chat[p].conv]
    /\ \A q \in Pages \ {p} : ~(Runs(q) /\ chat[q].conv = chat[p].conv)

\* An answer on its way to a page is the beginning of a conversation.
AnswerInv ==
  /\ \A p \in Pages : chat[p].stage = "answered" /\ chat[p].conv \in Settled
                        => Begins(chat[p].body, stored[chat[p].conv])
  /\ \A k \in Calls : call[k].kind = "load" /\ call[k].stage = "answered" /\ call[k].conv \in Settled
                        => Begins(call[k].body, stored[call[k].conv])

ViewInv == ShownInv /\ RunsInv /\ AnswerInv

LEMMA NothingShown == \A s \in Seq(Turns) : Shows(<<>>, s)
<1> TAKE s \in Seq(Turns)
<1>1. Len(s) \in Nat /\ Len(<<>>) = 0
  BY LenProperties
<1>2. QED
  BY <1>1 DEF Shows

LEMMA BeginningShown ==
  ASSUME NEW m \in Seq(Turns), NEW s \in Seq(Turns), Begins(m, s)
  PROVE  Shows(m, s)
<1>1. Len(m) \in Nat
  BY LenProperties
<1>2. Len(m) \in 0..Len(m) /\ (Len(m) + 1)..Len(m) = {}
  BY <1>1
<1>3. QED
  BY <1>2 DEF Shows, Begins

\* A message of the page's own comes after the turns it shows.
LEMMA PushShown ==
  ASSUME NEW m \in Seq(Turns \cup {Sent, Failed}), NEW s, NEW x \in {Sent, Failed}, Shows(m, s)
  PROVE  Shows(Append(m, x), s)
<1>1. /\ Len(Append(m, x)) = Len(m) + 1 /\ Len(m) \in Nat
      /\ \A i \in 1..Len(m) : Append(m, x)[i] = m[i]
      /\ Append(m, x)[Len(m) + 1] = x
  BY AppendProperties, LenProperties
<1>2. PICK n \in 0..Len(m) : /\ n <= Len(s) /\ \A i \in 1..n : m[i] = s[i]
                             /\ \A i \in (n + 1)..Len(m) : m[i] \notin Turns
  BY DEF Shows
<1>3. \A i \in 1..n : Append(m, x)[i] = s[i]
  BY <1>1, <1>2
<1>4. \A i \in (n + 1)..(Len(m) + 1) : Append(m, x)[i] \notin Turns
  <2> TAKE i \in (n + 1)..(Len(m) + 1)
  <2>1. CASE i \in (n + 1)..Len(m)
    BY <1>1, <1>2, <2>1
  <2>2. CASE i = Len(m) + 1
    BY <1>1, <2>2, AssistantConstants
  <2>3. QED
    BY <1>1, <2>1, <2>2
<1>5. n \in 0..Len(Append(m, x))
  BY <1>1
<1>6. QED
  BY <1>1, <1>2, <1>3, <1>4, <1>5 DEF Shows

\* What is a beginning stays one when the conversation grows.
LEMMA BeginningGrows ==
  ASSUME NEW m \in Seq(Turns), NEW s \in Seq(Turns), NEW t \in Seq(Turns), Begins(m, s), Begins(s, t)
  PROVE  Begins(m, t)
<1>1. Len(m) \in Nat /\ Len(s) \in Nat /\ Len(t) \in Nat
  BY LenProperties
<1>2. QED
  BY <1>1 DEF Begins

LEMMA ShownGrows ==
  ASSUME NEW m, NEW s \in Seq(Turns), NEW t \in Seq(Turns), Shows(m, s), Begins(s, t)
  PROVE  Shows(m, t)
<1>1. Len(s) \in Nat /\ Len(t) \in Nat
  BY LenProperties
<1>2. PICK n \in 0..Len(m) : /\ n <= Len(s) /\ \A i \in 1..n : m[i] = s[i]
                             /\ \A i \in (n + 1)..Len(m) : m[i] \notin Turns
  BY DEF Shows
<1>3. n <= Len(t) /\ \A i \in 1..n : m[i] = t[i]
  BY <1>1, <1>2 DEF Begins
<1>4. QED
  BY <1>2, <1>3 DEF Shows

LEMMA BeginsItself == \A s \in Seq(Turns) : Begins(s, s)
<1> TAKE s \in Seq(Turns)
<1>1. Len(s) \in Nat
  BY LenProperties
<1>2. QED
  BY <1>1 DEF Begins

LEMMA BeginsLonger ==
  ASSUME NEW s \in Seq(Turns), NEW x \in Turns
  PROVE  Begins(s, Append(s, x))
<1>1. Len(Append(s, x)) = Len(s) + 1 /\ Len(s) \in Nat /\ \A i \in 1..Len(s) : Append(s, x)[i] = s[i]
  BY AppendProperties, LenProperties
<1>2. QED
  BY <1>1 DEF Begins

\* The types the steps below need.
LEMMA ViewTyped ==
  ASSUME Inv
  PROVE  /\ \A c \in Convs : stored[c] \in Seq(Turns)
         /\ Settled \subseteq Convs /\ None \notin Convs
         /\ \A k \in Calls : call[k] \in ListCalls /\ call[k].body \in Seq(Turns)
         /\ \A p \in Pages : /\ chat[p] \in ChatCalls /\ chat[p].body \in Seq(Turns)
                             /\ messages[p] \in Seq(Turns \cup {Sent, Failed})
                             /\ conversationId[p] \in Convs \cup {None}
  BY AssistantConstants DEF Inv, Typed, PagesTyped, CallsTyped, HubTyped, Settled, ChatCalls, ListCalls

LEMMA ViewInit == Init => ViewInv
<1> SUFFICES ASSUME Init PROVE ViewInv
  OBVIOUS
<1>1. /\ \A p \in Pages : chat[p].stage = "idle" /\ conversationId[p] = None /\ messages[p] = <<>>
      /\ \A k \in Calls : call[k].stage = "idle"
  BY DEF Init, Idle, NoCall
<1>2. None \notin Settled
  BY AssistantConstants DEF Settled
<1>3. QED
  BY <1>1, <1>2, NothingShown, EmptyConversation DEF ViewInv, ShownInv, RunsInv, AnswerInv, Runs

\* A step that leaves the conversations alone keeps ViewInv when every page
\* shows what it showed, or a conversation it may show, and every answer is the
\* one there was, or of a conversation as it is stored.
LEMMA SameStore ==
  ASSUME Inv, ViewInv, stored' = stored, Settled' \subseteq Settled,
         \A p \in Pages :
           \/ UNCHANGED <<conversationId[p], messages[p]>>
           \/ /\ conversationId'[p] = None => Shows(messages'[p], <<>>)
              /\ conversationId'[p] \in Settled
                   => Shows(messages'[p], stored[conversationId'[p]]),
         \A p \in Pages : \/ UNCHANGED chat[p]
                          \/ chat'[p].stage \notin {"running", "answered"},
         \A k \in Calls : \/ UNCHANGED call[k]
                          \/ ~(call'[k].kind = "load" /\ call'[k].stage = "answered")
                          \/ call'[k].body = stored[call'[k].conv]
  PROVE  ViewInv'
<1>1. ShownInv'
  BY DEF ViewInv, ShownInv
<1>2. RunsInv'
  <2>1. \A p \in Pages : Runs(p)' => Runs(p) /\ chat'[p] = chat[p]
    BY DEF Runs
  <2>2. QED
    BY <2>1 DEF ViewInv, RunsInv
<1>3. AnswerInv'
  <2>1. \A p \in Pages : chat'[p].stage = "answered" /\ chat'[p].conv \in Settled'
                            => Begins(chat'[p].body, stored[chat'[p].conv])
    BY DEF ViewInv, AnswerInv
  <2>2. ASSUME NEW k \in Calls, call'[k].kind = "load", call'[k].stage = "answered",
               call'[k].conv \in Settled'
        PROVE  Begins(call'[k].body, stored[call'[k].conv])
    <3>1. CASE call'[k] = call[k]
      BY <2>2, <3>1 DEF ViewInv, AnswerInv
    <3>2. CASE call'[k].body = stored[call'[k].conv]
      BY <2>2, <3>2, ViewTyped, BeginsItself
    <3>3. QED
      BY <2>2, <3>1, <3>2
  <2>3. QED
    BY <2>1, <2>2 DEF AnswerInv, Begins
<1>4. QED
  BY <1>1, <1>2, <1>3 DEF ViewInv

LEMMA SidebarView ==
  ASSUME Inv, ViewInv, NEW p \in Pages, InitAIChat(p) \/ SetOpen(p) \/ NewConversation(p)
  PROVE  ViewInv'
<1>1. UNCHANGED <<stored, contested, deleted, misread, chat, call>>
  BY DEF InitAIChat, SetOpen, NewConversation, hubVars, historyVars
<1>2. Settled' = Settled
  BY <1>1 DEF Settled
<1>3. \A q \in Pages : \/ UNCHANGED <<conversationId[q], messages[q]>>
                       \/ conversationId'[q] = None /\ messages'[q] = <<>>
  BY DEF InitAIChat, SetOpen, NewConversation, ShowConversation, pageVars, Inv, Typed, PagesTyped
<1>4. QED
  BY <1>1, <1>2, <1>3, SameStore, NothingShown, EmptyConversation, ViewTyped

\* A message is sent, or an error is shown: the page shows one message more.
LEMMA PushView ==
  ASSUME Inv, ViewInv, NEW p \in Pages, SendMessage(p) \/ ShowError(p)
  PROVE  ViewInv'
<1>1. UNCHANGED <<stored, contested, deleted, misread, call>>
  BY DEF SendMessage, ShowError, hubVars, historyVars
<1>2. Settled' = Settled
  BY <1>1 DEF Settled
<1>3. PICK x \in {Sent, Failed} : PushMessage(p, x)
  BY DEF SendMessage, ShowError
<1>4. /\ conversationId' = conversationId /\ messages'[p] = Append(messages[p], x)
      /\ \A q \in Pages \ {p} : messages'[q] = messages[q]
  BY <1>3 DEF PushMessage, Inv, Typed, PagesTyped
<1>5. /\ conversationId[p] = None => Shows(messages'[p], <<>>)
      /\ conversationId[p] \in Settled => Shows(messages'[p], stored[conversationId[p]])
  <2>1. messages[p] \in Seq(Turns \cup {Sent, Failed})
    BY ViewTyped
  <2>2. /\ conversationId[p] = None => Shows(messages[p], <<>>)
        /\ conversationId[p] \in Settled => Shows(messages[p], stored[conversationId[p]])
    BY DEF ViewInv, ShownInv
  <2>3. QED
    BY <1>4, <2>1, <2>2, PushShown
<1>6. \A q \in Pages : UNCHANGED chat[q] \/ chat'[q].stage \notin {"running", "answered"}
  <2>1. PICK y \in {Idle, Ask(conversationId[p], sent + 1)} : chat' = [chat EXCEPT ![p] = y]
    BY DEF SendMessage, ShowError
  <2>2. QED
    BY <2>1 DEF Inv, Typed, CallsTyped, Ask, Idle
<1>7. QED
  BY <1>1, <1>2, <1>4, <1>5, <1>6, SameStore

LEMMA AnswerView ==
  ASSUME Inv, ViewInv, NEW p \in Pages, ChatFails(p) \/ ShowAnswer(p)
  PROVE  ViewInv'
<1>1. UNCHANGED <<stored, contested, deleted, misread, call>>
  BY DEF ChatFails, ShowAnswer, hubVars, historyVars
<1>2. Settled' = Settled
  BY <1>1 DEF Settled
<1>3. \A q \in Pages : UNCHANGED chat[q] \/ chat'[q].stage \notin {"running", "answered"}
  <2>1. chat \in [Pages -> ChatCalls] /\ chat[p] \in ChatCalls
    BY DEF Inv, Typed, CallsTyped
  <2>2. CASE ChatFails(p)
    BY <2>1, <2>2 DEF ChatFails, ChatCalls
  <2>3. CASE ShowAnswer(p)
    BY <2>1, <2>3 DEF ShowAnswer, Idle
  <2>4. QED
    BY <2>2, <2>3
<1>4. CASE ChatFails(p)
  BY <1>1, <1>2, <1>3, <1>4, SameStore DEF ChatFails, pageVars
<1>5. CASE ShowAnswer(p)
  <2>1. /\ conversationId'[p] = chat[p].conv /\ messages'[p] = chat[p].body
        /\ \A q \in Pages \ {p} : UNCHANGED <<conversationId[q], messages[q]>>
    BY <1>5 DEF ShowAnswer, ShowConversation, Inv, Typed, PagesTyped
  <2>2. chat[p].conv # None
    BY <1>5, AssistantConstants DEF ShowAnswer, Inv, Typed, HubTyped, IdsInv
  <2>3. chat[p].conv \in Settled => Shows(chat[p].body, stored[chat[p].conv])
    BY <1>5, BeginningShown, ViewTyped DEF ShowAnswer, ViewInv, AnswerInv
  <2>4. QED
    BY <1>1, <1>2, <1>3, <2>1, <2>2, <2>3, SameStore
<1>6. QED
  BY <1>4, <1>5

LEMMA RequestView ==
  ASSUME Inv, ViewInv, NEW k \in Calls, NEW p \in Pages, NEW c \in Convs,
         LoadConversation(k, p, c) \/ DeleteConversation(k, p, c)
  PROVE  ViewInv'
<1>1. UNCHANGED <<stored, contested, deleted, misread, chat, conversationId, messages>>
  BY DEF LoadConversation, Choose, DeleteConversation, hubVars, pageVars, historyVars
<1>2. Settled' = Settled
  BY <1>1 DEF Settled
<1>3. \A j \in Calls : UNCHANGED call[j] \/ call'[j].stage # "answered"
  BY DEF LoadConversation, DeleteConversation, Inv, Typed, CallsTyped, Request
<1>4. QED
  BY <1>1, <1>2, <1>3, SameStore

\* An answer was stored when the hub gave it; the page that shows it goes to its
\* conversation, and the one whose deletion is answered may leave its own.
LEMMA CallView ==
  ASSUME Inv, ViewInv, NEW k \in Calls,
         GetConversation(k) \/ Loaded(k) \/ Deleted(k) \/ CallFails(k)
  PROVE  ViewInv'
<1>1. UNCHANGED <<stored, contested, deleted, misread, chat>>
  BY DEF GetConversation, Loaded, Deleted, CallFails, hubVars, historyVars
<1>2. Settled' = Settled
  BY <1>1 DEF Settled
<1>3. \A j \in Calls : \/ UNCHANGED call[j]
                       \/ call'[j].stage # "answered"
                       \/ call'[j].body = stored[call'[j].conv]
  <2>1. CASE GetConversation(k)
    BY <2>1, ViewTyped DEF GetConversation, Inv, Typed, CallsTyped, ListCalls
  <2>2. CASE ~GetConversation(k)
    BY <2>2 DEF Loaded, Deleted, CallFails, Inv, Typed, CallsTyped, NoCall
  <2>3. QED
    BY <2>1, <2>2
<1>4. CASE GetConversation(k) \/ CallFails(k)
  <2>1. UNCHANGED <<conversationId, messages>>
    BY <1>4 DEF GetConversation, CallFails, pageVars
  <2>2. QED
    BY <1>1, <1>2, <1>3, <2>1, SameStore
<1>5. CASE Loaded(k)
  <2> DEFINE p == call[k].page
  <2>1. /\ call[k].kind = "load" /\ call[k].stage = "answered" /\ call[k] # NoCall
        /\ ShowConversation(p, call[k].conv, call[k].body)
    BY <1>5 DEF Loaded, NoCall
  <2>2. p \in Pages /\ call[k].conv \in Convs /\ call[k].conv # None
    BY <2>1, CallTyped, AssistantConstants
  <2>3. /\ conversationId'[p] = call[k].conv /\ messages'[p] = call[k].body
        /\ \A q \in Pages \ {p} : UNCHANGED <<conversationId[q], messages[q]>>
    BY <2>1, <2>2 DEF ShowConversation, Inv, Typed, PagesTyped
  <2>4. call[k].conv \in Settled => Shows(call[k].body, stored[call[k].conv])
    BY <2>1, BeginningShown, ViewTyped DEF ViewInv, AnswerInv
  <2>5. QED
    BY <1>1, <1>2, <1>3, <2>2, <2>3, <2>4, SameStore
<1>6. CASE Deleted(k)
  <2>1. \A q \in Pages : \/ UNCHANGED <<conversationId[q], messages[q]>>
                         \/ conversationId'[q] = None /\ messages'[q] = <<>>
    BY <1>6 DEF Deleted, ShowConversation, pageVars, Inv, Typed, PagesTyped
  <2>2. QED
    BY <1>1, <1>2, <1>3, <2>1, SameStore, NothingShown, EmptyConversation, ViewTyped
<1>7. QED
  BY <1>4, <1>5, <1>6

\* The hub deletes a conversation, which is settled no more.
LEMMA HubDeletesView ==
  ASSUME Inv, ViewInv, NEW k \in Calls, HubDeletes(k)
  PROVE  ViewInv'
<1> DEFINE c == call[k].conv
<1>1. /\ UNCHANGED <<contested, misread, chat, conversationId, messages>>
      /\ deleted' = deleted \cup {c}
      /\ call[k].kind = "delete" /\ call' = [call EXCEPT ![k].stage = "answered"]
  BY DEF HubDeletes, pageVars
<1>2. Settled' = Settled \ {c}
  BY <1>1 DEF Settled
<1>3. \A d \in Settled' : stored'[d] = stored[d]
  BY <1>2, ViewTyped DEF HubDeletes, Inv, Typed, HubTyped
<1>4. ShownInv'
  BY <1>1, <1>2, <1>3 DEF ViewInv, ShownInv
<1>5. RunsInv'
  BY <1>1, <1>2, <1>3 DEF ViewInv, RunsInv, Runs
<1>6. AnswerInv'
  <2>1. \A j \in Calls : UNCHANGED call[j] \/ call'[j].kind = "delete"
    BY <1>1, ViewTyped DEF Inv, Typed, CallsTyped, ListCalls
  <2>2. QED
    BY <1>1, <1>2, <1>3, <2>1 DEF ViewInv, AnswerInv
<1>7. QED
  BY <1>4, <1>5, <1>6 DEF ViewInv

\* A chat reads the conversation; it is settled no more if another one has, or if
\* it could not be read.
LEMMA StartView ==
  ASSUME Inv, ViewInv, NEW p \in Pages, NEW ok \in BOOLEAN, ChatStarts(p, ok)
  PROVE  ViewInv'
<1> DEFINE c == chat[p].conv
<1> DEFINE there == c # None /\ stored[c] # <<>>
<1>1. /\ UNCHANGED <<stored, deleted, call, conversationId, messages>>
      /\ contested' = IF c # None /\ Running(c) # {} THEN contested \cup {c} ELSE contested
      /\ misread' = IF there /\ ~ok THEN misread \cup {c} ELSE misread
  BY DEF ChatStarts, hubVars, pageVars
<1>2. /\ Settled' \subseteq Settled
      /\ c \in Settled' => c # None /\ Running(c) = {} /\ (ok \/ stored[c] = <<>>)
  BY <1>1, ViewTyped DEF Settled
<1>3. /\ chat'[p].stage = "running" /\ chat'[p].conv = c
      /\ c \in Settled' => chat'[p].body = stored[c]
      /\ \A q \in Pages \ {p} : chat'[q] = chat[q]
  BY <1>2, ViewTyped DEF ChatStarts, Inv, Typed, CallsTyped, ChatCalls
<1>4. ShownInv'
  BY <1>1, <1>2 DEF ViewInv, ShownInv
<1>5. RunsInv'
  <2> SUFFICES ASSUME NEW q \in Pages, Runs(q)', chat'[q].conv \in Settled'
               PROVE  /\ chat'[q].body = stored'[chat'[q].conv]
                      /\ \A r \in Pages \ {q} : ~(Runs(r)' /\ chat'[r].conv = chat'[q].conv)
    BY DEF RunsInv
  <2>1. chat'[q].body = stored'[chat'[q].conv]
    BY <1>1, <1>2, <1>3, ViewTyped DEF ViewInv, RunsInv, Runs
  <2>2. ASSUME NEW r \in Pages \ {q}, Runs(r)', chat'[r].conv = chat'[q].conv
        PROVE  FALSE
    <3>1. CASE q # p /\ r # p
      BY <1>2, <1>3, <2>2, <3>1 DEF ViewInv, RunsInv, Runs
    <3>2. CASE q = p
      BY <1>2, <1>3, <2>2, <3>2 DEF Runs, Running
    <3>3. CASE r = p
      BY <1>2, <1>3, <2>2, <3>3 DEF Runs, Running
    <3>4. QED
      BY <3>1, <3>2, <3>3
  <2>3. QED
    BY <2>1, <2>2
<1>6. AnswerInv'
  BY <1>1, <1>2, <1>3 DEF ViewInv, AnswerInv
<1>7. QED
  BY <1>4, <1>5, <1>6 DEF ViewInv

\* The conversation is written back: a new one, or what was there and a turn.
LEMMA SaveView ==
  ASSUME Inv, ViewInv, NEW p \in Pages, NEW c \in Convs, SaveConversation(p, c)
  PROVE  ViewInv'
<1> DEFINE w == Append(chat[p].body, chat[p].turn)
<1>1. /\ chat[p].stage = "running" /\ Runs(p) /\ SavedUnder(chat[p].conv, c)
      /\ stored' = [stored EXCEPT ![c] = w]
      /\ UNCHANGED <<call, conversationId, messages, contested, deleted, misread>>
  BY DEF SaveConversation, WithTurn, pageVars, historyVars, Runs
<1>2. Settled' = Settled
  BY <1>1 DEF Settled
<1>3. /\ chat'[p].stage = "answered" /\ chat'[p].conv = c /\ chat'[p].body = w
      /\ \A q \in Pages \ {p} : chat'[q] = chat[q]
  BY ViewTyped DEF SaveConversation, WithTurn, Inv, Typed, CallsTyped, ChatCalls
<1>4. stored'[c] = w /\ \A d \in Convs \ {c} : stored'[d] = stored[d]
  BY <1>1 DEF Inv, Typed, HubTyped
<1>5. chat[p].turn \in Turns /\ chat[p].body \in Seq(Turns) /\ w \in Seq(Turns)
  <2>1. chat[p].turn \in 1..sent /\ sent \in 0..MaxTurns
    BY <1>1 DEF Inv, TurnInv, Typed, HubTyped, Asks
  <2>2. chat[p].turn \in Turns
    BY <2>1, AssistantConstants DEF Turns
  <2>3. QED
    BY <2>2, ViewTyped, AppendProperties
<1> HIDE DEF w
<1>6. c \in Settled => Begins(stored[c], w)
  <2>1. CASE chat[p].conv = None
    <3>1. chat[p].body = <<>> /\ stored[c] = <<>>
      BY <1>1, <2>1 DEF SavedUnder, Inv, ApartInv, IdsInv
    <3>2. QED
      BY <1>5, <3>1, BeginsLonger DEF w
  <2>2. CASE chat[p].conv # None
    <3>1. c = chat[p].conv
      BY <1>1, <2>2 DEF SavedUnder
    <3>2. c \in Settled => chat[p].body = stored[c]
      BY <1>1, <3>1 DEF ViewInv, RunsInv
    <3>3. QED
      BY <1>5, <3>2, BeginsLonger DEF w
  <2>3. QED
    BY <2>1, <2>2
<1>7. \A d \in Settled : /\ Begins(stored[d], stored'[d])
                         /\ stored[d] \in Seq(Turns) /\ stored'[d] \in Seq(Turns)
  BY <1>4, <1>5, <1>6, ViewTyped, BeginsItself
<1>8. ShownInv'
  BY <1>1, <1>2, <1>7, ShownGrows DEF ViewInv, ShownInv
<1>9. AnswerInv'
  <2>1. ASSUME NEW k \in Calls, call[k].kind = "load", call[k].stage = "answered",
               call[k].conv \in Settled
        PROVE  Begins(call[k].body, stored'[call[k].conv])
    BY <1>7, <2>1, ViewTyped, BeginningGrows DEF ViewInv, AnswerInv
  <2>2. ASSUME NEW q \in Pages, chat'[q].stage = "answered", chat'[q].conv \in Settled
        PROVE  Begins(chat'[q].body, stored'[chat'[q].conv])
    <3>1. CASE q = p
      BY <1>3, <1>4, <1>5, <3>1, BeginsItself
    <3>2. CASE q # p
      BY <1>3, <1>7, <2>2, <3>2, ViewTyped, BeginningGrows DEF ViewInv, AnswerInv
    <3>3. QED
      BY <3>1, <3>2
  <2>3. QED
    BY <1>1, <1>2, <2>1, <2>2 DEF AnswerInv, Begins
<1>10. RunsInv'
  <2> SUFFICES ASSUME NEW q \in Pages, Runs(q)', chat'[q].conv \in Settled
               PROVE  /\ chat'[q].body = stored'[chat'[q].conv]
                      /\ \A r \in Pages \ {q} : ~(Runs(r)' /\ chat'[r].conv = chat'[q].conv)
    BY <1>2 DEF RunsInv
  <2>1. /\ q # p /\ Runs(q) /\ chat'[q] = chat[q]
        /\ \A r \in Pages : Runs(r)' => Runs(r) /\ chat'[r] = chat[r]
    BY <1>3 DEF Runs
  <2>2. chat[q].conv # c
    <3>1. CASE chat[p].conv = c
      BY <1>1, <2>1, <3>1 DEF ViewInv, RunsInv
    <3>2. CASE chat[p].conv # c
      <4>1. c \notin minted /\ None \notin Convs
        BY <1>1, <3>2, AssistantConstants DEF SavedUnder
      <4>2. QED
        BY <2>1, <4>1 DEF Inv, IdsInv
    <3>3. QED
      BY <3>1, <3>2
  <2>3. stored'[chat[q].conv] = stored[chat[q].conv]
    BY <1>4, <2>1, <2>2, ViewTyped
  <2>4. QED
    BY <2>1, <2>3 DEF ViewInv, RunsInv
<1>11. QED
  BY <1>8, <1>9, <1>10 DEF ViewInv

-----------------------------------------------------------------------------
(* The theorems. *)

\* Every step of the specification keeps the invariant.
LEMMA Invariance == Spec => []Inv
<1>1. Init => Inv
  BY InvInit
<1>2. Inv /\ [Next]_vars => Inv'
  <2> SUFFICES ASSUME Inv, [Next]_vars PROVE Inv'
    OBVIOUS
  <2>1. ASSUME NEW p \in Pages, PageNext(p) \/ ChatNext(p)
        PROVE  Inv'
    <3>1. CASE PageNext(p)
      BY <3>1, SidebarKeeps, RequestKeeps DEF PageNext
    <3>2. CASE ChatNext(p)
      BY <3>2, SendKeeps, StartKeeps, ChatEnds, SaveKeeps DEF ChatNext
    <3>3. QED
      BY <2>1, <3>1, <3>2
  <2>2. CASE UNCHANGED vars
    <3>1. UNCHANGED <<stored, minted, sent, shell, conversationId, messages, chat, call,
                      contested, deleted, misread>>
      BY <2>2 DEF vars, hubVars, pageVars, historyVars
    <3>2. Typed' /\ IdsInv'
      BY <3>1 DEF Inv, Typed, PagesTyped, CallsTyped, HubTyped, IdsInv
    <3>3. QED
      BY <3>1, <3>2, RestKeeps DEF Inv
  <2>3. ASSUME NEW k \in Calls, CallNext(k) PROVE Inv'
    BY <2>3, AnswerKeeps, HubDeletesKeeps DEF CallNext
  <2>4. QED
    BY <2>1, <2>2, <2>3 DEF Next
<1>3. QED
  BY <1>1, <1>2, PTL DEF Spec

\* The conversations, the pages and their calls keep their types, for any
\* pages, ids and bounds (ai-chat.js, ai/service.go, ai/store.go).
THEOREM TypeCorrect == Spec => []TypeOK
<1>1. Inv => TypeOK
  BY DEF Inv, Typed, PagesTyped, CallsTyped, HubTyped, TypeOK
<1>2. QED
  BY <1>1, Invariance, PTL

LEMMA ViewStep == Inv /\ ViewInv /\ [Next]_vars => ViewInv'
<1> SUFFICES ASSUME Inv, ViewInv, [Next]_vars PROVE ViewInv'
  OBVIOUS
<1>1. ASSUME NEW p \in Pages, PageNext(p) \/ ChatNext(p)
      PROVE  ViewInv'
  <2>1. CASE PageNext(p)
    BY <2>1, SidebarView, RequestView DEF PageNext
  <2>2. CASE ChatNext(p)
    BY <2>2, PushView, StartView, AnswerView, SaveView DEF ChatNext
  <2>3. QED
    BY <1>1, <2>1, <2>2
<1>2. CASE UNCHANGED vars
  <2>1. UNCHANGED <<stored, conversationId, messages, chat, call, contested, deleted, misread>>
    BY <1>2 DEF vars, hubVars, pageVars, historyVars
  <2>2. QED
    BY <2>1, SameStore DEF Settled
<1>3. ASSUME NEW k \in Calls, CallNext(k) PROVE ViewInv'
  BY <1>3, CallView, HubDeletesView DEF CallNext
<1>4. QED
  BY <1>1, <1>2, <1>3 DEF Next

\* A page shows the first turns of the conversation it names and no turn of
\* another, however late its answers come, as long as nobody deletes the
\* conversation, no two browsers chat in it at once and every chat can read it
\* (ai-chat.js, Chat, SaveConversation).
THEOREM PagesShowTheirConversation == Spec => []ShownIsStored
<1>1. Inv /\ ViewInv => ShownIsStored
  BY DEF ViewInv, ShownInv, ShownIsStored, Settled
<1>2. Init => ViewInv
  BY ViewInit
<1>3. Inv /\ ViewInv /\ [Next]_vars => ViewInv'
  BY ViewStep
<1>4. Spec => []ViewInv
  BY <1>2, <1>3, Invariance, PTL DEF Spec
<1>5. QED
  BY <1>1, <1>4, Invariance, PTL

\* A turn is in one conversation, once, however chats, deletions and loads of
\* any number of pages overlap (Chat, SaveConversation).
THEOREM TurnsAreOnce == Spec => []TurnsOnce
<1>1. Inv => TurnsOnce
  <2> SUFFICES ASSUME Inv, NEW c \in Convs, NEW i \in 1..Len(stored[c])
               PROVE  /\ \A j \in 1..Len(stored[c]) : stored[c][i] = stored[c][j] => i = j
                      /\ \A d \in Convs \ {c} : stored[c][i] \notin ToSet(stored[d])
    BY DEF TurnsOnce
  <2>1. \A d \in Convs : stored[d] \in Seq(Turns) /\ DOMAIN stored[d] = 1..Len(stored[d])
    BY DEF Inv, Typed, HubTyped
  <2>2. IsInjective(stored[c])
    BY DEF Inv, ApartInv
  <2>3. \A j \in 1..Len(stored[c]) : stored[c][i] = stored[c][j] => i = j
    BY <2>1, <2>2 DEF IsInjective
  <2>4. stored[c][i] \in Turns /\ Contains(stored[c], stored[c][i])
    BY <2>1 DEF Contains
  <2>5. \A d \in Convs \ {c} : ~Contains(stored[d], stored[c][i])
    BY <2>4 DEF Inv, ApartInv
  <2>6. \A d \in Convs \ {c} : stored[c][i] \notin ToSet(stored[d])
    BY <2>1, <2>5 DEF ToSet, Contains
  <2>7. QED
    BY <2>3, <2>6
<1>2. QED
  BY <1>1, Invariance, PTL
=============================================================================

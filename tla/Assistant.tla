----------------------------- MODULE Assistant -----------------------------
(***************************************************************************)
(* The AI assistant: the sidebar of each browser (frontend/js/ai-chat.js)  *)
(* and the conversations of the hub (internal/ai/service.go, store.go).    *)
(* The hub reads a conversation, talks to the provider for as long as that *)
(* takes, and writes the conversation back whole; a page awaits every      *)
(* call with its buttons live, so answers come to a page that has moved    *)
(* on.  All pages are of one user.                                         *)
(*                                                                         *)
(* A turn (what the user wrote, with all the model and the tools answered) *)
(* is its number; what a page shows is a sequence of turns and of messages *)
(* of its own: one sent and not answered, one that reports an error.       *)
(***************************************************************************)
EXTENDS Naturals, Sequences, FiniteSets, SequencesExt

CONSTANTS
  Pages,     \* the browsers' sidebars
  Convs,     \* ids the hub mints
  None,      \* no conversation
  Sent,      \* the optimistic message of a turn
  Failed,    \* the message in place of an answer
  MaxTurns,  \* bound: messages sent by all pages together
  Calls      \* bound: loads and deletions in flight

Turns == 1..MaxTurns

ASSUME AssistantConstants ==
  /\ MaxTurns \in Nat
  /\ None \notin Convs /\ None \notin Pages
  /\ Sent \notin Turns /\ Failed \notin Turns /\ Sent # Failed

VARIABLES
  stored,          \* hub: conversation -> its turns, <<>> when there is none
  minted,          \* hub: the ids given out
  sent,            \* turns sent so far
  shell,           \* of each page: the sidebar is "hidden", "closed" or "open"
  conversationId,  \* of each page
  messages,        \* of each page
  chat,            \* page -> its POST, with what the hub keeps while it runs
  call,            \* the GETs and DELETEs of conversations, each of some page
  contested,       \* history: conversations two chats of which ran at once
  deleted,         \* history: conversations that were deleted
  misread          \* history: conversations that were there and could not be read

hubVars == <<stored, minted>>
pageVars == <<conversationId, messages>>
historyVars == <<contested, deleted, misread>>
vars == <<hubVars, sent, shell, pageVars, chat, call, historyVars>>

Idle == [stage |-> "idle", conv |-> None, turn |-> 0, body |-> <<>>]

\* The turn t sent to the conversation c.
Ask(c, t) == [stage |-> "asked", conv |-> c, turn |-> t, body |-> <<>>]

NoCall == [kind |-> "none", stage |-> "idle", page |-> None, conv |-> None, body |-> <<>>]

\* The page p loads the conversation c, or deletes it.
Request(kind, p, c) == [kind |-> kind, stage |-> "asked", page |-> p, conv |-> c, body |-> <<>>]

\* state.sending
Sending(p) == chat[p].stage # "idle"

Init ==
  /\ stored = [c \in Convs |-> <<>>]
  /\ minted = {}
  /\ sent = 0
  /\ shell = [p \in Pages |-> "hidden"]
  /\ conversationId = [p \in Pages |-> None]
  /\ messages = [p \in Pages |-> <<>>]
  /\ chat = [p \in Pages |-> Idle]
  /\ call = [k \in Calls |-> NoCall]
  /\ contested = {} /\ deleted = {} /\ misread = {}

\* The page shows the conversation c, with the messages m.
ShowConversation(p, c, m) ==
  /\ conversationId' = [conversationId EXCEPT ![p] = c]
  /\ messages' = [messages EXCEPT ![p] = m]

\* renderMessages, with one more message at the end of what is shown.
PushMessage(p, m) ==
  /\ messages' = [messages EXCEPT ![p] = Append(@, m)]
  /\ UNCHANGED conversationId

-----------------------------------------------------------------------------
(* The sidebar.  What is under way goes on when it is closed. *)

RenderShell(p) == shell' = [shell EXCEPT ![p] = "closed"]

\* The hub lists its providers; one without the assistant answers 404, and the
\* sidebar stays hidden.
InitAIChat(p) ==
  /\ shell[p] = "hidden"
  /\ RenderShell(p)
  /\ UNCHANGED <<hubVars, sent, pageVars, chat, call, historyVars>>

\* The messages are rendered again, as they are.
SetOpen(p) ==
  /\ shell[p] \in {"closed", "open"}
  /\ shell' = [shell EXCEPT ![p] = IF @ = "open" THEN "closed" ELSE "open"]
  /\ UNCHANGED <<hubVars, sent, pageVars, chat, call, historyVars>>

-----------------------------------------------------------------------------
(* A message and its answer. *)

SendMessage(p) ==
  /\ shell[p] = "open" /\ ~Sending(p)
  /\ sent < MaxTurns
  /\ sent' = sent + 1
  /\ PushMessage(p, Sent)
  /\ chat' = [chat EXCEPT ![p] = Ask(conversationId[p], sent + 1)]
  /\ UNCHANGED <<hubVars, shell, call, historyVars>>

Running(c) == {p \in Pages : chat[p].stage = "running" /\ chat[p].conv = c}

\* Chat, up to the provider: the conversation is read.  One that is not there,
\* and one that could not be read for whatever reason, starts anew under its id.
ChatStarts(p, ok) ==
  /\ chat[p].stage = "asked"
  /\ LET c == chat[p].conv
         there == c # None /\ stored[c] # <<>> IN
       /\ chat' = [chat EXCEPT ![p].stage = "running",
                               ![p].body = IF there /\ ok THEN stored[c] ELSE <<>>]
       /\ contested' = IF c # None /\ Running(c) # {} THEN contested \cup {c} ELSE contested
       /\ misread' = IF there /\ ~ok THEN misread \cup {c} ELSE misread
  /\ UNCHANGED <<hubVars, sent, shell, pageVars, call, deleted>>

\* No key, an error of the provider or of the store: nothing of the turn stays.
ChatFails(p) ==
  /\ chat[p].stage \in {"asked", "running"}
  /\ chat' = [chat EXCEPT ![p].stage = "failed"]
  /\ UNCHANGED <<hubVars, sent, shell, pageVars, call, historyVars>>

WithTurn(body, t) == Append(body, t)

\* Mutant: every save mints an id.
MintsAlways(conv, c) == c \in Convs \ minted

\* The id a conversation is saved under: a new one when it has none.
SavedUnder(conv, c) == IF conv = None THEN c \in Convs \ minted ELSE c = conv

\* The model has answered for good and SaveConversation upserts, whatever
\* happened to the conversation since it was read.
SaveConversation(p, c) ==
  /\ chat[p].stage = "running"
  /\ SavedUnder(chat[p].conv, c)
  /\ LET turns == WithTurn(chat[p].body, chat[p].turn) IN
       /\ stored' = [stored EXCEPT ![c] = turns]
       /\ chat' = [chat EXCEPT ![p].stage = "answered", ![p].conv = c, ![p].body = turns]
  /\ minted' = minted \cup {c}
  /\ UNCHANGED <<sent, shell, pageVars, call, historyVars>>

\* The answer: the page goes to its conversation, wherever it was.
ShowAnswer(p) ==
  /\ chat[p].stage = "answered"
  /\ ShowConversation(p, chat[p].conv, chat[p].body)
  /\ chat' = [chat EXCEPT ![p] = Idle]
  /\ UNCHANGED <<hubVars, sent, shell, call, historyVars>>

\* The call failed, or its answer is lost: the error is shown wherever the page
\* is.
ShowError(p) ==
  /\ chat[p].stage \in {"failed", "answered"}
  /\ PushMessage(p, Failed)
  /\ chat' = [chat EXCEPT ![p] = Idle]
  /\ UNCHANGED <<hubVars, sent, shell, call, historyVars>>

-----------------------------------------------------------------------------
(* The list of conversations; it may be old, and show any there ever was.  Its  *)
(* items stay live while calls are under way.                                  *)

NewConversation(p) ==
  /\ shell[p] = "open"
  /\ ShowConversation(p, None, <<>>)
  /\ UNCHANGED <<hubVars, sent, shell, chat, call, historyVars>>

\* Mutant: the id is taken over when the item is clicked.
ChooseAtOnce(p, c) ==
  /\ conversationId' = [conversationId EXCEPT ![p] = c]
  /\ UNCHANGED messages

\* Until the answer the page stays as it is.
Choose(p, c) == UNCHANGED pageVars

LoadConversation(k, p, c) ==
  /\ shell[p] = "open"
  /\ c \in minted /\ call[k] = NoCall
  /\ call' = [call EXCEPT ![k] = Request("load", p, c)]
  /\ Choose(p, c)
  /\ UNCHANGED <<hubVars, sent, shell, chat, historyVars>>

\* The hub reads the conversation, or has none.
GetConversation(k) ==
  /\ call[k].kind = "load" /\ call[k].stage = "asked"
  /\ call' = [call EXCEPT ![k].stage =
                 IF stored[call[k].conv] = <<>> THEN "failed" ELSE "answered",
              ![k].body = stored[call[k].conv]]
  /\ UNCHANGED <<hubVars, sent, shell, pageVars, chat, historyVars>>

Loaded(k) ==
  /\ call[k].kind = "load" /\ call[k].stage = "answered"
  /\ ShowConversation(call[k].page, call[k].conv, call[k].body)
  /\ call' = [call EXCEPT ![k] = NoCall]
  /\ UNCHANGED <<hubVars, sent, shell, chat, historyVars>>

\* After the confirmation.
DeleteConversation(k, p, c) ==
  /\ shell[p] = "open"
  /\ c \in minted /\ call[k] = NoCall
  /\ call' = [call EXCEPT ![k] = Request("delete", p, c)]
  /\ UNCHANGED <<hubVars, sent, shell, pageVars, chat, historyVars>>

HubDeletes(k) ==
  /\ call[k].kind = "delete" /\ call[k].stage = "asked"
  /\ stored' = [stored EXCEPT ![call[k].conv] = <<>>]
  /\ deleted' = deleted \cup {call[k].conv}
  /\ call' = [call EXCEPT ![k].stage = "answered"]
  /\ UNCHANGED <<minted, sent, shell, pageVars, chat, contested, misread>>

\* The page leaves the conversation if it shows it by now.
Deleted(k) ==
  /\ call[k].kind = "delete" /\ call[k].stage = "answered"
  /\ IF conversationId[call[k].page] = call[k].conv
     THEN ShowConversation(call[k].page, None, <<>>) ELSE UNCHANGED pageVars
  /\ call' = [call EXCEPT ![k] = NoCall]
  /\ UNCHANGED <<hubVars, sent, shell, chat, historyVars>>

\* An error, or an answer that is lost: the page stays as it is.
CallFails(k) ==
  /\ call[k] # NoCall
  /\ call' = [call EXCEPT ![k] = NoCall]
  /\ UNCHANGED <<hubVars, sent, shell, pageVars, chat, historyVars>>

-----------------------------------------------------------------------------
PageNext(p) ==
  \/ InitAIChat(p) \/ SetOpen(p) \/ NewConversation(p)
  \/ \E k \in Calls, c \in Convs : LoadConversation(k, p, c) \/ DeleteConversation(k, p, c)

ChatNext(p) ==
  \/ SendMessage(p) \/ ChatFails(p) \/ ShowAnswer(p) \/ ShowError(p)
  \/ \E ok \in BOOLEAN : ChatStarts(p, ok)
  \/ \E c \in Convs : SaveConversation(p, c)

CallNext(k) == GetConversation(k) \/ Loaded(k) \/ HubDeletes(k) \/ Deleted(k) \/ CallFails(k)

Next ==
  \/ \E p \in Pages : PageNext(p) \/ ChatNext(p)
  \/ \E k \in Calls : CallNext(k)

Spec == Init /\ [][Next]_vars

-----------------------------------------------------------------------------
(* Properties. *)

ChatCalls == [stage : {"idle", "asked", "running", "answered", "failed"},
              conv : Convs \cup {None}, turn : 0..MaxTurns, body : Seq(Turns)]

ListCalls == [kind : {"none", "load", "delete"}, stage : {"idle", "asked", "answered", "failed"},
              page : Pages \cup {None}, conv : Convs \cup {None}, body : Seq(Turns)]

\* Type invariant: the conversations, the pages and their calls.
TypeOK ==
  /\ stored \in [Convs -> Seq(Turns)]
  /\ minted \subseteq Convs
  /\ sent \in 0..MaxTurns /\ shell \in [Pages -> {"hidden", "closed", "open"}]
  /\ conversationId \in [Pages -> Convs \cup {None}]
  /\ messages \in [Pages -> Seq(Turns \cup {Sent, Failed})]
  /\ chat \in [Pages -> ChatCalls] /\ call \in [Calls -> ListCalls]
  /\ contested \subseteq Convs /\ deleted \subseteq Convs /\ misread \subseteq Convs

\* The messages m are the first turns of s, and after them no turn of any.
Shows(m, s) ==
  \E n \in 0..Len(m) :
    /\ n <= Len(s) /\ \A i \in 1..n : m[i] = s[i]
    /\ \A i \in (n + 1)..Len(m) : m[i] \notin Turns

\* The turns a page shows are the first turns of the conversation it names, in
\* the hub's order, and the hub has them: no answer, load or deletion that comes
\* late puts the turns of one conversation under the id of another, and no turn
\* a page was answered with is lost, unless the conversation was deleted, two
\* browsers chatted in it at the same time, or a chat could not read it and wrote
\* it anew (sendMessage, loadConversation, deleteConversation; Chat,
\* SaveConversation).
ShownIsStored ==
  \A p \in Pages :
    LET c == conversationId[p] IN
      /\ c = None => Shows(messages[p], <<>>)
      /\ c \in Convs \ (contested \cup deleted \cup misread) => Shows(messages[p], stored[c])

\* A turn goes into one conversation, and into it once, however the writes of
\* several chats follow each other.
TurnsOnce ==
  \A c \in Convs : \A i \in 1..Len(stored[c]) :
    /\ \A j \in 1..Len(stored[c]) : stored[c][i] = stored[c][j] => i = j
    /\ \A d \in Convs \ {c} : stored[c][i] \notin ToSet(stored[d])

\* The comment at service.go:81 speaks of a conversation that is "not found": one
\* that is there keeps what a page shows of it, if nobody deletes it or chats in it
\* at the same time.  An error of the store is taken for "not found" too.
OnlyMissingStartsAnew ==
  \A p \in Pages :
    LET c == conversationId[p] IN
      c \in Convs \ (contested \cup deleted) => Shows(messages[p], stored[c])
=============================================================================

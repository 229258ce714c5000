------------------------------- MODULE SignIn -------------------------------
(***************************************************************************)
(* Signing in (frontend/js/session-check.js, auth.js, setup.js, and the    *)
(* logout button of app.js) against the accounts of the hub                *)
(* (internal/auth/handlers.go).  The tabs of a browser share one stored    *)
(* token; each page asks the hub when it loads and goes where the answer   *)
(* sends it, by which time another tab may have changed the token.         *)
(***************************************************************************)
EXTENDS Naturals, FiniteSets

CONSTANTS
  Tabs,      \* the tabs of one browser
  NoToken,   \* nothing in localStorage
  MaxTokens, \* bound: tokens issued
  MaxActs    \* bound: what users, the clock and the network do

ASSUME SignInConstants ==
  /\ MaxTokens \in Nat \ {0} /\ MaxActs \in Nat
  /\ NoToken \notin 1..MaxTokens

Tokens == 1..MaxTokens

VARIABLES
  reachable,  \* the hub answers
  accounts,   \* hub: the users in its store, "2fa" or "plain"
  issued,     \* hub: tokens given out
  valid,      \* hub: tokens that are not expired
  stored,     \* localStorage.auth_token
  place,      \* tab -> the page it is on: "/", "/login" or "/setup"
  check,      \* tab -> the page's own check: "load", "me", "leave" or "rest"
  checked,    \* tab -> the token its check is about
  form,       \* tab -> its form: "idle", "sent", "passed", "totp" or "qr"
  setupToken, \* tab -> the token that waits for Continue
  acts        \* steps the bound MaxActs counts

accountVars == <<accounts, issued, valid>>
tabVars == <<place, check, checked, form, setupToken>>
signInVars == <<reachable, accountVars, stored, tabVars, acts>>

SignInInit ==
  /\ reachable \in BOOLEAN
  /\ accounts \in {{}, {"plain"}, {"2fa"}}
  /\ issued \in IF accounts = {} THEN {0} ELSE {0, 1}
  /\ valid \in SUBSET (1..issued)
  /\ stored = IF issued = 0 THEN NoToken ELSE issued
  /\ place = [t \in Tabs |-> "/"]
  /\ check = [t \in Tabs |-> "load"]
  /\ checked = [t \in Tabs |-> NoToken]
  /\ form = [t \in Tabs |-> "idle"]
  /\ setupToken = [t \in Tabs |-> NoToken]
  /\ acts = 0

Act == acts < MaxActs /\ acts' = acts + 1

\* window.location.href: a page that loads knows nothing of the one before.
Go(t, page) ==
  /\ place' = [place EXCEPT ![t] = page]
  /\ check' = [check EXCEPT ![t] = "load"]
  /\ checked' = [checked EXCEPT ![t] = NoToken]
  /\ form' = [form EXCEPT ![t] = "idle"]
  /\ setupToken' = [setupToken EXCEPT ![t] = NoToken]

Stay(t, c) ==
  /\ check' = [check EXCEPT ![t] = c]
  /\ UNCHANGED <<place, checked, form, setupToken>>

\* The page asks about the token that is stored now.
AskMe(t) ==
  /\ check' = [check EXCEPT ![t] = "me"]
  /\ checked' = [checked EXCEPT ![t] = stored]
  /\ UNCHANGED <<place, form, setupToken>>

-----------------------------------------------------------------------------
(* The network, the clock and the user's reloads. *)

NetworkChanges ==
  /\ Act
  /\ reachable' = ~reachable
  /\ UNCHANGED <<accountVars, stored, tabVars>>

Expire(k) ==
  /\ Act
  /\ k \in valid
  /\ valid' = valid \ {k}
  /\ UNCHANGED <<reachable, accounts, issued, stored, tabVars>>

Visit(t, page) ==
  /\ Act
  /\ Go(t, page)
  /\ UNCHANGED <<reachable, accountVars, stored>>

Logout(t) ==
  /\ place[t] = "/"
  /\ Act
  /\ stored' = NoToken
  /\ Go(t, "/login")
  /\ UNCHANGED <<reachable, accountVars>>

-----------------------------------------------------------------------------
(* session-check.js, on "/". *)

SetupRequired == accounts = {}

\* The answer of check-setup, or its failure.
SessionSetupCheck(t) ==
  /\ place[t] = "/" /\ check[t] = "load"
  /\ IF ~reachable THEN Go(t, "/login")
     ELSE IF SetupRequired THEN Go(t, "/setup")
     ELSE IF stored = NoToken THEN Go(t, "/login")
     ELSE AskMe(t)
  /\ UNCHANGED <<reachable, accountVars, stored, acts>>

\* The answer about the token; a refusal and a failure both remove whatever is
\* stored by then.
SessionMe(t) ==
  /\ place[t] = "/" /\ check[t] = "me"
  /\ IF reachable /\ checked[t] \in valid
     THEN Stay(t, "rest") /\ UNCHANGED stored
     ELSE Go(t, "/login") /\ stored' = NoToken
  /\ UNCHANGED <<reachable, accountVars, acts>>

-----------------------------------------------------------------------------
(* auth.js, on "/login". *)

\* Mutant: a stored token is taken for a session.
AlreadyLoggedInUnchecked(t) == IF stored # NoToken THEN Go(t, "/") ELSE Stay(t, "rest")

\* A stored token is checked first.
AlreadyLoggedIn(t) == IF stored # NoToken THEN AskMe(t) ELSE Stay(t, "rest")

LoginLoads(t) ==
  /\ place[t] = "/login" /\ check[t] = "load"
  /\ AlreadyLoggedIn(t)
  /\ UNCHANGED <<reachable, accountVars, stored, acts>>

LoginMe(t) ==
  /\ place[t] = "/login" /\ check[t] = "me"
  /\ IF reachable /\ checked[t] \in valid THEN Go(t, "/") ELSE Stay(t, "rest")
  /\ UNCHANGED <<reachable, accountVars, stored, acts>>

Form(t, f) ==
  /\ form' = [form EXCEPT ![t] = f]
  /\ UNCHANGED <<place, check, checked, setupToken>>

\* The form of the password, and of the second factor, is sent.
SubmitLogin(t) ==
  /\ place[t] = "/login" /\ form[t] \in {"idle", "totp"}
  /\ Act
  /\ Form(t, IF form[t] = "idle" THEN "sent" ELSE "passed")
  /\ UNCHANGED <<reachable, accountVars, stored>>

\* A token is issued, stored and taken to "/".
SignedIn(t) ==
  /\ issued < MaxTokens
  /\ issued' = issued + 1
  /\ valid' = valid \cup {issued + 1}
  /\ stored' = issued + 1
  /\ Go(t, "/")
  /\ UNCHANGED accounts

\* The right password of some account: an account with a second factor asks for
\* it, the others are signed in.
LoginAccepted(t) ==
  /\ place[t] = "/login" /\ form[t] = "sent"
  /\ reachable
  /\ \/ "plain" \in accounts /\ SignedIn(t)
     \/ "2fa" \in accounts /\ Form(t, "totp") /\ UNCHANGED <<accountVars, stored>>
  /\ UNCHANGED <<reachable, acts>>

Verified(t) ==
  /\ place[t] = "/login" /\ form[t] = "passed"
  /\ reachable
  /\ SignedIn(t)
  /\ UNCHANGED <<reachable, acts>>

\* A wrong password or code, or no answer: the form can be sent again.
LoginRefused(t) ==
  /\ place[t] = "/login" /\ form[t] \in {"sent", "passed"}
  /\ Form(t, IF form[t] = "sent" THEN "idle" ELSE "totp")
  /\ UNCHANGED <<reachable, accountVars, stored, acts>>

BackToLogin(t) ==
  /\ place[t] = "/login" /\ form[t] = "totp"
  /\ Act
  /\ Form(t, "idle")
  /\ UNCHANGED <<reachable, accountVars, stored>>

-----------------------------------------------------------------------------
(* setup.js, on "/setup". *)

\* The form goes away when the setup is done, and the page leaves in 2 s.
SetupLoads(t) ==
  /\ place[t] = "/setup" /\ check[t] = "load"
  /\ Stay(t, IF reachable /\ ~SetupRequired THEN "leave" ELSE "rest")
  /\ UNCHANGED <<reachable, accountVars, stored, acts>>

SetupLeaves(t) ==
  /\ place[t] = "/setup" /\ check[t] = "leave"
  /\ Go(t, "/login")
  /\ UNCHANGED <<reachable, accountVars, stored, acts>>

SubmitSetup(t) ==
  /\ place[t] = "/setup" /\ form[t] = "idle" /\ check[t] # "leave"
  /\ Act
  /\ Form(t, "sent")
  /\ UNCHANGED <<reachable, accountVars, stored>>

\* HandleSetup looks for users, and the page leaves when there are any.
SetupLooks(t) ==
  /\ place[t] = "/setup" /\ form[t] = "sent"
  /\ reachable
  /\ IF SetupRequired THEN Form(t, "passed") ELSE Stay(t, "leave")
  /\ UNCHANGED <<reachable, accountVars, stored, acts>>

\* Then it creates the user, whoever was created in between; with a second
\* factor the page shows the code and keeps the token until Continue.
SetupCreates(t) ==
  /\ place[t] = "/setup" /\ form[t] = "passed"
  /\ \/ accounts' = accounts \cup {"plain"}
        /\ issued < MaxTokens
        /\ issued' = issued + 1 /\ valid' = valid \cup {issued + 1}
        /\ stored' = issued + 1
        /\ Go(t, "/")
     \/ accounts' = accounts \cup {"2fa"}
        /\ issued < MaxTokens
        /\ issued' = issued + 1 /\ valid' = valid \cup {issued + 1}
        /\ form' = [form EXCEPT ![t] = "qr"]
        /\ setupToken' = [setupToken EXCEPT ![t] = issued + 1]
        /\ UNCHANGED <<stored, place, check, checked>>
  /\ UNCHANGED <<reachable, acts>>

\* The answer is lost, before or after the user was created.
SetupFails(t) ==
  /\ place[t] = "/setup" /\ form[t] \in {"sent", "passed"}
  /\ \/ UNCHANGED accounts
     \/ form[t] = "passed" /\ \E a \in {"plain", "2fa"} : accounts' = accounts \cup {a}
  /\ Form(t, "idle")
  /\ UNCHANGED <<reachable, issued, valid, stored, acts>>

Continue(t) ==
  /\ place[t] = "/setup" /\ form[t] = "qr"
  /\ Act
  /\ stored' = setupToken[t]
  /\ Go(t, "/")
  /\ UNCHANGED <<reachable, accountVars>>

-----------------------------------------------------------------------------
CheckNext(t) ==
  \/ SessionSetupCheck(t) \/ SessionMe(t)
  \/ LoginLoads(t) \/ LoginMe(t)
  \/ SetupLoads(t) \/ SetupLeaves(t)

FormNext(t) ==
  \/ SubmitLogin(t) \/ LoginAccepted(t) \/ Verified(t) \/ LoginRefused(t) \/ BackToLogin(t)
  \/ SubmitSetup(t) \/ SetupLooks(t) \/ SetupCreates(t) \/ SetupFails(t) \/ Continue(t)

UserNext(t) ==
  \/ Logout(t)
  \/ \E page \in {"/", "/login", "/setup"} : Visit(t, page)

SignInNext ==
  \/ NetworkChanges
  \/ \E k \in Tokens : Expire(k)
  \/ \E t \in Tabs : CheckNext(t) \/ FormNext(t) \/ UserNext(t)

\* A fetch ends, with an answer or without, and a timer fires.
SignInFairness == \A t \in Tabs : WF_signInVars(CheckNext(t))

SignInSpec == SignInInit /\ [][SignInNext]_signInVars
FairSignInSpec == SignInSpec /\ SignInFairness

-----------------------------------------------------------------------------
(* Properties. *)

\* Type invariant: the hub, the token and the pages.
SignInTypeOK ==
  /\ reachable \in BOOLEAN
  /\ accounts \subseteq {"plain", "2fa"}
  /\ issued \in 0..MaxTokens
  /\ valid \subseteq 1..issued
  /\ stored \in Tokens \cup {NoToken}
  /\ place \in [Tabs -> {"/", "/login", "/setup"}]
  /\ check \in [Tabs -> {"load", "me", "leave", "rest"}]
  /\ checked \in [Tabs -> Tokens \cup {NoToken}]
  /\ form \in [Tabs -> {"idle", "sent", "passed", "totp", "qr"}]
  /\ setupToken \in [Tabs -> Tokens \cup {NoToken}]
  /\ acts \in 0..MaxActs

\* The redirects of the three pages never chase each other: once users, clock
\* and network leave the pages alone, every tab stays on one page, with the hub
\* up or down, with a token that is valid, expired or another tab's
\* (session-check.js, auth.js:116-129, setup.js:125-141).
Settles == <>[](\A t \in Tabs : check[t] = "rest")

\* An upper bound of the checks and redirects left to a tab, as long as users,
\* clock and network leave the pages alone.
ChecksLeft(t) ==
  CASE check[t] = "rest" -> 0
    [] place[t] = "/" /\ check[t] = "load" -> 3
    [] place[t] = "/" /\ check[t] = "me" -> 2
    [] place[t] = "/login" /\ check[t] = "load" ->
         IF stored = NoToken THEN 1 ELSE IF reachable /\ stored \in valid THEN 5 ELSE 2
    [] place[t] = "/login" /\ check[t] = "me" ->
         IF reachable /\ checked[t] \in valid THEN 4 ELSE 1
    [] place[t] = "/setup" /\ check[t] = "load" ->
         IF reachable /\ ~SetupRequired THEN 7 ELSE 1
    [] OTHER -> 6

\* Every check and every redirect brings its tab nearer to rest and takes no
\* other tab away from it, though they share the token and a check that fails
\* removes it from all (session-check.js, auth.js:116-129, setup.js:125-141): a
\* tab that is left alone is at rest after seven of them at most.
RedirectsEnd ==
  [][\A t \in Tabs :
       CheckNext(t) => /\ ChecksLeft(t) \in 1..7
                       /\ ChecksLeft(t)' < ChecksLeft(t)
                       /\ \A u \in Tabs : ChecksLeft(u)' <= ChecksLeft(u)]_signInVars
=============================================================================

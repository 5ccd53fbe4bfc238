---------------------------- MODULE ClientSession ----------------------------
(***************************************************************************)
(* The signed-in session of the web client: the fetch wrapper, the token   *)
(* in localStorage, AuthProvider, the route guard and the lifetime of the  *)
(* query cache.                                                            *)
(*                                                                         *)
(* Every browser tab runs a client of its own; the stored token is the     *)
(* only thing the tabs share.  A request carries the token that is stored  *)
(* when it is sent; answers come in any order, or are lost.  The server    *)
(* may end a session at any moment (expiry, a password change elsewhere).  *)
(***************************************************************************)
EXTENDS Naturals, FiniteSets

CONSTANTS
  Tabs,         \* the open tabs of one browser
  Users,        \* the members of the household
  Tokens,       \* the session tokens the server may hand out
  Owner,        \* the user a token belongs to
  NoToken,      \* localStorage has no token
  NoUser,       \* AuthProvider has no user
  MaxInFlight   \* bound on the requests a tab has under way

ASSUME OwnerAssumption    == Owner \in [Tokens -> Users]
ASSUME SentinelAssumption == NoToken \notin Tokens /\ NoUser \notin Users

VARIABLES
  stored,   \* the token in localStorage, shared by the tabs
  status,   \* AuthProvider's status, per tab
  shown,    \* AuthProvider's user, per tab
  cache,    \* whether the tab's query cache holds household data
  net,      \* the requests of each tab that are not answered yet
  live,     \* the sessions the server honours
  issued    \* the tokens the server has handed out

clientVars == <<stored, status, shown, cache, net>>
serverVars == <<live, issued>>
vars       == <<clientVars, serverVars>>

PublicKinds == {"login", "register"}
GatedKinds  == {"me", "query", "write", "logout"}
Replies     == {"none", "ok", "refused", "lost"}

Request ==
  [kind : PublicKinds \cup GatedKinds, token : Tokens \cup {NoToken},
   reply : Replies, grant : Tokens \cup {NoToken}, attached : BOOLEAN]

TypeOK ==
  /\ stored \in Tokens \cup {NoToken}
  /\ status \in [Tabs -> {"loading", "authenticated", "anonymous"}]
  /\ shown \in [Tabs -> Users \cup {NoUser}]
  /\ cache \in [Tabs -> BOOLEAN]
  /\ net \in [Tabs -> SUBSET Request]
  /\ live \subseteq issued /\ issued \subseteq Tokens
  /\ \A t \in Tabs : shown[t] \in Users <=> status[t] = "authenticated"

-----------------------------------------------------------------------------
(* The fetch wrapper.                                                      *)

\* A public route sends no Authorization header; every other one sends what is
\* stored now.  Only a query's answer has a place in the query cache.
NewRequest(kind) ==
  [kind |-> kind, token |-> IF kind \in PublicKinds THEN NoToken ELSE stored,
   reply |-> "none", grant |-> NoToken, attached |-> kind = "query"]

Send(t, kind) ==
  /\ Cardinality(net[t]) < MaxInFlight
  /\ net' = [net EXCEPT ![t] = @ \cup {NewRequest(kind)}]

Waiting(t, kinds) == {r \in net[t] : r.kind \in kinds}

Received(t, r) == net' = [net EXCEPT ![t] = @ \ {r}]

\* queryClient.clear() destroys the queries: an answer that is still under way
\* has no entry left to go to.
Detached(r) == [r EXCEPT !.attached = FALSE]

ClearSession(t) ==
  /\ stored' = NoToken
  /\ shown' = [shown EXCEPT ![t] = NoUser]
  /\ status' = [status EXCEPT ![t] = "anonymous"]

\* Mutant: signing out leaves the query cache alone.
KeepCache(t, r) == Received(t, r) /\ UNCHANGED cache

ClearCache(t, r) ==
  /\ cache' = [cache EXCEPT ![t] = FALSE]
  /\ net' = [net EXCEPT ![t] = {Detached(q) : q \in @ \ {r}}]

-----------------------------------------------------------------------------
(* What the user and the page do.                                          *)

Init ==
  /\ stored = NoToken
  /\ status = [t \in Tabs |-> "anonymous"]
  /\ shown = [t \in Tabs |-> NoUser]
  /\ cache = [t \in Tabs |-> FALSE]
  /\ net = [t \in Tabs |-> {}]
  /\ live = {} /\ issued = {}

\* The tab loads the page: all that was in memory is gone, and a stored token is
\* verified with GET /api/auth/me.
Open(t) ==
  /\ shown' = [shown EXCEPT ![t] = NoUser]
  /\ cache' = [cache EXCEPT ![t] = FALSE]
  /\ IF stored = NoToken
     THEN /\ status' = [status EXCEPT ![t] = "anonymous"]
          /\ net' = [net EXCEPT ![t] = {}]
     ELSE /\ status' = [status EXCEPT ![t] = "loading"]
          /\ net' = [net EXCEPT ![t] = {NewRequest("me")}]
  /\ UNCHANGED <<stored, serverVars>>

\* Login shows its forms to an anonymous tab only, and each is disabled while
\* its own request is under way.
SubmitSignIn(t, kind) ==
  /\ status[t] = "anonymous" /\ Waiting(t, {kind}) = {}
  /\ Send(t, kind)
  /\ UNCHANGED <<stored, status, shown, cache, serverVars>>

\* RequireAuth mounts the screens of an authenticated tab only.
AskServer(t, kind) ==
  /\ status[t] = "authenticated"
  /\ Send(t, kind)
  /\ UNCHANGED <<stored, status, shown, cache, serverVars>>

ClickLogout(t) == AskServer(t, "logout")

-----------------------------------------------------------------------------
(* The network and the server.                                             *)

Reply(t, r, reply, grant) ==
  net' = [net EXCEPT ![t] = (@ \ {r}) \cup {[r EXCEPT !.reply = reply, !.grant = grant]}]

GrantSession(t, r) ==
  /\ r.kind \in PublicKinds /\ r.reply = "none"
  /\ \E token \in Tokens \ issued :
       /\ live' = live \cup {token} /\ issued' = issued \cup {token}
       /\ Reply(t, r, "ok", token)
  /\ UNCHANGED <<stored, status, shown, cache>>

ServeGated(t, r) ==
  /\ r.kind \in GatedKinds /\ r.reply = "none" /\ r.token \in live
  /\ live' = IF r.kind = "logout" THEN live \ {r.token} ELSE live
  /\ Reply(t, r, "ok", NoToken)
  /\ UNCHANGED <<stored, status, shown, cache, issued>>

\* Wrong credentials, a taken name or a closed registration; an unknown token.
Refuse(t, r) ==
  /\ r.reply = "none" /\ r.token \notin live
  /\ Reply(t, r, "refused", NoToken)
  /\ UNCHANGED <<stored, status, shown, cache, serverVars>>

\* fetch throws: the request or its answer never arrives.
Lose(t, r) ==
  /\ r.reply \in {"none", "ok"}
  /\ Reply(t, r, "lost", NoToken)
  /\ UNCHANGED <<stored, status, shown, cache, serverVars>>

EndSession(token) ==
  /\ token \in live
  /\ live' = live \ {token}
  /\ UNCHANGED <<clientVars, issued>>

-----------------------------------------------------------------------------
(* What the client makes of an answer.                                     *)

\* Mutant: the user of the form is shown, not the one the session was granted to.
AdoptSilently(t, token) ==
  /\ stored' = token
  /\ shown' = [shown EXCEPT ![t] = CHOOSE u \in Users : TRUE]
  /\ status' = [status EXCEPT ![t] = "authenticated"]

AdoptSession(t, token) ==
  /\ stored' = token
  /\ shown' = [shown EXCEPT ![t] = Owner[token]]
  /\ status' = [status EXCEPT ![t] = "authenticated"]

SignedIn(t, r) ==
  /\ r.kind \in PublicKinds /\ r.reply = "ok"
  /\ AdoptSession(t, r.grant) /\ Received(t, r)
  /\ UNCHANGED <<cache, serverVars>>

\* An inline message or a toast; the session is as it was.
SignInFailed(t, r) ==
  /\ r.kind \in PublicKinds /\ r.reply \in {"refused", "lost"}
  /\ Received(t, r)
  /\ UNCHANGED <<stored, status, shown, cache, serverVars>>

\* Mutant: any failure of a gated request counts as a 401.
FailureOf(r) == r.kind \in GatedKinds /\ r.reply \in {"refused", "lost"}

Unauthorized(r) == r.kind \in GatedKinds /\ r.reply = "refused"

\* The unauthorized handler, whichever gated route it was and whichever token the
\* request was sent with; for "me" and "logout" their own handlers clear again.
OnUnauthorized(t, r) ==
  /\ Unauthorized(r)
  /\ ClearSession(t) /\ ClearCache(t, r)
  /\ UNCHANGED serverVars

Hydrated(t, r) ==
  /\ r.kind = "me" /\ r.reply = "ok"
  /\ shown' = [shown EXCEPT ![t] = Owner[r.token]]
  /\ status' = [status EXCEPT ![t] = "authenticated"]
  /\ Received(t, r)
  /\ UNCHANGED <<stored, cache, serverVars>>

\* Mutant: only a 401 ends the verification of the stored token.
HydrationLeft(t, r) ==
  /\ r.kind = "me" /\ r.reply = "lost"
  /\ Received(t, r)
  /\ UNCHANGED <<stored, status, shown, cache, serverVars>>

\* The catch of the hydration effect takes every error, a lost answer as well.
HydrationFailed(t, r) ==
  /\ r.kind = "me" /\ r.reply = "lost"
  /\ ClearSession(t) /\ Received(t, r)
  /\ UNCHANGED <<cache, serverVars>>

\* Mutant: the error of a logout leaves the function before it clears anything.
LoggedOutIfTold(t, r) ==
  /\ r.kind = "logout" /\ r.reply \in {"ok", "lost"}
  /\ IF r.reply = "ok" THEN ClearSession(t) /\ ClearCache(t, r)
                       ELSE Received(t, r) /\ UNCHANGED <<stored, status, shown, cache>>
  /\ UNCHANGED serverVars

\* logout() swallows the error of its request.
LoggedOut(t, r) ==
  /\ r.kind = "logout" /\ r.reply \in {"ok", "lost"}
  /\ ClearSession(t) /\ ClearCache(t, r)
  /\ UNCHANGED serverVars

DataArrives(t, r) ==
  /\ r.kind = "query" /\ r.reply = "ok"
  /\ cache' = [cache EXCEPT ![t] = @ \/ r.attached]
  /\ Received(t, r)
  /\ UNCHANGED <<stored, status, shown, serverVars>>

\* A query that still has its entry is sent again after a transport failure, with
\* the token that is stored by then.
QueryRetried(t, r) ==
  /\ r.kind = "query" /\ r.reply = "lost" /\ r.attached
  /\ net' = [net EXCEPT ![t] = (@ \ {r}) \cup {NewRequest("query")}]
  /\ UNCHANGED <<stored, status, shown, cache, serverVars>>

\* The retries are used up, or a write failed: the screen reports it.
GivenUp(t, r) ==
  /\ r.kind \in {"query", "write"} /\ r.reply = "lost"
  /\ Received(t, r)
  /\ UNCHANGED <<stored, status, shown, cache, serverVars>>

WriteAnswered(t, r) ==
  /\ r.kind = "write" /\ r.reply = "ok"
  /\ Received(t, r)
  /\ UNCHANGED <<stored, status, shown, cache, serverVars>>

-----------------------------------------------------------------------------
Serve(t, r) == GrantSession(t, r) \/ ServeGated(t, r) \/ Refuse(t, r) \/ Lose(t, r)

Handle(t, r) ==
  \/ SignedIn(t, r) \/ SignInFailed(t, r) \/ OnUnauthorized(t, r)
  \/ Hydrated(t, r) \/ HydrationFailed(t, r) \/ LoggedOut(t, r)
  \/ DataArrives(t, r) \/ QueryRetried(t, r) \/ GivenUp(t, r) \/ WriteAnswered(t, r)

Next ==
  \/ \E t \in Tabs : Open(t)
  \/ \E t \in Tabs, kind \in PublicKinds : SubmitSignIn(t, kind)
  \/ \E t \in Tabs, kind \in {"query", "write"} : AskServer(t, kind)
  \/ \E t \in Tabs : ClickLogout(t)
  \/ \E t \in Tabs : \E r \in net[t] : Serve(t, r) \/ Handle(t, r)
  \/ \E token \in Tokens : EndSession(token)

Spec == Init /\ [][Next]_vars

\* fetch settles requests, one way or the other, and the page's callbacks run.
Served(t, kind)  == \E r \in Waiting(t, {kind}) : Serve(t, r)
Handled(t, kind) == \E r \in Waiting(t, {kind}) : Handle(t, r)

Fairness == \A t \in Tabs, kind \in {"me", "logout"} : WF_vars(Served(t, kind)) /\ WF_vars(Handled(t, kind))

FairSpec == Spec /\ Fairness

-----------------------------------------------------------------------------
(* Properties.                                                             *)

\* Signing out is complete, whatever is under way: a signed-out tab holds no
\* household data and awaits none, and a token stays in the browser only while
\* some tab uses it (AuthProvider.logout, the unauthorized handler).
SignOutIsComplete ==
  /\ \A t \in Tabs : status[t] = "anonymous" =>
       ~cache[t] /\ \A r \in net[t] : ~r.attached
  /\ stored # NoToken => \E t \in Tabs : status[t] # "anonymous"

\* Every request of a signed-in screen, a retry of an earlier one included, goes
\* out under the name the screen shows (adoptSession and clearSession change the
\* token and the user together).  One tab: a second one may sign in as somebody
\* else, and the first goes on showing its own user.
ActsAsShown ==
  [][\A t \in Tabs : \A r \in net'[t] \ net[t] :
       r.reply = "none" /\ (r.attached \/ r.kind \in {"write", "logout"}) =>
         r.token \in Tokens /\ Owner[r.token] = shown'[t]]_vars

\* A tab leaves its session only on a 401 or at the end of its own logout or by
\* loading the page anew: never because the network failed (api/client.ts).
SignOutHasCause ==
  [][\A t \in Tabs : status[t] = "authenticated" /\ status'[t] = "anonymous" =>
       \/ \E r \in net[t] \ net'[t] :
            r.kind \in GatedKinds /\ (r.reply = "refused" \/ r.kind = "logout")
       \/ net'[t] = {} /\ stored = NoToken]_vars

\* "Checking your session" does not stay on the screen for ever, unless the page is
\* loaded again and again, and a logout ends in a signed-out tab: whatever the network
\* does to their requests.
WaitsEnd ==
  \A t \in Tabs :
    /\ <>[][~Open(t)]_vars => (status[t] = "loading" ~> status[t] # "loading")
    /\ (\E r \in net[t] : r.kind = "logout") ~> status[t] # "authenticated"
=============================================================================

------------------------- MODULE ClientSessionProofs --------------------------
(* Signing in and out, for any number of tabs, tokens and requests: signing   *)
(* out is complete (SignOutComplete) and never for a failed network           *)
(* (SignOutCaused); a single tab acts under the name it shows (OneNameShown). *)
EXTENDS ClientSession, TLAPS

\* What a tab has under way, by what it shows: a tab that verifies its token waits for
\* that answer alone, and only a signed-in one awaits household data.
TabFits(t) ==
  /\ status[t] # "authenticated" => ~cache[t]
  /\ status[t] = "loading" => \E r \in net[t] : net[t] = {r} /\ r.kind = "me"
  /\ \A r \in net[t] :
       /\ r.attached => r.kind = "query" /\ status[t] = "authenticated"
       /\ r.kind = "me" => r.token \in Tokens /\ status[t] = "loading"
       /\ r.kind \in PublicKinds /\ r.reply = "ok" => r.grant \in Tokens

TokenIsUsed == stored # NoToken => \E t \in Tabs : status[t] # "anonymous"

SessionInv == TypeOK /\ TokenIsUsed /\ \A t \in Tabs : TabFits(t)

\* With one tab, what is stored is the session of the user shown.
NameFits(t) ==
  /\ status[t] = "authenticated" => stored \in Tokens /\ shown[t] = Owner[stored]
  /\ status[t] = "loading" => \A r \in net[t] : r.token = stored

NameInv == SessionInv /\ \A t \in Tabs : NameFits(t)

LEMMA SessionInit == Init => SessionInv
  BY SentinelAssumption DEF Init, SessionInv, TypeOK, TokenIsUsed, TabFits

-----------------------------------------------------------------------------
(* Requests.                                                                *)

LEMMA NewRequestType ==
  ASSUME TypeOK, NEW kind \in PublicKinds \cup GatedKinds
  PROVE  /\ NewRequest(kind) \in Request
         /\ NewRequest(kind).kind = kind /\ NewRequest(kind).reply = "none"
         /\ NewRequest(kind).attached <=> kind = "query"
         /\ kind \notin PublicKinds => NewRequest(kind).token = stored
  BY DEF TypeOK, NewRequest, Request, Replies

LEMMA DetachedType ==
  ASSUME NEW r \in Request
  PROVE  /\ Detached(r) \in Request /\ ~Detached(r).attached
         /\ Detached(r).kind = r.kind /\ Detached(r).token = r.token
         /\ Detached(r).reply = r.reply /\ Detached(r).grant = r.grant
         /\ ~r.attached => Detached(r) = r
<1>1. ~r.attached => [r EXCEPT !.attached = FALSE] = r
  BY Zenon DEF Request
<1> QED
  BY <1>1 DEF Request, Detached

-----------------------------------------------------------------------------
(* What a step leaves.                                                      *)

\* Nothing of the other tabs.
OthersStay(t) ==
  \A q \in Tabs \ {t} : /\ status'[q] = status[q] /\ shown'[q] = shown[q]
                        /\ cache'[q] = cache[q] /\ net'[q] = net[q]

LEMMA OneTabSteps ==
  ASSUME SessionInv, NEW t \in Tabs, OthersStay(t), TypeOK', TokenIsUsed', TabFits(t)'
  PROVE  SessionInv'
  BY DEF SessionInv, OthersStay, TabFits

\* A request a tab may have under way.
MayWait(t, s) ==
  \/ s \in net[t]
  \/ /\ s.attached => s.kind = "query" /\ status[t] = "authenticated"
     /\ s.kind = "me" => s.token \in Tokens /\ status[t] = "loading"
     /\ s.kind \in PublicKinds /\ s.reply = "ok" => s.grant \in Tokens

\* A request that is sent, answered, handled or dropped while the session is as it was.
LEMMA NetSteps ==
  ASSUME SessionInv, NEW t \in Tabs, NEW now \in SUBSET Request,
         net' = [net EXCEPT ![t] = now], UNCHANGED <<stored, status, shown>>,
         \/ cache' = cache
         \/ status[t] = "authenticated" /\ \E c \in BOOLEAN : cache' = [cache EXCEPT ![t] = c],
         live' \subseteq issued', issued' \subseteq Tokens,
         status[t] = "loading" => \E r \in now : now = {r} /\ r.kind = "me",
         \A s \in now : MayWait(t, s)
  PROVE  SessionInv'
<1>1. OthersStay(t) /\ net'[t] = now
  BY DEF SessionInv, TypeOK, OthersStay
<1>2. TypeOK'
  BY DEF SessionInv, TypeOK
<1>3. TokenIsUsed'
  BY DEF SessionInv, TokenIsUsed
<1>4. TabFits(t)'
  BY <1>1 DEF SessionInv, TypeOK, TabFits, MayWait
<1> QED
  BY <1>1, <1>2, <1>3, <1>4, OneTabSteps

LEMMA SendSteps ==
  ASSUME SessionInv, NEW t \in Tabs,
         \/ \E kind \in PublicKinds : SubmitSignIn(t, kind)
         \/ \E kind \in {"query", "write", "logout"} : AskServer(t, kind)
  PROVE  SessionInv'
<1>1. PICK kind \in PublicKinds \cup {"query", "write", "logout"} :
        /\ net' = [net EXCEPT ![t] = @ \cup {NewRequest(kind)}]
        /\ UNCHANGED <<stored, status, shown, cache, serverVars>>
        /\ status[t] = IF kind \in PublicKinds THEN "anonymous" ELSE "authenticated"
  BY DEF SubmitSignIn, AskServer, Send, PublicKinds
<1>2. kind \in PublicKinds \cup GatedKinds /\ kind # "me"
  BY DEF PublicKinds, GatedKinds
<1>3. /\ NewRequest(kind) \in Request
      /\ NewRequest(kind).kind = kind /\ NewRequest(kind).reply = "none"
      /\ NewRequest(kind).attached <=> kind = "query"
  BY <1>2, NewRequestType DEF SessionInv
<1> DEFINE new == NewRequest(kind)
<1> HIDE DEF new
<1>4. net[t] \cup {new} \in SUBSET Request /\ net' = [net EXCEPT ![t] = net[t] \cup {new}]
  BY <1>1, <1>3 DEF SessionInv, TypeOK, new
<1>5. live' \subseteq issued' /\ issued' \subseteq Tokens
  BY <1>1 DEF SessionInv, TypeOK, serverVars
<1>6. \A s \in net[t] \cup {new} : MayWait(t, s)
  <2>1. /\ new.attached => new.kind = "query" /\ status[t] = "authenticated"
        /\ new.kind # "me" /\ new.reply = "none"
    BY <1>1, <1>2, <1>3 DEF new, PublicKinds
  <2> QED
    BY <2>1 DEF MayWait
<1>7. status[t] # "loading" /\ cache' = cache /\ UNCHANGED <<stored, status, shown>>
  BY <1>1
<1> QED
  BY <1>4, <1>5, <1>6, <1>7, NetSteps

LEMMA ServeSteps ==
  ASSUME SessionInv, NEW t \in Tabs, NEW r \in net[t], Serve(t, r)
  PROVE  SessionInv'
<1>1. PICK reply \in Replies, grant \in Tokens \cup {NoToken} :
        /\ Reply(t, r, reply, grant)
        /\ r.kind \in PublicKinds /\ reply = "ok" => grant \in Tokens
        /\ UNCHANGED <<stored, status, shown, cache>>
  BY DEF Serve, GrantSession, ServeGated, Refuse, Lose, Replies, PublicKinds, GatedKinds
<1>2. live' \subseteq issued' /\ issued' \subseteq Tokens
  BY DEF Serve, GrantSession, ServeGated, Refuse, Lose, serverVars, SessionInv, TypeOK
<1> DEFINE s   == [r EXCEPT !.reply = reply, !.grant = grant]
           now == (net[t] \ {r}) \cup {s}
<1>3. r \in Request /\ TabFits(t)
  BY DEF SessionInv, TypeOK
<1>4. /\ s \in Request /\ s.kind = r.kind /\ s.token = r.token
      /\ s.reply = reply /\ s.grant = grant /\ s.attached = r.attached
  BY <1>3 DEF Request
<1> HIDE DEF s
<1>5. now \in SUBSET Request /\ net' = [net EXCEPT ![t] = now]
  BY <1>1, <1>4 DEF Reply, SessionInv, TypeOK, s
<1>6. \A x \in now : MayWait(t, x)
  BY <1>1, <1>3, <1>4 DEF TabFits, MayWait
<1>7. status[t] = "loading" => \E x \in now : now = {x} /\ x.kind = "me"
  BY <1>3, <1>4 DEF TabFits
<1> QED
  BY <1>1, <1>2, <1>5, <1>6, <1>7, NetSteps

\* Answers that leave the session as it is.
LEMMA AnswerSteps ==
  ASSUME SessionInv, NEW t \in Tabs, NEW r \in net[t],
         \/ SignInFailed(t, r) \/ DataArrives(t, r) \/ QueryRetried(t, r)
         \/ GivenUp(t, r) \/ WriteAnswered(t, r)
  PROVE  SessionInv'
<1>1. /\ r.kind # "me" /\ TabFits(t) /\ TypeOK /\ r \in Request
      /\ live' \subseteq issued' /\ issued' \subseteq Tokens
  BY DEF SignInFailed, DataArrives, QueryRetried, GivenUp, WriteAnswered, PublicKinds,
         serverVars, SessionInv, TypeOK
<1>2. status[t] # "loading"
  BY <1>1 DEF TabFits
<1>3. UNCHANGED <<stored, status, shown>>
  BY DEF SignInFailed, DataArrives, QueryRetried, GivenUp, WriteAnswered
<1>4. net[t] \ {r} \in SUBSET Request
  BY <1>1 DEF TypeOK
<1>5. CASE /\ net' = [net EXCEPT ![t] = net[t] \ {r}]
           /\ \/ cache' = cache
              \/ cache' = [cache EXCEPT ![t] = @ \/ r.attached]
  <2>1. \/ cache' = cache
        \/ status[t] = "authenticated" /\ \E c \in BOOLEAN : cache' = [cache EXCEPT ![t] = c]
    <3>1. CASE r.attached
      <4>1. status[t] = "authenticated"
        BY <1>1, <3>1 DEF TabFits
      <4> QED
        BY <1>5, <3>1, <4>1
    <3>2. CASE ~r.attached
      <4>1. cache[t] \in BOOLEAN /\ DOMAIN cache = Tabs /\ cache = [q \in Tabs |-> cache[q]]
        BY <1>1 DEF TypeOK
      <4>2. (cache[t] \/ r.attached) = cache[t]
        BY <3>2, <4>1
      <4>3. [cache EXCEPT ![t] = cache[t] \/ r.attached] = cache
        BY <4>1, <4>2
      <4> QED
        BY <1>5, <4>3
    <3> QED
      BY <3>1, <3>2
  <2>2. \A s \in net[t] \ {r} : MayWait(t, s)
    BY DEF MayWait
  <2> QED
    BY <1>1, <1>2, <1>3, <1>4, <1>5, <2>1, <2>2, NetSteps
<1>6. CASE QueryRetried(t, r)
  <2> DEFINE new == NewRequest("query")
             now == (net[t] \ {r}) \cup {new}
  <2>1. new \in Request /\ new.kind = "query" /\ new.reply = "none" /\ r.attached
    BY <1>1, <1>6, NewRequestType DEF QueryRetried, GatedKinds
  <2>2. net' = [net EXCEPT ![t] = now] /\ cache' = cache
    BY <1>6 DEF QueryRetried
  <2>3. status[t] = "authenticated"
    BY <1>1, <2>1 DEF TabFits
  <2> HIDE DEF new
  <2>4. now \in SUBSET Request
    BY <1>4, <2>1
  <2>5. \A s \in now : MayWait(t, s)
    BY <2>1, <2>3 DEF MayWait, PublicKinds
  <2> HIDE DEF now
  <2> QED
    BY <1>1, <1>2, <1>3, <2>2, <2>4, <2>5, NetSteps
<1> QED
  BY <1>5, <1>6 DEF SignInFailed, DataArrives, GivenUp, WriteAnswered, Received

\* A tab that signs out: it has dropped its user and the data, and what it still waits
\* for is not for the cache.
LEMMA SignedOut ==
  ASSUME SessionInv, NEW t \in Tabs, NEW now \in SUBSET Request,
         stored' = NoToken, status' = [status EXCEPT ![t] = "anonymous"],
         shown' = [shown EXCEPT ![t] = NoUser], UNCHANGED serverVars,
         cache' = [cache EXCEPT ![t] = FALSE], net' = [net EXCEPT ![t] = now],
         \A s \in now : /\ ~s.attached /\ s.kind # "me"
                        /\ s.kind \in PublicKinds /\ s.reply = "ok" => s.grant \in Tokens
  PROVE  SessionInv'
<1>1. OthersStay(t)
  BY DEF SessionInv, TypeOK, OthersStay
<1>2. /\ net'[t] = now /\ status'[t] = "anonymous" /\ cache'[t] = FALSE
      /\ shown'[t] = NoUser
  BY DEF SessionInv, TypeOK
<1>3. TypeOK'
  BY <1>1, <1>2, SentinelAssumption DEF SessionInv, TypeOK, OthersStay, serverVars
<1>4. TokenIsUsed'
  BY DEF TokenIsUsed
<1>5. TabFits(t)'
  BY <1>2 DEF TabFits
<1> QED
  BY <1>1, <1>3, <1>4, <1>5, OneTabSteps

LEMMA ClearSteps ==
  ASSUME SessionInv, NEW t \in Tabs, NEW r \in net[t], ClearSession(t), ClearCache(t, r),
         UNCHANGED serverVars
  PROVE  SessionInv'
<1> DEFINE now == {Detached(q) : q \in net[t] \ {r}}
<1>1. TypeOK /\ TabFits(t) /\ net[t] \in SUBSET Request
  BY DEF SessionInv, TypeOK
<1>2. ASSUME NEW q \in net[t] \ {r}
      PROVE  /\ Detached(q) \in Request /\ ~Detached(q).attached /\ Detached(q).kind # "me"
             /\ Detached(q).kind \in PublicKinds /\ Detached(q).reply = "ok" =>
                  Detached(q).grant \in Tokens
  <2>1. /\ Detached(q) \in Request /\ ~Detached(q).attached
        /\ Detached(q).kind = q.kind /\ Detached(q).reply = q.reply
        /\ Detached(q).grant = q.grant
    BY <1>1, DetachedType
  <2>2. q.kind # "me"
    BY <1>1 DEF TabFits
  <2> QED
    BY <1>1, <2>1, <2>2 DEF TabFits
<1>3. /\ now \in SUBSET Request
      /\ \A s \in now : /\ ~s.attached /\ s.kind # "me"
                        /\ s.kind \in PublicKinds /\ s.reply = "ok" => s.grant \in Tokens
  BY <1>2
<1>4. cache' = [cache EXCEPT ![t] = FALSE] /\ net' = [net EXCEPT ![t] = now]
  BY <1>1 DEF ClearCache, TypeOK
<1> HIDE DEF now
<1> QED
  BY <1>3, <1>4, SignedOut DEF ClearSession

\* Signing in, and the end of a verification.
LEMMA SessionSteps ==
  ASSUME SessionInv, NEW t \in Tabs, NEW r \in net[t],
         SignedIn(t, r) \/ Hydrated(t, r) \/ HydrationFailed(t, r)
  PROVE  SessionInv'
<1>1. TypeOK /\ TabFits(t) /\ r \in Request /\ net[t] \ {r} \in SUBSET Request
  BY DEF SessionInv, TypeOK
<1>2. net' = [net EXCEPT ![t] = net[t] \ {r}] /\ UNCHANGED serverVars
  BY DEF SignedIn, Hydrated, HydrationFailed, Received
<1>3. CASE SignedIn(t, r)
  <2>1. r.kind \in PublicKinds /\ r.grant \in Tokens /\ r.kind # "me"
    BY <1>1, <1>3 DEF SignedIn, TabFits, PublicKinds
  <2>2. /\ stored' = r.grant /\ shown' = [shown EXCEPT ![t] = Owner[r.grant]]
        /\ status' = [status EXCEPT ![t] = "authenticated"] /\ cache' = cache
    BY <1>3 DEF SignedIn, AdoptSession
  <2>3. Owner[r.grant] \in Users /\ status[t] # "loading"
    BY <1>1, <2>1, OwnerAssumption DEF TabFits
  <2>4. OthersStay(t) /\ status'[t] = "authenticated" /\ net'[t] = net[t] \ {r}
    BY <1>1, <1>2, <2>2 DEF TypeOK, OthersStay
  <2>5. TypeOK'
    BY <1>1, <1>2, <2>1, <2>2, <2>3 DEF TypeOK, serverVars
  <2>6. TokenIsUsed'
    BY <2>4 DEF TokenIsUsed
  <2>7. \A s \in net[t] \ {r} : s.kind # "me"
    BY <1>1, <2>3 DEF TabFits
  <2>8. TabFits(t)'
    BY <1>1, <2>4, <2>7 DEF TabFits
  <2> QED
    BY <2>4, <2>5, <2>6, <2>8, OneTabSteps
<1>4. CASE r.kind = "me"
  <2>1. r.token \in Tokens /\ status[t] = "loading" /\ net[t] \ {r} = {} /\ ~cache[t]
    BY <1>1, <1>4 DEF TabFits
  <2>2. CASE Hydrated(t, r)
    <3>1. /\ stored' = stored /\ shown' = [shown EXCEPT ![t] = Owner[r.token]]
          /\ status' = [status EXCEPT ![t] = "authenticated"] /\ cache' = cache
      BY <2>2 DEF Hydrated
    <3>2. Owner[r.token] \in Users
      BY <2>1, OwnerAssumption
    <3>3. OthersStay(t) /\ status'[t] = "authenticated" /\ net'[t] = {}
      BY <1>1, <1>2, <2>1, <3>1 DEF TypeOK, OthersStay
    <3>4. TypeOK'
      BY <1>1, <1>2, <3>1, <3>2 DEF TypeOK, serverVars
    <3>5. TokenIsUsed'
      BY <3>3 DEF TokenIsUsed
    <3>6. TabFits(t)'
      BY <3>3 DEF TabFits
    <3> QED
      BY <3>3, <3>4, <3>5, <3>6, OneTabSteps
  <2>3. CASE HydrationFailed(t, r)
    <3>1. cache' = [cache EXCEPT ![t] = FALSE]
      BY <1>1, <2>1, <2>3 DEF HydrationFailed, TypeOK
    <3> QED
      BY <1>1, <1>2, <2>1, <2>3, <3>1, SignedOut DEF HydrationFailed, ClearSession
  <2>4. ~SignedIn(t, r)
    BY <1>4 DEF SignedIn, PublicKinds
  <2> QED
    BY <2>2, <2>3, <2>4
<1> QED
  BY <1>3, <1>4 DEF Hydrated, HydrationFailed

LEMMA OpenSteps ==
  ASSUME SessionInv, NEW t \in Tabs, Open(t) PROVE SessionInv'
<1>1. TypeOK /\ TokenIsUsed
  BY DEF SessionInv
<1>2. /\ shown' = [shown EXCEPT ![t] = NoUser] /\ cache' = [cache EXCEPT ![t] = FALSE]
      /\ UNCHANGED <<stored, serverVars>>
  BY DEF Open
<1>3. OthersStay(t) /\ cache'[t] = FALSE /\ shown'[t] = NoUser
  BY <1>1 DEF Open, TypeOK, OthersStay
<1>4. CASE stored = NoToken
  <2>1. /\ status' = [status EXCEPT ![t] = "anonymous"] /\ net' = [net EXCEPT ![t] = {}]
        /\ status'[t] = "anonymous" /\ net'[t] = {}
    BY <1>1, <1>4 DEF Open, TypeOK
  <2>2. TypeOK'
    BY <1>1, <1>2, <2>1, SentinelAssumption DEF TypeOK, serverVars
  <2>3. TokenIsUsed' /\ TabFits(t)'
    BY <1>2, <1>3, <1>4, <2>1 DEF TokenIsUsed, TabFits
  <2> QED
    BY <1>3, <2>2, <2>3, OneTabSteps
<1>5. CASE stored # NoToken
  <2> DEFINE new == NewRequest("me")
  <2>1. /\ new \in Request /\ new.kind = "me" /\ new.token = stored /\ ~new.attached
        /\ new.reply = "none"
    BY <1>1, NewRequestType DEF GatedKinds, PublicKinds
  <2>2. /\ status' = [status EXCEPT ![t] = "loading"] /\ net' = [net EXCEPT ![t] = {new}]
        /\ status'[t] = "loading" /\ net'[t] = {new}
    BY <1>1, <1>5 DEF Open, TypeOK
  <2> HIDE DEF new
  <2>3. TypeOK'
    BY <1>1, <1>2, <2>1, <2>2, SentinelAssumption DEF TypeOK, serverVars
  <2>4. TokenIsUsed'
    BY <2>2 DEF TokenIsUsed
  <2>5. stored \in Tokens
    BY <1>1, <1>5 DEF TypeOK
  <2>6. TabFits(t)'
    BY <1>3, <2>1, <2>2, <2>5 DEF TabFits, PublicKinds
  <2> QED
    BY <1>3, <2>3, <2>4, <2>6, OneTabSteps
<1> QED
  BY <1>4, <1>5

LEMMA SessionNext == SessionInv /\ [Next]_vars => SessionInv'
<1> SUFFICES ASSUME SessionInv, [Next]_vars PROVE SessionInv'
  OBVIOUS
<1>1. ASSUME NEW t \in Tabs, Open(t) PROVE SessionInv'
  BY <1>1, OpenSteps
<1>2. ASSUME NEW t \in Tabs,
             \/ \E kind \in PublicKinds : SubmitSignIn(t, kind)
             \/ \E kind \in {"query", "write"} : AskServer(t, kind)
             \/ ClickLogout(t)
      PROVE  SessionInv'
  BY <1>2, SendSteps DEF ClickLogout
<1>3. ASSUME NEW t \in Tabs, NEW r \in net[t], Serve(t, r) PROVE SessionInv'
  BY <1>3, ServeSteps
<1>4. ASSUME NEW t \in Tabs, NEW r \in net[t], Handle(t, r) PROVE SessionInv'
  BY <1>4, AnswerSteps, SessionSteps, ClearSteps DEF Handle, OnUnauthorized, LoggedOut
<1>5. ASSUME NEW token \in Tokens, EndSession(token) PROVE SessionInv'
  BY <1>5 DEF EndSession, clientVars, SessionInv, TypeOK, TokenIsUsed, TabFits
<1>6. CASE UNCHANGED vars
  BY <1>6 DEF vars, clientVars, serverVars, SessionInv, TypeOK, TokenIsUsed, TabFits
<1> QED
  BY <1>1, <1>2, <1>3, <1>4, <1>5, <1>6 DEF Next

\* Signing out is complete in every tab, whatever was under way: a signed-out tab holds
\* no household data and awaits none, and a token stays in the browser only while some
\* tab uses it (logout and the unauthorized handler of AuthProvider.tsx).
THEOREM SignOutComplete == Spec => []SignOutIsComplete
<1>1. SessionInv => SignOutIsComplete
  BY DEF SessionInv, TabFits, TokenIsUsed, SignOutIsComplete
<1> QED
  BY <1>1, SessionInit, SessionNext, PTL DEF Spec

\* A tab leaves its session only on a 401 or at the end of its own logout or by loading
\* the page anew, never because the network failed (request of api/client.ts): the
\* answer whose loss signs a tab out is that of the verification it was loading for.
THEOREM SignOutCaused == Spec => SignOutHasCause
<1>1. SessionInv /\ [Next]_vars =>
        [\A t \in Tabs : status[t] = "authenticated" /\ status'[t] = "anonymous" =>
           \/ \E r \in net[t] \ net'[t] :
                r.kind \in GatedKinds /\ (r.reply = "refused" \/ r.kind = "logout")
           \/ net'[t] = {} /\ stored = NoToken]_vars
  <2> SUFFICES ASSUME SessionInv, [Next]_vars, NEW t \in Tabs,
                      status[t] = "authenticated", status'[t] = "anonymous"
               PROVE  \/ \E r \in net[t] \ net'[t] :
                           r.kind \in GatedKinds /\ (r.reply = "refused" \/ r.kind = "logout")
                      \/ net'[t] = {} /\ stored = NoToken
    OBVIOUS
  <2>1. TypeOK /\ TabFits(t) /\ net[t] \in SUBSET Request
    BY DEF SessionInv, TypeOK
  \* All that a cleared tab goes on waiting for is detached, so the request that
  \* cleared it, or an attached one like it, is gone.
  <2>2. ASSUME NEW q \in Tabs, NEW r \in net[q], ClearSession(q), ClearCache(q, r),
               r.kind \in GatedKinds, r.reply = "refused" \/ r.kind = "logout"
        PROVE  \E x \in net[t] \ net'[t] :
                 x.kind \in GatedKinds /\ (x.reply = "refused" \/ x.kind = "logout")
    <3>1. q = t
      BY <2>1, <2>2 DEF ClearSession, TypeOK
    <3>2. net'[t] = {Detached(x) : x \in net[t] \ {r}}
      BY <2>1, <2>2, <3>1 DEF ClearCache, TypeOK
    <3>3. \A y \in net'[t] : ~y.attached
      BY <2>1, <3>2, DetachedType
    <3>4. CASE r \in net'[t]
      <4>1. PICK x \in net[t] \ {r} : r = Detached(x)
        BY <3>2, <3>4
      <4>2. x.attached /\ x.kind = r.kind /\ x.reply = r.reply
        BY <2>1, <4>1, DetachedType
      <4> QED
        BY <2>2, <3>3, <4>1, <4>2
    <3>5. CASE r \notin net'[t]
      BY <2>2, <3>1, <3>5
    <3> QED
      BY <3>4, <3>5
  <2>3. ASSUME NEW q \in Tabs, Open(q) PROVE net'[t] = {} /\ stored = NoToken
    BY <2>1, <2>3 DEF Open, TypeOK
  <2>4. ASSUME NEW q \in Tabs, NEW r \in net[q], Handle(q, r)
        PROVE  OnUnauthorized(q, r) \/ LoggedOut(q, r)
    <3>1. ~UNCHANGED status
      OBVIOUS
    <3>2. CASE SignedIn(q, r) \/ Hydrated(q, r)
      BY <2>1, <3>2 DEF SignedIn, AdoptSession, Hydrated, TypeOK
    <3>3. CASE HydrationFailed(q, r)
      <4>1. q = t
        BY <2>1, <3>3 DEF HydrationFailed, ClearSession, TypeOK
      <4>2. status[t] = "loading"
        BY <2>1, <3>3, <4>1 DEF HydrationFailed, TabFits
      <4> QED
        BY <4>2
    <3> QED
      BY <2>4, <3>1, <3>2, <3>3
         DEF Handle, SignInFailed, DataArrives, QueryRetried, GivenUp, WriteAnswered
  <2>5. UNCHANGED status \/ \E q \in Tabs : Open(q) \/ \E r \in net[q] : Handle(q, r)
    BY DEF Next, SubmitSignIn, AskServer, ClickLogout, Serve, GrantSession, ServeGated, Refuse,
           Lose, EndSession, vars, clientVars
  <2>6. ASSUME NEW q \in Tabs, NEW r \in net[q], OnUnauthorized(q, r) \/ LoggedOut(q, r)
        PROVE  /\ ClearSession(q) /\ ClearCache(q, r) /\ r.kind \in GatedKinds
               /\ r.reply = "refused" \/ r.kind = "logout"
    BY <2>6 DEF OnUnauthorized, Unauthorized, LoggedOut, GatedKinds
  <2> QED
    BY <2>2, <2>3, <2>4, <2>5, <2>6
<1> QED
  BY <1>1, SessionInit, SessionNext, PTL DEF Spec, SignOutHasCause

-----------------------------------------------------------------------------
(* A browser with one tab.                                                  *)

LEMMA NameInit == Init => NameInv
  BY SessionInit DEF Init, NameInv, NameFits

LEMMA NameNext ==
  ASSUME NEW tab, Tabs = {tab}
  PROVE  NameInv /\ [Next]_vars => NameInv'
<1> SUFFICES ASSUME NameInv, [Next]_vars PROVE NameFits(tab)'
  BY SessionNext DEF NameInv
<1>1. SessionInv /\ TypeOK /\ TabFits(tab) /\ NameFits(tab) /\ net[tab] \in SUBSET Request
  BY DEF NameInv, SessionInv, TypeOK
<1>2. CASE Open(tab)
  <2>1. CASE status'[tab] = "anonymous"
    BY <2>1 DEF NameFits
  <2>2. CASE stored' = stored /\ status'[tab] = "loading" /\ net'[tab] = {NewRequest("me")}
    <3>1. NewRequest("me").token = stored
      BY DEF NewRequest, PublicKinds
    <3> QED
      BY <2>2, <3>1 DEF NameFits
  <2> QED
    BY <1>1, <1>2, <2>1, <2>2 DEF Open, TypeOK
<1>3. ASSUME NEW kind, SubmitSignIn(tab, kind) \/ AskServer(tab, kind)
      PROVE  NameFits(tab)'
  BY <1>1, <1>3 DEF SubmitSignIn, AskServer, NameFits
<1>4. ASSUME NEW r \in net[tab], Serve(tab, r) PROVE NameFits(tab)'
  <2>1. PICK s : /\ net'[tab] = (net[tab] \ {r}) \cup {s}
                 /\ \E reply, grant : s = [r EXCEPT !.reply = reply, !.grant = grant]
    <3>1. PICK reply, grant : Reply(tab, r, reply, grant)
      BY <1>4 DEF Serve, GrantSession, ServeGated, Refuse, Lose
    <3>2. net'[tab] = (net[tab] \ {r}) \cup {[r EXCEPT !.reply = reply, !.grant = grant]}
      BY <1>1, <3>1 DEF Reply, TypeOK
    <3> QED
      BY <3>2
  <2>2. s.token = r.token
    BY <1>1, <2>1 DEF Request
  <2>3. UNCHANGED <<stored, status, shown>>
    BY <1>4 DEF Serve, GrantSession, ServeGated, Refuse, Lose
  <2> QED
    BY <1>1, <2>1, <2>2, <2>3 DEF NameFits
<1>5. ASSUME NEW r \in net[tab],
             \/ SignInFailed(tab, r) \/ DataArrives(tab, r) \/ QueryRetried(tab, r)
             \/ GivenUp(tab, r) \/ WriteAnswered(tab, r)
      PROVE  NameFits(tab)'
  <2>1. r.kind # "me" /\ UNCHANGED <<stored, status, shown>>
    BY <1>5 DEF SignInFailed, DataArrives, QueryRetried, GivenUp, WriteAnswered, PublicKinds
  <2> QED
    BY <1>1, <2>1 DEF TabFits, NameFits
<1>6. ASSUME NEW r \in net[tab],
             OnUnauthorized(tab, r) \/ LoggedOut(tab, r) \/ HydrationFailed(tab, r)
      PROVE  NameFits(tab)'
  <2>1. status'[tab] = "anonymous"
    BY <1>1, <1>6 DEF OnUnauthorized, LoggedOut, HydrationFailed, ClearSession, TypeOK
  <2> QED
    BY <2>1 DEF NameFits
<1>7. ASSUME NEW r \in net[tab], SignedIn(tab, r) PROVE NameFits(tab)'
  <2>1. r.grant \in Tokens
    BY <1>1, <1>7 DEF SignedIn, TabFits
  <2>2. /\ stored' = r.grant /\ shown'[tab] = Owner[r.grant]
        /\ status'[tab] = "authenticated"
    BY <1>1, <1>7 DEF SignedIn, AdoptSession, TypeOK
  <2> QED
    BY <2>1, <2>2 DEF NameFits
<1>8. ASSUME NEW r \in net[tab], Hydrated(tab, r) PROVE NameFits(tab)'
  <2>1. r.token \in Tokens /\ r.token = stored
    BY <1>1, <1>8 DEF Hydrated, TabFits, NameFits
  <2>2. /\ stored' = stored /\ shown'[tab] = Owner[r.token]
        /\ status'[tab] = "authenticated"
    BY <1>1, <1>8 DEF Hydrated, TypeOK
  <2> QED
    BY <2>1, <2>2 DEF NameFits
<1>9. CASE UNCHANGED vars \/ \E token \in Tokens : EndSession(token)
  BY <1>1, <1>9 DEF vars, clientVars, EndSession, NameFits
<1> QED
  BY <1>2, <1>3, <1>4, <1>5, <1>6, <1>7, <1>8, <1>9 DEF Next, Handle, ClickLogout

\* In a browser with one tab, every request of a signed-in screen, a retry of an earlier
\* one included, goes out under the name the screen shows, whatever answers are still
\* under way (adoptSession and clearSession of AuthProvider.tsx).
THEOREM OneNameShown ==
  ASSUME NEW tab, Tabs = {tab} PROVE Spec => ActsAsShown
<1>1. NameInv /\ [Next]_vars =>
        [\A t \in Tabs : \A r \in net'[t] \ net[t] :
           r.reply = "none" /\ (r.attached \/ r.kind \in {"write", "logout"}) =>
             r.token \in Tokens /\ Owner[r.token] = shown'[t]]_vars
  <2> SUFFICES ASSUME NameInv, [Next]_vars, NEW s \in net'[tab] \ net[tab],
                      s.reply = "none", s.attached \/ s.kind \in {"write", "logout"}
               PROVE  s.token \in Tokens /\ Owner[s.token] = shown'[tab]
    OBVIOUS
  <2>1. SessionInv /\ TypeOK /\ TabFits(tab) /\ NameFits(tab) /\ net[tab] \in SUBSET Request
    BY DEF NameInv, SessionInv, TypeOK
  <2>2. ASSUME NEW kind \in PublicKinds \cup GatedKinds, s = NewRequest(kind),
               UNCHANGED shown, kind \in PublicKinds \cup {"me"} \/ status[tab] = "authenticated"
        PROVE  s.token \in Tokens /\ Owner[s.token] = shown'[tab]
    <3>1. /\ s.kind = kind
          /\ s.attached <=> kind = "query"
          /\ kind \notin PublicKinds => s.token = stored
      BY <2>1, <2>2, NewRequestType
    <3>2. kind \notin PublicKinds \cup {"me"}
      BY <3>1 DEF PublicKinds
    <3> QED
      BY <2>1, <2>2, <3>1, <3>2 DEF NameFits
  <2>3. CASE Open(tab)
    <3>1. s = NewRequest("me")
      BY <2>1, <2>3 DEF Open, TypeOK
    <3>2. s.kind = "me" /\ ~s.attached
      BY <3>1 DEF NewRequest
    <3> QED
      BY <3>2
  <2>4. ASSUME NEW kind \in PublicKinds \cup GatedKinds,
               \/ SubmitSignIn(tab, kind) /\ kind \in PublicKinds
               \/ AskServer(tab, kind)
        PROVE  s.token \in Tokens /\ Owner[s.token] = shown'[tab]
    <3>1. s = NewRequest(kind) /\ UNCHANGED shown
      BY <2>1, <2>4 DEF SubmitSignIn, AskServer, Send, TypeOK
    <3> QED
      BY <2>2, <2>4, <3>1 DEF AskServer
  <2>5. ASSUME NEW r \in net[tab], Serve(tab, r) PROVE FALSE
    <3>1. PICK reply, grant : Reply(tab, r, reply, grant) /\ reply \in {"ok", "refused", "lost"}
      BY <2>5 DEF Serve, GrantSession, ServeGated, Refuse, Lose
    <3>2. net'[tab] = (net[tab] \ {r}) \cup {[r EXCEPT !.reply = reply, !.grant = grant]}
      BY <2>1, <3>1 DEF Reply, TypeOK
    <3>3. r \in Request
      BY <2>1
    <3>4. [r EXCEPT !.reply = reply, !.grant = grant].reply = reply
      BY <3>3 DEF Request
    <3> QED
      BY <3>1, <3>2, <3>4
  <2>6. ASSUME NEW r \in net[tab], Received(tab, r) PROVE FALSE
    BY <2>1, <2>6 DEF Received, TypeOK
  <2>7. ASSUME NEW r \in net[tab], ClearCache(tab, r) PROVE FALSE
    <3>1. PICK q \in net[tab] : s = Detached(q)
      BY <2>1, <2>7 DEF ClearCache, TypeOK
    <3>2. ~s.attached /\ s.kind = q.kind /\ (~q.attached => s = q)
      BY <2>1, <3>1, DetachedType
    <3>3. q.attached => q.kind = "query"
      BY <2>1 DEF TabFits
    <3> QED
      BY <3>2, <3>3
  <2>8. ASSUME NEW r \in net[tab], QueryRetried(tab, r)
        PROVE  s.token \in Tokens /\ Owner[s.token] = shown'[tab]
    <3>1. s = NewRequest("query") /\ UNCHANGED shown /\ status[tab] = "authenticated"
      BY <2>1, <2>8 DEF QueryRetried, TypeOK, TabFits
    <3> QED
      BY <2>2, <3>1 DEF GatedKinds
  <2>9. CASE UNCHANGED vars \/ \E token \in Tokens : EndSession(token)
    BY <2>9 DEF vars, clientVars, EndSession
  <2>10. ASSUME NEW r \in net[tab], Handle(tab, r)
         PROVE  Received(tab, r) \/ ClearCache(tab, r) \/ QueryRetried(tab, r)
    BY <2>10 DEF Handle, SignedIn, SignInFailed, OnUnauthorized, Hydrated, HydrationFailed,
                 LoggedOut, DataArrives, GivenUp, WriteAnswered
  <2> QED
    BY <2>3, <2>4, <2>5, <2>6, <2>7, <2>8, <2>9, <2>10 DEF Next, ClickLogout, GatedKinds
<1> QED
  BY <1>1, NameInit, NameNext, PTL DEF Spec, ActsAsShown
=============================================================================

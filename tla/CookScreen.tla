----------------------------- MODULE CookScreen -----------------------------
(***************************************************************************)
(* The recipe screen around a cook: the multiplier, the availability it    *)
(* asks for, the history of the recipe, and the button that cooks.  The    *)
(* availability has one entry of the query cache for each multiplier, and  *)
(* only the entry of the multiplier shown is observed.  A cook may still   *)
(* be under way when the screen is left and opened again; one that is      *)
(* clicked without a connection waits for it.                              *)
(***************************************************************************)
EXTENDS QueryCache, Naturals, Sequences

CONSTANTS
  Multipliers,  \* the multipliers the member chooses from
  One,          \* the multiplier a visit starts with
  MaxCooks, MaxOthers, MaxFaults, MaxVisits, MaxGaps
    \* bounds on the clicks, on what others do, on the failures, on the visits and on
    \* the gaps in the connection

History == "history"
Entries == Multipliers \cup {History}

ASSUME MultiplierAssumption == One \in Multipliers /\ History \notin Multipliers
ASSUME BoundsAssumption ==
  /\ MaxCooks \in Nat /\ MaxOthers \in Nat /\ MaxFaults \in Nat
  /\ MaxVisits \in Nat \ {0} /\ MaxGaps \in Nat

VARIABLES
  stock,       \* the version of the household's stock
  logs,        \* how often the recipe was cooked
  cache,       \* ["availability", id, multiplier] and ["recipe-cook-logs", id]
  multiplier, deduct,
  cooks,       \* the cooks clicked so far
  here,        \* the screen is shown
  online,
  told,        \* history: the newest state an entry was invalidated for while it was shown
  others, faults, visits, gaps

shownVars == <<multiplier, deduct>>
counters  == <<others, faults, visits, gaps>>
vars      == <<stock, logs, cache, shownVars, cooks, here, online, told, counters>>

States == 0 .. (MaxCooks + MaxOthers)
Order  == [multiplier : Multipliers, deduct : BOOLEAN]

Cooking ==
  [order : Order, visit : 1 .. MaxVisits,
   phase : {"paused", "asked", "answered", "settled"},
   reply : {"none", "ok", "conflict", "failed"}, stock : States, logs : States]

TypeOK ==
  /\ stock \in States /\ logs \in States
  /\ DOMAIN cache = Entries /\ \A k \in Entries : IsQuery(cache[k], States)
  /\ multiplier \in Multipliers /\ deduct \in BOOLEAN
  /\ cooks \in Seq(Cooking) /\ Len(cooks) <= MaxCooks
  /\ here \in BOOLEAN /\ online \in BOOLEAN /\ told \in [Entries -> States]
  /\ \A c, d \in DOMAIN cooks :    \* the button is disabled while its cook is pending
       c # d /\ cooks[c].phase # "settled" /\ cooks[d].phase # "settled"
         => cooks[c].visit # cooks[d].visit

Observed(k)  == here /\ k \in {multiplier, History}
MyPending(c) == here /\ cooks[c].visit = visits /\ cooks[c].phase # "settled"

Pending == \E c \in DOMAIN cooks : MyPending(c)

-----------------------------------------------------------------------------
Opened(entries) == [k \in Entries |-> IF k \in {One, History} THEN Fetch(entries[k]) ELSE entries[k]]

Init ==
  /\ stock = 0 /\ logs = 0
  /\ cache = Opened([k \in Entries |-> NewQuery])
  /\ multiplier = One /\ deduct = TRUE
  /\ cooks = <<>> /\ here = TRUE /\ online = TRUE
  /\ told = [k \in Entries |-> 0]
  /\ others = 0 /\ faults = 0 /\ visits = 1 /\ gaps = 0

\* useMutation hands its newest function to a cook that is pending: one that still
\* waits for the connection will send what the screen shows by then.
Rerendered(order) ==
  cooks' = [c \in DOMAIN cooks |-> IF MyPending(c) /\ cooks[c].phase = "paused"
                                   THEN [cooks[c] EXCEPT !.order = order] ELSE cooks[c]]

SetMultiplier(m) ==
  /\ here /\ m # multiplier
  /\ multiplier' = m
  /\ cache' = [cache EXCEPT ![m] = Fetch(@)]
  /\ Rerendered([multiplier |-> m, deduct |-> deduct])
  /\ UNCHANGED <<stock, logs, deduct, here, online, told, counters>>

SetDeduct ==
  /\ here
  /\ deduct' = ~deduct
  /\ Rerendered([multiplier |-> multiplier, deduct |-> ~deduct])
  /\ UNCHANGED <<stock, logs, cache, multiplier, here, online, told, counters>>

Cook ==
  /\ here /\ ~Pending /\ Len(cooks) < MaxCooks
  /\ LET order == [multiplier |-> multiplier, deduct |-> deduct]
     IN cooks' = Append(cooks, [order |-> order, visit |-> visits,
                                phase |-> IF online THEN "asked" ELSE "paused", reply |-> "none",
                                stock |-> 0, logs |-> 0])
  /\ UNCHANGED <<stock, logs, cache, shownVars, here, online, told, counters>>

\* Retry, in the panel of a query that failed.
Retry(k) ==
  /\ Observed(k) /\ cache[k].failed
  /\ cache' = [cache EXCEPT ![k] = Refetch(@)]
  /\ UNCHANGED <<stock, logs, shownVars, cooks, here, online, told, counters>>

Leave ==
  /\ here /\ visits < MaxVisits
  /\ here' = FALSE
  /\ UNCHANGED <<stock, logs, cache, shownVars, cooks, online, told, counters>>

\* A new visit starts with a multiplier of one, and with the deduction.
Visit ==
  /\ ~here
  /\ here' = TRUE /\ visits' = visits + 1
  /\ multiplier' = One /\ deduct' = TRUE
  /\ cache' = Opened(cache)
  /\ UNCHANGED <<stock, logs, cooks, online, told, others, faults, gaps>>

-----------------------------------------------------------------------------
(* The server.                                                             *)

CookRecipe(c) ==
  /\ online /\ cooks[c].phase = "asked"
  /\ stock' = IF cooks[c].order.deduct THEN stock + 1 ELSE stock
  /\ logs' = logs + 1
  /\ cooks' = [cooks EXCEPT ![c].phase = "answered", ![c].reply = "ok",
                            ![c].stock = stock', ![c].logs = logs']
  /\ UNCHANGED <<cache, shownVars, here, online, told, counters>>

\* The lock timed out: nothing was written.
Conflict(c) ==
  /\ online /\ cooks[c].phase = "asked" /\ faults < MaxFaults
  /\ cooks' = [cooks EXCEPT ![c].phase = "answered", ![c].reply = "conflict"]
  /\ faults' = faults + 1
  /\ UNCHANGED <<stock, logs, cache, shownVars, here, online, told, others, visits, gaps>>

\* The request is lost, or the answer to it.
Lost(c) ==
  /\ faults < MaxFaults
  /\ \/ cooks[c].phase = "asked"
     \/ cooks[c].phase = "answered" /\ cooks[c].reply = "ok"
  /\ cooks' = [cooks EXCEPT ![c].phase = "answered", ![c].reply = "failed"]
  /\ faults' = faults + 1
  /\ UNCHANGED <<stock, logs, cache, shownVars, here, online, told, others, visits, gaps>>

\* Somebody else cooks the recipe.
OthersCook ==
  /\ others < MaxOthers
  /\ stock' = stock + 1 /\ logs' = logs + 1 /\ others' = others + 1
  /\ UNCHANGED <<cache, shownVars, cooks, here, online, told, faults, visits, gaps>>

Read(k) ==
  /\ online /\ cache[k].phase = "asked"
  /\ cache' = [cache EXCEPT ![k] = ReadAs(@, IF k = History THEN logs ELSE stock)]
  /\ UNCHANGED <<stock, logs, shownVars, cooks, here, online, told, counters>>

Arrives(k) ==
  /\ online /\ cache[k].phase = "read"
  /\ cache' = [cache EXCEPT ![k] = Deliver(@)]
  /\ UNCHANGED <<stock, logs, shownVars, cooks, here, online, told, counters>>

Fails(k) ==
  /\ online /\ Fetching(cache[k]) /\ faults < MaxFaults
  /\ cache' = [cache EXCEPT ![k] = Fail(@)] /\ faults' = faults + 1
  /\ UNCHANGED <<stock, logs, shownVars, cooks, here, online, told, others, visits, gaps>>

-----------------------------------------------------------------------------
(* The answer.                                                             *)

\* invalidateQueries: what is observed is fetched anew; the rest will be when it is shown.
Invalidate(keys) ==
  cache' = [k \in Entries |-> IF k \in keys /\ Observed(k) THEN Refetch(cache[k]) ELSE cache[k]]

\* An entry that has an answer is asked for anew; a first load under way is joined.
TellOf(c, keys) ==
  told' = [k \in Entries |->
             IF k \in keys /\ Observed(k) /\ cache[k].data # NoData
             THEN IF k = History THEN cooks[c].logs ELSE cooks[c].stock
             ELSE told[k]]

\* Mutant: the availability of the multiplier that was cooked.
StaleAfterOfClick(c) ==
  IF cooks[c].reply = "ok" THEN {cooks[c].order.multiplier, History}
  ELSE IF cooks[c].reply = "conflict" THEN {cooks[c].order.multiplier} ELSE {}

\* What a cook makes stale: on a conflict the views of the stock only.
StaleAfter(c) ==
  IF cooks[c].reply = "ok" THEN Entries
  ELSE IF cooks[c].reply = "conflict" THEN Multipliers ELSE {}

CookAnswered(c) ==
  /\ online \/ cooks[c].reply = "failed"
  /\ cooks[c].phase = "answered"
  /\ cooks' = [cooks EXCEPT ![c].phase = "settled"]
  /\ Invalidate(StaleAfter(c))
  /\ IF cooks[c].reply = "ok" THEN TellOf(c, Entries) ELSE UNCHANGED told
  /\ UNCHANGED <<stock, logs, shownVars, here, online, counters>>

-----------------------------------------------------------------------------
(* The connection.                                                         *)

\* What is being fetched is asked again later; a cook under way has failed, whether
\* it was done or not.
GoOffline ==
  /\ online /\ gaps < MaxGaps
  /\ online' = FALSE /\ gaps' = gaps + 1
  /\ cache' = [k \in Entries |-> IF Fetching(cache[k]) THEN [Cancel(cache[k]) EXCEPT !.phase = "asked"]
                                 ELSE cache[k]]
  /\ cooks' = [c \in DOMAIN cooks |->
                 IF cooks[c].phase \in {"asked", "answered"}
                 THEN [cooks[c] EXCEPT !.phase = "answered", !.reply = "failed"] ELSE cooks[c]]
  /\ UNCHANGED <<stock, logs, shownVars, here, told, others, faults, visits>>

\* Mutant: only the cook of the screen that is shown goes on.
ResumedHere ==
  [c \in DOMAIN cooks |-> IF cooks[c].phase = "paused" /\ MyPending(c)
                          THEN [cooks[c] EXCEPT !.phase = "asked"] ELSE cooks[c]]

Resumed ==
  [c \in DOMAIN cooks |-> IF cooks[c].phase = "paused"
                          THEN [cooks[c] EXCEPT !.phase = "asked"] ELSE cooks[c]]

\* The paused cooks are sent, and what is shown is fetched; the library waits for the
\* cooks first, and no property relies on that.
GoOnline ==
  /\ ~online
  /\ online' = TRUE
  /\ cooks' = Resumed
  /\ cache' = [k \in Entries |-> IF Observed(k) THEN Fetch(cache[k]) ELSE cache[k]]
  /\ UNCHANGED <<stock, logs, shownVars, here, told, counters>>

Next ==
  \/ (\E m \in Multipliers : SetMultiplier(m)) \/ SetDeduct \/ Cook \/ Leave \/ Visit
  \/ \E k \in Entries : Retry(k) \/ Read(k) \/ Arrives(k) \/ Fails(k)
  \/ \E c \in DOMAIN cooks : CookRecipe(c) \/ Conflict(c) \/ Lost(c) \/ CookAnswered(c)
  \/ OthersCook \/ GoOffline \/ GoOnline

Spec == Init /\ [][Next]_vars

\* The connection comes back, and a request is answered or given up.
Fairness ==
  /\ WF_vars(GoOnline)
  /\ \A k \in Entries : WF_vars(Read(k) \/ Arrives(k) \/ Fails(k))
  /\ \A c \in 1 .. MaxCooks :
       WF_vars(c \in DOMAIN cooks /\ (CookRecipe(c) \/ Conflict(c) \/ Lost(c) \/ CookAnswered(c)))
LiveSpec == Spec /\ Fairness

-----------------------------------------------------------------------------
(* Properties.                                                             *)

Settled(k) == Observed(k) /\ ~Fetching(cache[k]) /\ ~cache[k].failed

\* Once a cook was told as done, the availability at the multiplier shown and the
\* history come to include it, at whatever multiplier it was clicked and whatever was
\* looked at since; unless the entry was on its first load by then.
RestKnowsCooks == \A k \in Entries : Settled(k) => cache[k].data >= told[k]

\* A cook comes to an end, also one that was clicked without a connection and whose
\* screen was left before the connection came back; its button is free again.
CooksEnd == \A c \in 1 .. MaxCooks :
  (c \in DOMAIN cooks) ~> (c \in DOMAIN cooks /\ cooks[c].phase = "settled")
=============================================================================

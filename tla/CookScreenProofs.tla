--------------------------- MODULE CookScreenProofs ---------------------------
(* The recipe's screen around a cook, for any multipliers, clicks, visits and   *)
(* gaps in the connection: its state is of its types (PanelTyped), and a screen *)
(* at rest shows every cook that was told as done (TellsOfCooks).               *)
EXTENDS CookScreen, FiniteSetTheorems, TLAPS

Query ==
  [data : States \cup {NoData}, phase : {"idle", "asked", "read"},
   snap : States \cup {NoData}, failed : BOOLEAN]

\* The stock or the logs: what an entry is about.
Current(k) == IF k = History THEN logs ELSE stock

\* Every variable is of its type.
ShownTyped ==
  /\ multiplier \in Multipliers /\ deduct \in BOOLEAN
  /\ here \in BOOLEAN /\ online \in BOOLEAN /\ visits \in 1 .. MaxVisits
  /\ ~here => visits < MaxVisits

OnePending ==
  \A c, d \in DOMAIN cooks :
    c # d /\ cooks[c].phase # "settled" /\ cooks[d].phase # "settled"
      => cooks[c].visit # cooks[d].visit

CooksTyped == cooks \in Seq(Cooking) /\ Len(cooks) <= MaxCooks /\ OnePending

\* The logs count the cooks that were served and those of others, and every cook that
\* takes from the stock is logged.
Served == {c \in DOMAIN cooks : cooks[c].logs # 0}

CountFits ==
  /\ stock \in Nat /\ others \in 0 .. MaxOthers
  /\ stock <= logs /\ logs = Cardinality(Served) + others

\* A cook knows of a state there has been, and of none before it is served.
CookFits(cook) ==
  /\ cook.stock <= stock /\ cook.logs <= logs
  /\ cook.phase \in {"paused", "asked"} => cook.logs = 0

CooksFit == CooksTyped /\ CountFits /\ \A c \in DOMAIN cooks : CookFits(cooks[c])

\* What an entry has, or is about to have, is not older than what was told of it.
Holds(entry, t) ==
  /\ entry.phase = "read" => entry.snap \in States /\ entry.snap >= t
  /\ entry.phase = "idle" /\ ~entry.failed /\ entry.data \in States => entry.data >= t

\* An entry that rests without an error has an answer.
Sound(entry) == entry.phase = "idle" /\ ~entry.failed => entry.data \in States

EntryFits(k) ==
  /\ told[k] <= Current(k)
  /\ Holds(cache[k], told[k])
  /\ Observed(k) => Sound(cache[k])

CacheFits ==
  /\ cache \in [Entries -> Query] /\ told \in [Entries -> States]
  /\ \A k \in Entries : EntryFits(k)

PanelInv == ShownTyped /\ CooksFit /\ CacheFits

-----------------------------------------------------------------------------
(* The bounds, and the numbers of states.                                   *)

LEMMA BoundsAre ==
  /\ MaxCooks \in Nat /\ MaxOthers \in Nat /\ MaxVisits \in Nat /\ 1 <= MaxVisits
  /\ \A n : n \in States <=> n \in Nat /\ n <= MaxCooks + MaxOthers
  BY BoundsAssumption DEF States

LEMMA EntriesAre ==
  /\ One \in Multipliers /\ One \in Entries /\ History \in Entries /\ One # History
  /\ \A m \in Multipliers : m \in Entries /\ m # History
  /\ \A k \in Entries : k = History \/ k \in Multipliers
  BY MultiplierAssumption DEF Entries

LEMMA CooksAre ==
  ASSUME CooksTyped
  PROVE  /\ Len(cooks) \in Nat /\ DOMAIN cooks = 1 .. Len(cooks)
         /\ \A c \in DOMAIN cooks : cooks[c] \in Cooking
<1>1. cooks \in Seq(Cooking)
  BY DEF CooksTyped
<1> QED
  BY <1>1

LEMMA CookIs ==
  ASSUME NEW cook \in Cooking
  PROVE  /\ cook.stock \in Nat /\ cook.logs \in Nat /\ cook.visit \in 1 .. MaxVisits
         /\ cook.order \in Order
  BY BoundsAre DEF Cooking

\* The cooks that are not served yet leave room for their logs.
LEMMA ServedFinite ==
  ASSUME CooksTyped
  PROVE  /\ IsFiniteSet(Served) /\ Cardinality(Served) \in Nat
         /\ Cardinality(Served) <= MaxCooks
         /\ \A c \in DOMAIN cooks : c \notin Served => Cardinality(Served) < MaxCooks
<1>1. PICK n \in Nat : n = Len(cooks)
  BY CooksAre
<1>2. DOMAIN cooks = 1 .. n /\ n <= MaxCooks
  BY <1>1, CooksAre DEF CooksTyped
<1>3. Served \in SUBSET (1 .. n)
  BY <1>2 DEF Served
<1>4. IsFiniteSet(1 .. n) /\ Cardinality(1 .. n) = n
  BY FS_Interval
<1>5. IsFiniteSet(Served) /\ Cardinality(Served) <= n /\ Cardinality(Served) \in Nat
  BY <1>3, <1>4, FS_Subset, FS_CardinalityType
<1>6. ASSUME NEW c \in 1 .. n, c \notin Served PROVE Cardinality(Served) < n
  <2>1. Cardinality(Served \cup {c}) = Cardinality(Served) + 1
    BY <1>5, <1>6, FS_AddElement
  <2>2. Served \cup {c} \in SUBSET (1 .. n)
    BY <1>3
  <2>3. Cardinality(Served \cup {c}) <= n
    BY <1>4, <2>2, FS_Subset
  <2> QED
    BY <1>1, <1>5, <2>1, <2>3
<1>7. Cardinality(Served) <= MaxCooks
  BY <1>1, <1>2, <1>5, BoundsAre
<1>8. ASSUME NEW c \in DOMAIN cooks, c \notin Served PROVE Cardinality(Served) < MaxCooks
  BY <1>1, <1>2, <1>5, <1>6, <1>8, BoundsAre
<1> QED
  BY <1>5, <1>7, <1>8

LEMMA CountsAre ==
  ASSUME CooksTyped, CountFits
  PROVE  /\ stock \in States /\ logs \in States /\ stock \in Nat /\ logs \in Nat
         /\ others \in Nat /\ others <= MaxOthers
         /\ \A k : Current(k) \in States /\ Current(k) \in Nat
<1>1. Cardinality(Served) \in Nat /\ Cardinality(Served) <= MaxCooks
  BY ServedFinite
<1>2. /\ stock \in Nat /\ others \in Nat /\ others <= MaxOthers
      /\ stock <= logs /\ logs = Cardinality(Served) + others
  BY BoundsAre DEF CountFits
<1>3. logs \in Nat /\ logs <= MaxCooks + MaxOthers /\ stock <= MaxCooks + MaxOthers
  BY <1>1, <1>2, BoundsAre
<1> QED
  BY <1>2, <1>3, BoundsAre DEF Current

-----------------------------------------------------------------------------
(* The entries of the cache.                                                *)

\* A fetch begun, or joined.
LEMMA FetchIs ==
  ASSUME NEW e \in Query
  PROVE  /\ Fetch(e) \in Query /\ Sound(Fetch(e)) /\ Fetch(e).phase # "idle"
         /\ \A t : Holds(e, t) => Holds(Fetch(e), t)
<1>1. CASE Fetching(e)
  BY <1>1 DEF Fetch, Fetching, Sound
<1>2. CASE ~Fetching(e)
  <2>1. Fetch(e) \in Query /\ Fetch(e).phase = "asked"
    BY <1>2 DEF Fetch, Query
  <2> QED
    BY <2>1 DEF Holds, Sound
<1> QED
  BY <1>1, <1>2

\* Asked anew, unless the first answer is still awaited.
LEMMA RefetchIs ==
  ASSUME NEW e \in Query
  PROVE  /\ Refetch(e) \in Query /\ Sound(Refetch(e)) /\ Refetch(e).phase # "idle"
         /\ e.data # NoData => \A t : Holds(Refetch(e), t)
         /\ \A t : Holds(e, t) => Holds(Refetch(e), t)
<1>1. CASE e.data = NoData
  BY <1>1, FetchIs DEF Refetch
<1>2. CASE e.data # NoData
  <2>1. Refetch(e) \in Query /\ Refetch(e).phase = "asked"
    BY <1>2 DEF Refetch, Query
  <2> QED
    BY <2>1 DEF Holds, Sound
<1> QED
  BY <1>1, <1>2

LEMMA FailIs ==
  ASSUME NEW e \in Query
  PROVE  Fail(e) \in Query /\ Sound(Fail(e)) /\ \A t : Holds(Fail(e), t)
<1>1. Fail(e) \in Query /\ Fail(e).phase = "idle" /\ Fail(e).failed
  BY DEF Fail, Cancel, Query
<1> QED
  BY <1>1 DEF Holds, Sound

LEMMA ReadIs ==
  ASSUME NEW e \in Query, NEW s \in States
  PROVE  /\ ReadAs(e, s) \in Query /\ Sound(ReadAs(e, s))
         /\ \A t : s >= t => Holds(ReadAs(e, s), t)
<1>1. ReadAs(e, s) \in Query /\ ReadAs(e, s).phase = "read" /\ ReadAs(e, s).snap = s
  BY DEF ReadAs, Query
<1> QED
  BY <1>1 DEF Holds, Sound

LEMMA DeliverIs ==
  ASSUME NEW e \in Query, e.phase = "read", NEW t, Holds(e, t)
  PROVE  Deliver(e) \in Query /\ Sound(Deliver(e)) /\ Holds(Deliver(e), t)
<1>1. Deliver(e) \in Query /\ Deliver(e).phase = "idle" /\ Deliver(e).data = e.snap
  BY DEF Deliver, Cancel, Query
<1> QED
  BY <1>1 DEF Holds, Sound

\* What was under way is asked again.
LEMMA AskedAgain ==
  ASSUME NEW e \in Query
  PROVE  LET a == [Cancel(e) EXCEPT !.phase = "asked"]
         IN  a \in Query /\ Sound(a) /\ \A t : Holds(a, t)
<1> DEFINE a == [Cancel(e) EXCEPT !.phase = "asked"]
<1>1. a \in Query /\ a.phase = "asked"
  BY DEF Cancel, Query
<1> HIDE DEF a
<1>2. Sound(a) /\ \A t : Holds(a, t)
  BY <1>1 DEF Holds, Sound
<1> QED
  BY <1>1, <1>2 DEF a

-----------------------------------------------------------------------------
(* Steps of the parts of the state.                                         *)

\* The cooks, the stock and the logs, of a step that serves no cook.
LEMMA CooksKept ==
  ASSUME CooksFit, UNCHANGED <<stock, logs, others>>,
         cooks' \in Seq(Cooking), Len(cooks') = Len(cooks),
         \A c \in DOMAIN cooks :
           /\ cooks'[c].visit = cooks[c].visit /\ cooks'[c].stock = cooks[c].stock
           /\ cooks'[c].logs = cooks[c].logs
           /\ cooks'[c].phase # "settled" => cooks[c].phase # "settled"
           /\ cooks'[c].phase \in {"paused", "asked"} => cooks[c].phase \in {"paused", "asked"}
  PROVE  CooksFit'
<1>1. DOMAIN cooks' = DOMAIN cooks /\ Len(cooks') <= MaxCooks
  BY CooksAre DEF CooksFit, CooksTyped
<1>2. OnePending'
  BY <1>1 DEF CooksFit, CooksTyped, OnePending
<1>3. Served' = Served
  BY <1>1 DEF Served
<1>4. \A c \in DOMAIN cooks' : CookFits(cooks[c])'
  BY <1>1 DEF CooksFit, CookFits
<1> QED
  BY <1>1, <1>2, <1>3, <1>4 DEF CooksFit, CooksTyped, CountFits

LEMMA CooksUnchanged ==
  ASSUME CooksFit, UNCHANGED <<stock, logs, others, cooks>>
  PROVE  CooksFit'
  BY CooksKept, CooksAre DEF CooksFit, CooksTyped

\* A map over the cooks.
LEMMA MappedIs ==
  ASSUME CooksTyped, NEW f, cooks' = [c \in DOMAIN cooks |-> f[c]],
         \A c \in DOMAIN cooks : f[c] \in Cooking
  PROVE  /\ cooks' \in Seq(Cooking) /\ Len(cooks') = Len(cooks)
         /\ \A c \in DOMAIN cooks : cooks'[c] = f[c]
<1>1. PICK n \in Nat : n = Len(cooks)
  BY CooksAre
<1>2. DOMAIN cooks = 1 .. n
  BY <1>1, CooksAre
<1>3. cooks' \in [1 .. n -> Cooking]
  BY <1>2
<1> QED
  BY <1>1, <1>2, <1>3

\* One cook replaced.
LEMMA ReplacedIs ==
  ASSUME CooksTyped, NEW c \in DOMAIN cooks, NEW cook \in Cooking,
         cooks' = [cooks EXCEPT ![c] = cook]
  PROVE  /\ cooks' \in Seq(Cooking) /\ Len(cooks') = Len(cooks) /\ DOMAIN cooks' = DOMAIN cooks
         /\ cooks'[c] = cook /\ \A d \in DOMAIN cooks \ {c} : cooks'[d] = cooks[d]
<1>1. cooks \in Seq(Cooking)
  BY DEF CooksTyped
<1> QED
  BY <1>1

\* A cook that is answered, or settled, without being served.
LEMMA AnsweredKept ==
  ASSUME CooksFit, UNCHANGED <<stock, logs, others>>,
         NEW c \in DOMAIN cooks, NEW cook \in Cooking, cooks' = [cooks EXCEPT ![c] = cook],
         cook.visit = cooks[c].visit, cook.stock = cooks[c].stock, cook.logs = cooks[c].logs,
         cook.phase \in {"answered", "settled"}, cooks[c].phase # "settled"
  PROVE  CooksFit'
<1>1. CooksTyped
  BY DEF CooksFit
<1>2. /\ cooks' \in Seq(Cooking) /\ Len(cooks') = Len(cooks)
      /\ cooks'[c] = cook /\ \A d \in DOMAIN cooks \ {c} : cooks'[d] = cooks[d]
  BY <1>1, ReplacedIs
<1>3. \A d \in DOMAIN cooks :
        /\ cooks'[d].visit = cooks[d].visit /\ cooks'[d].stock = cooks[d].stock
        /\ cooks'[d].logs = cooks[d].logs
        /\ cooks'[d].phase # "settled" => cooks[d].phase # "settled"
        /\ cooks'[d].phase \in {"paused", "asked"} => cooks[d].phase \in {"paused", "asked"}
  BY <1>2
<1> QED
  BY <1>2, <1>3, CooksKept

\* The cache, of a step that leaves it alone.
LEMMA CacheKept ==
  ASSUME CacheFits, CooksFit, CooksFit', UNCHANGED <<cache, told>>,
         stock <= stock', logs <= logs',
         \A k \in Entries : Observed(k)' => Observed(k)
  PROVE  CacheFits'
<1> SUFFICES ASSUME NEW k \in Entries PROVE EntryFits(k)'
  BY DEF CacheFits
<1>1. EntryFits(k) /\ told[k] \in Nat
  BY BoundsAre DEF CacheFits
<1>2. stock \in Nat /\ logs \in Nat /\ stock' \in Nat /\ logs' \in Nat
  BY CountsAre DEF CooksFit, CountFits
<1>3. told[k] <= Current(k)'
  BY <1>1, <1>2 DEF EntryFits, Current
<1> QED
  BY <1>1, <1>3 DEF EntryFits

\* One entry changes.
LEMMA CacheStep ==
  ASSUME CacheFits, UNCHANGED <<stock, logs, told>>, NEW k \in Entries, NEW e \in Query,
         cache' = [cache EXCEPT ![k] = e], Holds(e, told[k]), Sound(e),
         \A j \in Entries \ {k} : Observed(j)' => Observed(j)
  PROVE  CacheFits'
<1>1. cache \in [Entries -> Query]
  BY DEF CacheFits
<1>2. /\ cache' \in [Entries -> Query] /\ cache'[k] = e
      /\ \A j \in Entries \ {k} : cache'[j] = cache[j]
  BY <1>1
<1>3. ASSUME NEW j \in Entries PROVE EntryFits(j)'
  <2>1. EntryFits(j) /\ told'[j] = told[j] /\ Current(j)' = Current(j)
    BY DEF CacheFits, Current
  <2>2. CASE j = k
    BY <1>2, <2>1, <2>2 DEF EntryFits
  <2>3. CASE j # k
    BY <1>2, <2>1, <2>3 DEF EntryFits
  <2> QED
    BY <2>2, <2>3
<1> QED
  BY <1>2, <1>3 DEF CacheFits

\* Every entry is left alone or changed for one that fits, and nothing is told.
LEMMA CacheMapped ==
  ASSUME CacheFits, UNCHANGED <<stock, logs, told>>, NEW f,
         cache' = [k \in Entries |-> f[k]],
         \A k \in Entries : f[k] \in Query /\ Holds(f[k], told[k]) /\ (Observed(k)' => Sound(f[k]))
  PROVE  CacheFits'
<1>1. cache' \in [Entries -> Query] /\ \A k \in Entries : cache'[k] = f[k]
  OBVIOUS
<1>2. ASSUME NEW j \in Entries PROVE EntryFits(j)'
  <2>1. told'[j] = told[j] /\ Current(j)' = Current(j) /\ told[j] <= Current(j)
    BY DEF CacheFits, Current, EntryFits
  <2> QED
    BY <1>1, <2>1 DEF EntryFits
<1> QED
  BY <1>1, <1>2 DEF CacheFits

-----------------------------------------------------------------------------
(* The member.                                                              *)

\* A cook that waits for the connection takes over what the screen shows.
LEMMA RerenderedIs ==
  ASSUME CooksFit, NEW order \in Order, Rerendered(order), UNCHANGED <<stock, logs, others>>
  PROVE  CooksFit'
<1> DEFINE f == [c \in DOMAIN cooks |-> IF MyPending(c) /\ cooks[c].phase = "paused"
                                       THEN [cooks[c] EXCEPT !.order = order] ELSE cooks[c]]
<1>1. CooksTyped /\ \A c \in DOMAIN cooks : cooks[c] \in Cooking
  BY CooksAre DEF CooksFit
<1>2. ASSUME NEW c \in DOMAIN cooks
      PROVE  /\ f[c] \in Cooking /\ f[c].visit = cooks[c].visit /\ f[c].stock = cooks[c].stock
             /\ f[c].logs = cooks[c].logs /\ f[c].phase = cooks[c].phase
  <2>1. cooks[c] \in Cooking
    BY <1>1
  <2>2. f[c] = cooks[c] \/ f[c] = [cooks[c] EXCEPT !.order = order]
    OBVIOUS
  <2> HIDE DEF f
  <2> QED
    BY <2>1, <2>2 DEF Cooking
<1>3. cooks' = [c \in DOMAIN cooks |-> f[c]]
  BY DEF Rerendered
<1> HIDE DEF f
<1>4. /\ cooks' \in Seq(Cooking) /\ Len(cooks') = Len(cooks)
      /\ \A c \in DOMAIN cooks : cooks'[c] = f[c]
  BY <1>1, <1>2, <1>3, MappedIs
<1> QED
  BY <1>2, <1>4, CooksKept

LEMMA SetMultiplierStep ==
  ASSUME PanelInv, NEW m \in Multipliers, SetMultiplier(m)
  PROVE  PanelInv'
<1>1. /\ multiplier' = m /\ cache' = [cache EXCEPT ![m] = Fetch(cache[m])]
      /\ Rerendered([multiplier |-> m, deduct |-> deduct])
      /\ UNCHANGED <<stock, logs, deduct, here, online, told, others, visits>>
  BY DEF SetMultiplier, counters
<1>2. ShownTyped /\ CooksFit /\ CacheFits
  BY DEF PanelInv
<1>3. ShownTyped'
  BY <1>1, <1>2 DEF ShownTyped
<1>4. CooksFit'
  <2>1. [multiplier |-> m, deduct |-> deduct] \in Order
    BY <1>2 DEF Order, ShownTyped
  <2> QED
    BY <1>1, <1>2, <2>1, RerenderedIs
<1>5. m \in Entries /\ cache[m] \in Query /\ Holds(cache[m], told[m])
  BY <1>2, EntriesAre DEF CacheFits, EntryFits
<1>6. Fetch(cache[m]) \in Query /\ Sound(Fetch(cache[m])) /\ Holds(Fetch(cache[m]), told[m])
  BY <1>5, FetchIs
<1>7. \A j \in Entries \ {m} : Observed(j)' => Observed(j)
  BY <1>1 DEF Observed
<1>8. CacheFits'
  BY <1>1, <1>2, <1>5, <1>6, <1>7, CacheStep
<1> QED
  BY <1>3, <1>4, <1>8 DEF PanelInv

LEMMA SetDeductStep == ASSUME PanelInv, SetDeduct PROVE PanelInv'
<1>1. /\ deduct' = ~deduct /\ Rerendered([multiplier |-> multiplier, deduct |-> ~deduct])
      /\ UNCHANGED <<stock, logs, cache, multiplier, here, online, told, others, visits>>
  BY DEF SetDeduct, counters
<1>2. ShownTyped /\ CooksFit /\ CacheFits
  BY DEF PanelInv
<1>3. ShownTyped'
  BY <1>1, <1>2 DEF ShownTyped
<1>4. CooksFit'
  <2>1. [multiplier |-> multiplier, deduct |-> ~deduct] \in Order
    BY <1>2 DEF Order, ShownTyped
  <2> QED
    BY <1>1, <1>2, <2>1, RerenderedIs
<1>5. stock <= stock' /\ logs <= logs'
  BY <1>1, <1>2, CountsAre DEF CooksFit
<1>6. CacheFits'
  BY <1>1, <1>2, <1>4, <1>5, CacheKept DEF Observed
<1> QED
  BY <1>3, <1>4, <1>6 DEF PanelInv

\* A click sends one cook more: no other of this visit is pending.
LEMMA CookStep == ASSUME PanelInv, Cook PROVE PanelInv'
<1>1. ShownTyped /\ CooksFit /\ CacheFits /\ CooksTyped
  BY DEF PanelInv, CooksFit
<1>2. PICK phase \in {"asked", "paused"} : phase = IF online THEN "asked" ELSE "paused"
  OBVIOUS
<1>3. PICK cook : cook = [order |-> [multiplier |-> multiplier, deduct |-> deduct],
                          visit |-> visits, phase |-> phase, reply |-> "none",
                          stock |-> 0, logs |-> 0]
  OBVIOUS
<1>4. PICK n \in Nat : n = Len(cooks)
  BY <1>1, CooksAre
<1>5. /\ here /\ ~Pending /\ n < MaxCooks /\ cooks' = Append(cooks, cook)
      /\ UNCHANGED <<stock, logs, cache, multiplier, deduct, here, online, told, others, visits>>
  BY <1>2, <1>3, <1>4 DEF Cook, shownVars, counters
<1>6. 0 \in States
  BY BoundsAre
<1>7. cook \in Cooking
  <2>1. cook.order \in Order
    BY <1>1, <1>3 DEF Order, ShownTyped
  <2> QED
    BY <1>1, <1>2, <1>3, <1>6, <2>1 DEF Cooking, ShownTyped
<1>8. /\ cook.visit = visits /\ cook.logs = 0 /\ cook.stock = 0
  BY <1>3
<1>9. DOMAIN cooks = 1 .. n /\ cooks \in Seq(Cooking)
  BY <1>1, <1>4, CooksAre DEF CooksTyped
<1>10. /\ cooks' \in Seq(Cooking) /\ Len(cooks') = n + 1 /\ DOMAIN cooks' = 1 .. (n + 1)
       /\ cooks'[n + 1] = cook /\ \A c \in 1 .. n : cooks'[c] = cooks[c]
  BY <1>4, <1>5, <1>7, <1>9
<1>11. \A c \in 1 .. (n + 1) : c \in 1 .. n \/ c = n + 1
  OBVIOUS
<1>12. OnePending'
  <2>1. \A c \in 1 .. n : cooks[c].phase # "settled" => cooks[c].visit # visits
    BY <1>5, <1>9 DEF Pending, MyPending
  <2>2. \A c, d \in 1 .. n : c # d /\ cooks[c].phase # "settled" /\ cooks[d].phase # "settled"
                               => cooks[c].visit # cooks[d].visit
    BY <1>1, <1>9 DEF CooksTyped, OnePending
  <2> QED
    BY <1>8, <1>10, <1>11, <2>1, <2>2 DEF OnePending
<1>13. Served' = Served
  BY <1>8, <1>9, <1>10, <1>11 DEF Served
<1>14. \A c \in DOMAIN cooks' : CookFits(cooks[c])'
  <2>1. stock \in Nat /\ logs \in Nat /\ \A c \in 1 .. n : CookFits(cooks[c])
    BY <1>1, <1>9, CountsAre DEF CooksFit
  <2>2. \A c \in 1 .. n : CookFits(cooks[c])'
    BY <1>5, <1>10, <2>1 DEF CookFits
  <2>3. CookFits(cooks[n + 1])'
    BY <1>5, <1>8, <1>10, <2>1 DEF CookFits
  <2> QED
    BY <1>10, <1>11, <2>2, <2>3
<1>15. CooksFit'
  <2>1. Len(cooks') <= MaxCooks
    BY <1>4, <1>5, <1>10, BoundsAre
  <2> QED
    BY <1>1, <1>5, <1>10, <1>12, <1>13, <1>14, <2>1 DEF CooksFit, CooksTyped, CountFits
<1>16. ShownTyped'
  BY <1>1, <1>5 DEF ShownTyped
<1>17. stock <= stock' /\ logs <= logs'
  BY <1>1, <1>5, CountsAre DEF CooksFit
<1>18. CacheFits'
  BY <1>1, <1>5, <1>15, <1>17, CacheKept DEF Observed
<1> QED
  BY <1>15, <1>16, <1>18 DEF PanelInv

\* A step of one entry of the cache, on a screen that stays as it is.
LEMMA EntryStep ==
  ASSUME PanelInv, NEW k \in Entries, NEW e \in Query, cache' = [cache EXCEPT ![k] = e],
         UNCHANGED <<stock, logs, multiplier, deduct, cooks, here, online, told, others, visits>>,
         Holds(e, told[k]), Sound(e)
  PROVE  PanelInv'
<1>1. ShownTyped /\ CooksFit /\ CacheFits
  BY DEF PanelInv
<1>2. ShownTyped'
  BY <1>1 DEF ShownTyped
<1>3. CooksFit'
  BY <1>1, CooksUnchanged
<1>4. \A j \in Entries \ {k} : Observed(j)' => Observed(j)
  BY DEF Observed
<1>5. CacheFits'
  BY <1>1, <1>4, CacheStep
<1> QED
  BY <1>2, <1>3, <1>5 DEF PanelInv

LEMMA QueryStep ==
  ASSUME PanelInv, NEW k \in Entries, Retry(k) \/ Read(k) \/ Arrives(k) \/ Fails(k)
  PROVE  PanelInv'
<1>1. UNCHANGED <<stock, logs, multiplier, deduct, cooks, here, online, told, others, visits>>
  BY DEF Retry, Read, Arrives, Fails, shownVars, counters
<1>2. PICK e : e = cache[k]
  OBVIOUS
<1>3. /\ e \in Query /\ Holds(e, told[k]) /\ told[k] <= Current(k) /\ Current(k) \in States
      /\ Current(k) \in Nat /\ told[k] \in Nat
  BY <1>2, CountsAre, BoundsAre DEF PanelInv, CacheFits, CooksFit, EntryFits
<1>4. CASE Retry(k)
  <2>1. cache' = [cache EXCEPT ![k] = Refetch(e)]
    BY <1>2, <1>4 DEF Retry
  <2>2. Refetch(e) \in Query /\ Sound(Refetch(e)) /\ Holds(Refetch(e), told[k])
    BY <1>3, RefetchIs
  <2> QED
    BY <1>1, <2>1, <2>2, EntryStep
<1>5. CASE Read(k)
  <2>1. cache' = [cache EXCEPT ![k] = ReadAs(e, Current(k))]
    BY <1>2, <1>5 DEF Read, Current
  <2>2. /\ ReadAs(e, Current(k)) \in Query /\ Sound(ReadAs(e, Current(k)))
        /\ Holds(ReadAs(e, Current(k)), told[k])
    BY <1>3, ReadIs
  <2> QED
    BY <1>1, <2>1, <2>2, EntryStep
<1>6. CASE Arrives(k)
  <2>1. cache' = [cache EXCEPT ![k] = Deliver(e)] /\ e.phase = "read"
    BY <1>2, <1>6 DEF Arrives
  <2>2. Deliver(e) \in Query /\ Sound(Deliver(e)) /\ Holds(Deliver(e), told[k])
    BY <1>3, <2>1, DeliverIs
  <2> QED
    BY <1>1, <2>1, <2>2, EntryStep
<1>7. CASE Fails(k)
  <2>1. cache' = [cache EXCEPT ![k] = Fail(e)]
    BY <1>2, <1>7 DEF Fails
  <2>2. Fail(e) \in Query /\ Sound(Fail(e)) /\ Holds(Fail(e), told[k])
    BY <1>3, FailIs
  <2> QED
    BY <1>1, <2>1, <2>2, EntryStep
<1> QED
  BY <1>4, <1>5, <1>6, <1>7

LEMMA LeaveStep == ASSUME PanelInv, Leave PROVE PanelInv'
<1>1. /\ here' = FALSE /\ visits < MaxVisits
      /\ UNCHANGED <<stock, logs, cache, multiplier, deduct, cooks, online, told, others, visits>>
  BY DEF Leave, shownVars, counters
<1>2. ShownTyped /\ CooksFit /\ CacheFits
  BY DEF PanelInv
<1>3. ShownTyped'
  BY <1>1, <1>2 DEF ShownTyped
<1>4. CooksFit' /\ stock <= stock' /\ logs <= logs'
  BY <1>1, <1>2, CooksUnchanged, CountsAre DEF CooksFit
<1>5. CacheFits'
  BY <1>1, <1>2, <1>4, CacheKept DEF Observed
<1> QED
  BY <1>3, <1>4, <1>5 DEF PanelInv

\* A new visit fetches what it shows.
LEMMA OpenedIs ==
  ASSUME NEW entries \in [Entries -> Query], NEW k \in Entries
  PROVE  /\ Opened(entries)[k] \in Query
         /\ k \in {One, History} => Sound(Opened(entries)[k])
         /\ \A t : Holds(entries[k], t) => Holds(Opened(entries)[k], t)
<1>1. Opened(entries)[k] = IF k \in {One, History} THEN Fetch(entries[k]) ELSE entries[k]
  BY DEF Opened
<1>2. entries[k] \in Query
  OBVIOUS
<1>3. /\ Fetch(entries[k]) \in Query /\ Sound(Fetch(entries[k]))
      /\ \A t : Holds(entries[k], t) => Holds(Fetch(entries[k]), t)
  BY <1>2, FetchIs
<1> QED
  BY <1>1, <1>2, <1>3

LEMMA VisitStep == ASSUME PanelInv, Visit PROVE PanelInv'
<1>1. /\ ~here /\ here' = TRUE /\ visits' = visits + 1 /\ multiplier' = One /\ deduct' = TRUE
      /\ cache' = Opened(cache)
      /\ UNCHANGED <<stock, logs, cooks, online, told, others>>
  BY DEF Visit
<1>2. ShownTyped /\ CooksFit /\ CacheFits
  BY DEF PanelInv
<1>3. ShownTyped'
  <2>1. visits \in Nat /\ 1 <= visits /\ visits < MaxVisits
    BY <1>1, <1>2, BoundsAre DEF ShownTyped
  <2>2. visits' \in 1 .. MaxVisits
    BY <1>1, <2>1, BoundsAre
  <2> QED
    BY <1>1, <1>2, <2>2, EntriesAre DEF ShownTyped
<1>4. CooksFit'
  BY <1>1, <1>2, CooksUnchanged
<1>5. PICK f : f = Opened(cache)
  OBVIOUS
<1>6. cache \in [Entries -> Query]
  BY <1>2 DEF CacheFits
<1>7. \A k \in Entries : f[k] \in Query /\ Holds(f[k], told[k]) /\ (Observed(k)' => Sound(f[k]))
  <2> SUFFICES ASSUME NEW k \in Entries
               PROVE  f[k] \in Query /\ Holds(f[k], told[k]) /\ (Observed(k)' => Sound(f[k]))
    OBVIOUS
  <2>1. Holds(cache[k], told[k])
    BY <1>2 DEF CacheFits, EntryFits
  <2>2. Observed(k)' => k \in {One, History}
    BY <1>1 DEF Observed
  <2> QED
    BY <1>5, <1>6, <2>1, <2>2, OpenedIs
<1>8. cache' = [k \in Entries |-> f[k]]
  BY <1>1, <1>5 DEF Opened
<1>9. CacheFits'
  BY <1>1, <1>2, <1>7, <1>8, CacheMapped
<1> QED
  BY <1>3, <1>4, <1>9 DEF PanelInv

-----------------------------------------------------------------------------
(* The server and the network.                                              *)

\* The cook is logged, and takes from the stock unless it was asked not to.
LEMMA CookRecipeStep == ASSUME PanelInv, NEW c \in DOMAIN cooks, CookRecipe(c) PROVE PanelInv'
<1>1. /\ cooks[c].phase = "asked" /\ logs' = logs + 1
      /\ stock' = IF cooks[c].order.deduct THEN stock + 1 ELSE stock
      /\ cooks' = [cooks EXCEPT ![c].phase = "answered", ![c].reply = "ok",
                                ![c].stock = stock', ![c].logs = logs']
      /\ UNCHANGED <<cache, multiplier, deduct, here, online, told, others, visits>>
  BY DEF CookRecipe, shownVars, counters
<1>2. ShownTyped /\ CooksFit /\ CacheFits /\ CooksTyped /\ CountFits
  BY DEF PanelInv, CooksFit
<1>3. cooks[c] \in Cooking /\ CookFits(cooks[c]) /\ cooks[c].logs = 0
  BY <1>1, <1>2, CooksAre DEF CooksFit, CookFits
<1>4. /\ c \notin Served /\ IsFiniteSet(Served)
      /\ Cardinality(Served) \in Nat /\ Cardinality(Served) < MaxCooks
  BY <1>2, <1>3, ServedFinite DEF Served
<1>5. /\ stock \in Nat /\ logs \in Nat /\ others \in Nat /\ others <= MaxOthers /\ stock <= logs
      /\ logs = Cardinality(Served) + others
  BY <1>2, CountsAre DEF CountFits
<1>6. stock' \in {stock, stock + 1}
  BY <1>1
<1>7. /\ stock' \in States /\ logs' \in States /\ stock' \in Nat /\ logs' \in Nat
      /\ stock <= stock' /\ logs <= logs' /\ stock' <= logs' /\ logs' # 0
  BY <1>1, <1>4, <1>5, <1>6, BoundsAre
<1>8. PICK s \in States, l \in States : s = stock' /\ l = logs'
  BY <1>7
<1>9. PICK cook : cook = [cooks[c] EXCEPT !.phase = "answered", !.reply = "ok",
                                          !.stock = s, !.logs = l]
  OBVIOUS
<1>10. /\ cook \in Cooking /\ cook.visit = cooks[c].visit /\ cook.phase = "answered"
       /\ cook.stock = s /\ cook.logs = l
  BY <1>3, <1>9 DEF Cooking
<1>11. cooks' = [cooks EXCEPT ![c] = cook]
  BY <1>1, <1>3, <1>8, <1>9
<1>12. /\ cooks' \in Seq(Cooking) /\ Len(cooks') = Len(cooks) /\ DOMAIN cooks' = DOMAIN cooks
       /\ cooks'[c] = cook /\ \A d \in DOMAIN cooks \ {c} : cooks'[d] = cooks[d]
  BY <1>2, <1>10, <1>11, ReplacedIs
<1>13. OnePending'
  <2>1. \A d \in DOMAIN cooks : /\ cooks'[d].visit = cooks[d].visit
                                /\ cooks'[d].phase # "settled" => cooks[d].phase # "settled"
    BY <1>1, <1>10, <1>12
  <2>2. OnePending /\ DOMAIN cooks' = DOMAIN cooks
    BY <1>2, <1>12 DEF CooksTyped
  <2> SUFFICES ASSUME NEW d \in DOMAIN cooks, NEW e \in DOMAIN cooks, d # e,
                      cooks'[d].phase # "settled", cooks'[e].phase # "settled"
               PROVE  cooks'[d].visit # cooks'[e].visit
    BY <2>2 DEF OnePending
  <2> QED
    BY <2>1, <2>2 DEF OnePending
<1>14. CooksTyped'
  BY <1>2, <1>12, <1>13 DEF CooksTyped
<1>15. CountFits'
  <2>1. Served' = Served \cup {c}
    BY <1>7, <1>8, <1>10, <1>12 DEF Served
  <2>2. Cardinality(Served') = Cardinality(Served) + 1
    BY <1>4, <2>1, FS_AddElement
  <2> QED
    BY <1>1, <1>2, <1>4, <1>5, <1>7, <2>2 DEF CountFits
<1>16. \A d \in DOMAIN cooks' : CookFits(cooks[d])'
  <2> SUFFICES ASSUME NEW d \in DOMAIN cooks PROVE CookFits(cooks[d])'
    BY <1>12
  <2>1. CASE d = c
    BY <1>7, <1>8, <1>10, <1>12, <2>1 DEF CookFits
  <2>2. CASE d # c
    <3>1. CookFits(cooks[d]) /\ cooks[d].stock \in Nat /\ cooks[d].logs \in Nat
      BY <1>2, CooksAre, CookIs DEF CooksFit
    <3> QED
      BY <1>5, <1>7, <1>12, <2>2, <3>1 DEF CookFits
  <2> QED
    BY <2>1, <2>2
<1>17. CooksFit'
  BY <1>14, <1>15, <1>16 DEF CooksFit
<1>18. ShownTyped'
  BY <1>1, <1>2 DEF ShownTyped
<1>19. CacheFits'
  BY <1>1, <1>2, <1>7, <1>17, CacheKept DEF Observed
<1> QED
  BY <1>17, <1>18, <1>19 DEF PanelInv

\* A step of the cooks that leaves the pages, the stock and the cache alone.
LEMMA CooksStep ==
  ASSUME PanelInv, CooksFit',
         UNCHANGED <<stock, logs, cache, multiplier, deduct, here, online, told, visits>>
  PROVE  PanelInv'
<1>1. ShownTyped /\ CooksFit /\ CacheFits
  BY DEF PanelInv
<1>2. ShownTyped'
  BY <1>1 DEF ShownTyped
<1>3. stock <= stock' /\ logs <= logs'
  BY <1>1, CountsAre DEF CooksFit
<1>4. CacheFits'
  BY <1>1, <1>3, CacheKept DEF Observed
<1> QED
  BY <1>2, <1>4 DEF PanelInv

LEMMA NotCookedStep ==
  ASSUME PanelInv, NEW c \in DOMAIN cooks, Conflict(c) \/ Lost(c) PROVE PanelInv'
<1>1. UNCHANGED <<stock, logs, cache, multiplier, deduct, here, online, told, others, visits>>
  BY DEF Conflict, Lost, shownVars
<1>2. PICK reply \in {"conflict", "failed"} :
        cooks' = [cooks EXCEPT ![c].phase = "answered", ![c].reply = reply]
  BY DEF Conflict, Lost
<1>3. cooks[c] \in Cooking /\ cooks[c].phase # "settled"
  BY CooksAre DEF PanelInv, CooksFit, Conflict, Lost
<1>4. PICK cook : cook = [cooks[c] EXCEPT !.phase = "answered", !.reply = reply]
  OBVIOUS
<1>5. /\ cook \in Cooking /\ cook.visit = cooks[c].visit /\ cook.stock = cooks[c].stock
      /\ cook.logs = cooks[c].logs /\ cook.phase = "answered"
  BY <1>3, <1>4 DEF Cooking
<1>6. cooks' = [cooks EXCEPT ![c] = cook]
  BY <1>2, <1>3, <1>4
<1>7. CooksFit'
  BY <1>1, <1>3, <1>5, <1>6, AnsweredKept DEF PanelInv
<1> QED
  BY <1>1, <1>7, CooksStep

LEMMA OthersCookStep == ASSUME PanelInv, OthersCook PROVE PanelInv'
<1>1. /\ others < MaxOthers /\ stock' = stock + 1 /\ logs' = logs + 1 /\ others' = others + 1
      /\ UNCHANGED <<cache, multiplier, deduct, cooks, here, online, told, visits>>
  BY DEF OthersCook, shownVars
<1>2. ShownTyped /\ CooksFit /\ CacheFits /\ CooksTyped /\ CountFits
  BY DEF PanelInv, CooksFit
<1>3. /\ stock \in Nat /\ logs \in Nat /\ others \in Nat /\ stock <= logs
      /\ logs = Cardinality(Served) + others /\ Cardinality(Served) \in Nat
  BY <1>2, CountsAre, ServedFinite DEF CountFits
<1>4. CountFits'
  <2>1. Served' = Served
    BY <1>1 DEF Served
  <2>2. others' \in 0 .. MaxOthers
    BY <1>1, <1>3, BoundsAre
  <2> QED
    BY <1>1, <1>3, <2>1, <2>2 DEF CountFits
<1>5. CooksFit'
  <2> SUFFICES ASSUME NEW c \in DOMAIN cooks PROVE CookFits(cooks[c])'
    BY <1>1, <1>2, <1>4 DEF CooksFit, CooksTyped, OnePending
  <2>1. CookFits(cooks[c]) /\ cooks[c].stock \in Nat /\ cooks[c].logs \in Nat
    BY <1>2, CooksAre, CookIs DEF CooksFit
  <2> QED
    BY <1>1, <1>3, <2>1 DEF CookFits
<1>6. ShownTyped' /\ stock <= stock' /\ logs <= logs'
  BY <1>1, <1>2, <1>3 DEF ShownTyped
<1>7. CacheFits'
  BY <1>1, <1>2, <1>5, <1>6, CacheKept DEF Observed
<1> QED
  BY <1>5, <1>6, <1>7 DEF PanelInv

-----------------------------------------------------------------------------
(* The answer, and the connection.                                          *)

\* An entry that is told of a cook is asked for anew at that moment.
LEMMA CookAnsweredStep ==
  ASSUME PanelInv, NEW c \in DOMAIN cooks, CookAnswered(c) PROVE PanelInv'
<1>1. /\ cooks[c].phase = "answered" /\ cooks' = [cooks EXCEPT ![c].phase = "settled"]
      /\ Invalidate(StaleAfter(c))
      /\ IF cooks[c].reply = "ok" THEN TellOf(c, Entries) ELSE UNCHANGED told
      /\ UNCHANGED <<stock, logs, multiplier, deduct, here, online, others, visits>>
  BY DEF CookAnswered, shownVars, counters
<1>2. ShownTyped /\ CooksFit /\ CacheFits
  BY DEF PanelInv
<1>3. cooks[c] \in Cooking /\ CookFits(cooks[c])
  BY <1>2, CooksAre DEF CooksFit
<1>4. CooksFit'
  <2>1. PICK cook : cook = [cooks[c] EXCEPT !.phase = "settled"]
    OBVIOUS
  <2>2. /\ cook \in Cooking /\ cook.visit = cooks[c].visit /\ cook.stock = cooks[c].stock
        /\ cook.logs = cooks[c].logs /\ cook.phase = "settled"
    BY <1>3, <2>1 DEF Cooking
  <2>3. cooks' = [cooks EXCEPT ![c] = cook] /\ cooks[c].phase # "settled"
    BY <1>1, <1>3, <2>1
  <2> QED
    BY <1>1, <1>2, <2>2, <2>3, AnsweredKept
<1>5. \A k \in Entries : Observed(k)' <=> Observed(k)
  BY <1>1 DEF Observed
<1>6. \A k \in Entries : cache'[k] = cache[k] \/ (Observed(k) /\ cache'[k] = Refetch(cache[k]))
  BY <1>1 DEF Invalidate
<1>7. \A k \in Entries : told'[k] = told[k]
        \/ /\ Observed(k) /\ cache[k].data # NoData /\ cache'[k] = Refetch(cache[k])
           /\ told'[k] \in States /\ told'[k] <= Current(k)
  <2>1. CASE cooks[c].reply = "ok"
    <3>1. \A k \in Entries : Observed(k) => cache'[k] = Refetch(cache[k])
      BY <1>1, <2>1 DEF Invalidate, StaleAfter
    <3>2. told' = [k \in Entries |->
             IF k \in Entries /\ Observed(k) /\ cache[k].data # NoData
             THEN IF k = History THEN cooks[c].logs ELSE cooks[c].stock
             ELSE told[k]]
      BY <1>1, <2>1 DEF TellOf
    <3>3. cooks[c].logs \in States /\ cooks[c].stock \in States
      BY <1>3 DEF Cooking
    <3> QED
      BY <1>3, <3>1, <3>2, <3>3 DEF CookFits, Current
  <2>2. CASE cooks[c].reply # "ok"
    BY <1>1, <2>2
  <2> QED
    BY <2>1, <2>2
<1>8. told' \in [Entries -> States] /\ cache' \in [Entries -> Query]
  <2>1. told' = [k \in Entries |-> told'[k]]
    BY <1>1, <1>2 DEF TellOf, CacheFits
  <2>2. \A k \in Entries : told'[k] \in States
    BY <1>2, <1>7 DEF CacheFits
  <2>3. cache' = [k \in Entries |-> cache'[k]]
    BY <1>1 DEF Invalidate
  <2>4. \A k \in Entries : cache'[k] \in Query
    BY <1>2, <1>6, RefetchIs DEF CacheFits
  <2> QED
    BY <2>1, <2>2, <2>3, <2>4
<1>9. ASSUME NEW k \in Entries PROVE EntryFits(k)'
  <2>1. EntryFits(k) /\ cache[k] \in Query
    BY <1>2 DEF CacheFits
  <2>2. Current(k)' = Current(k)
    BY <1>1 DEF Current
  <2>3. PICK e \in Query : e = cache[k]
    BY <2>1
  <2>4. CASE told'[k] = told[k]
    <3>1. CASE cache'[k] = cache[k]
      BY <1>5, <2>1, <2>2, <2>4, <3>1 DEF EntryFits
    <3>2. CASE cache'[k] = Refetch(e)
      <4>1. Sound(Refetch(e)) /\ Holds(Refetch(e), told[k])
        BY <2>1, <2>3, RefetchIs DEF EntryFits
      <4> QED
        BY <2>1, <2>2, <2>4, <3>2, <4>1 DEF EntryFits
    <3> QED
      BY <1>6, <2>3, <3>1, <3>2
  <2>5. CASE /\ e.data # NoData /\ cache'[k] = Refetch(e)
             /\ told'[k] \in States /\ told'[k] <= Current(k)
    <3>1. Sound(Refetch(e)) /\ \A t : Holds(Refetch(e), t)
      BY <2>5, RefetchIs
    <3> QED
      BY <2>2, <2>5, <3>1 DEF EntryFits
  <2> QED
    BY <1>7, <2>3, <2>4, <2>5
<1>10. CacheFits'
  BY <1>8, <1>9 DEF CacheFits
<1>11. ShownTyped'
  BY <1>1, <1>2 DEF ShownTyped
<1> QED
  BY <1>4, <1>10, <1>11 DEF PanelInv

LEMMA GoOfflineStep == ASSUME PanelInv, GoOffline PROVE PanelInv'
<1> DEFINE f == [k \in Entries |-> IF Fetching(cache[k]) THEN [Cancel(cache[k]) EXCEPT !.phase = "asked"]
                                  ELSE cache[k]]
           g == [c \in DOMAIN cooks |->
                   IF cooks[c].phase \in {"asked", "answered"}
                   THEN [cooks[c] EXCEPT !.phase = "answered", !.reply = "failed"] ELSE cooks[c]]
<1>1. /\ online' = FALSE /\ cache' = [k \in Entries |-> f[k]] /\ cooks' = [c \in DOMAIN cooks |-> g[c]]
      /\ UNCHANGED <<stock, logs, multiplier, deduct, here, told, others, visits>>
  BY DEF GoOffline, shownVars
<1>2. ShownTyped /\ CooksFit /\ CacheFits /\ CooksTyped
  BY DEF PanelInv, CooksFit
<1>3. ASSUME NEW k \in Entries
      PROVE  f[k] \in Query /\ Holds(f[k], told[k]) /\ (Observed(k) => Sound(f[k]))
  <2>1. PICK e \in Query : e = cache[k]
    BY <1>2 DEF CacheFits
  <2>2. Holds(e, told[k]) /\ (Observed(k) => Sound(e))
    BY <1>2, <2>1 DEF CacheFits, EntryFits
  <2>3. f[k] = e \/ f[k] = [Cancel(e) EXCEPT !.phase = "asked"]
    BY <2>1
  <2> HIDE DEF f
  <2> QED
    BY <2>1, <2>2, <2>3, AskedAgain
<1>4. ASSUME NEW c \in DOMAIN cooks
      PROVE  /\ g[c] \in Cooking /\ g[c].visit = cooks[c].visit /\ g[c].stock = cooks[c].stock
             /\ g[c].logs = cooks[c].logs
             /\ g[c].phase # "settled" => cooks[c].phase # "settled"
             /\ g[c].phase \in {"paused", "asked"} => cooks[c].phase \in {"paused", "asked"}
  <2>1. cooks[c] \in Cooking
    BY <1>2, CooksAre
  <2>2. \/ g[c] = cooks[c]
        \/ /\ cooks[c].phase \in {"asked", "answered"}
           /\ g[c] = [cooks[c] EXCEPT !.phase = "answered", !.reply = "failed"]
    OBVIOUS
  <2> HIDE DEF g
  <2> QED
    BY <2>1, <2>2 DEF Cooking
<1> HIDE DEF f, g
<1>5. /\ cooks' \in Seq(Cooking) /\ Len(cooks') = Len(cooks)
      /\ \A c \in DOMAIN cooks : cooks'[c] = g[c]
  BY <1>1, <1>2, <1>4, MappedIs
<1>6. CooksFit'
  BY <1>1, <1>2, <1>4, <1>5, CooksKept
<1>7. \A k \in Entries : Observed(k)' <=> Observed(k)
  BY <1>1 DEF Observed
<1>8. CacheFits'
  BY <1>1, <1>2, <1>3, <1>7, CacheMapped
<1>9. ShownTyped'
  BY <1>1, <1>2 DEF ShownTyped
<1> QED
  BY <1>6, <1>8, <1>9 DEF PanelInv

LEMMA GoOnlineStep == ASSUME PanelInv, GoOnline PROVE PanelInv'
<1> DEFINE f == [k \in Entries |-> IF Observed(k) THEN Fetch(cache[k]) ELSE cache[k]]
           g == [c \in DOMAIN cooks |-> IF cooks[c].phase = "paused"
                                       THEN [cooks[c] EXCEPT !.phase = "asked"] ELSE cooks[c]]
<1>1. /\ online' = TRUE /\ cache' = [k \in Entries |-> f[k]] /\ cooks' = [c \in DOMAIN cooks |-> g[c]]
      /\ UNCHANGED <<stock, logs, multiplier, deduct, here, told, others, visits>>
  BY DEF GoOnline, Resumed, shownVars, counters
<1>2. ShownTyped /\ CooksFit /\ CacheFits /\ CooksTyped
  BY DEF PanelInv, CooksFit
<1>3. ASSUME NEW k \in Entries
      PROVE  f[k] \in Query /\ Holds(f[k], told[k]) /\ (Observed(k) => Sound(f[k]))
  <2>1. PICK e \in Query : e = cache[k]
    BY <1>2 DEF CacheFits
  <2>2. Holds(e, told[k]) /\ (Observed(k) => Sound(e))
    BY <1>2, <2>1 DEF CacheFits, EntryFits
  <2>3. f[k] = e \/ f[k] = Fetch(e)
    BY <2>1
  <2> HIDE DEF f
  <2> QED
    BY <2>1, <2>2, <2>3, FetchIs
<1>4. ASSUME NEW c \in DOMAIN cooks
      PROVE  /\ g[c] \in Cooking /\ g[c].visit = cooks[c].visit /\ g[c].stock = cooks[c].stock
             /\ g[c].logs = cooks[c].logs
             /\ g[c].phase # "settled" => cooks[c].phase # "settled"
             /\ g[c].phase \in {"paused", "asked"} => cooks[c].phase \in {"paused", "asked"}
  <2>1. cooks[c] \in Cooking
    BY <1>2, CooksAre
  <2>2. \/ g[c] = cooks[c]
        \/ cooks[c].phase = "paused" /\ g[c] = [cooks[c] EXCEPT !.phase = "asked"]
    OBVIOUS
  <2> HIDE DEF g
  <2> QED
    BY <2>1, <2>2 DEF Cooking
<1> HIDE DEF f, g
<1>5. /\ cooks' \in Seq(Cooking) /\ Len(cooks') = Len(cooks)
      /\ \A c \in DOMAIN cooks : cooks'[c] = g[c]
  BY <1>1, <1>2, <1>4, MappedIs
<1>6. CooksFit'
  BY <1>1, <1>2, <1>4, <1>5, CooksKept
<1>7. \A k \in Entries : Observed(k)' <=> Observed(k)
  BY <1>1 DEF Observed
<1>8. CacheFits'
  BY <1>1, <1>2, <1>3, <1>7, CacheMapped
<1>9. ShownTyped'
  BY <1>1, <1>2 DEF ShownTyped
<1> QED
  BY <1>6, <1>8, <1>9 DEF PanelInv

-----------------------------------------------------------------------------
(* The invariant, and what it shows.                                        *)

LEMMA PanelInit == Init => PanelInv
<1> SUFFICES ASSUME Init PROVE PanelInv
  OBVIOUS
<1>1. /\ stock = 0 /\ logs = 0 /\ cache = Opened([k \in Entries |-> NewQuery])
      /\ multiplier = One /\ deduct = TRUE /\ cooks = <<>> /\ here = TRUE /\ online = TRUE
      /\ told = [k \in Entries |-> 0] /\ others = 0 /\ visits = 1
  BY DEF Init
<1>2. 0 \in States
  BY BoundsAre
<1>3. ShownTyped
  BY <1>1, BoundsAre, EntriesAre DEF ShownTyped
<1>4. cooks \in Seq(Cooking) /\ Len(cooks) = 0 /\ DOMAIN cooks = {}
  BY <1>1
<1>5. CooksTyped
  BY <1>4, BoundsAre DEF CooksTyped, OnePending
<1>6. CountFits
  <2>1. Served = {}
    BY <1>4 DEF Served
  <2>2. Cardinality(Served) = 0
    BY <2>1, FS_EmptySet
  <2> QED
    BY <1>1, <2>2, BoundsAre DEF CountFits
<1>7. CooksFit
  BY <1>4, <1>5, <1>6 DEF CooksFit
<1>8. NewQuery \in Query /\ Holds(NewQuery, 0)
  <2>1. NewQuery \in Query /\ NewQuery.phase = "idle" /\ NewQuery.data = NoData
    BY DEF NewQuery, Query
  <2>2. \A n \in States : n >= 0
    BY BoundsAre
  <2> QED
    BY <2>1, <2>2 DEF Holds
<1>9. PICK e : e = [k \in Entries |-> NewQuery]
  OBVIOUS
<1>10. e \in [Entries -> Query] /\ \A k \in Entries : Holds(e[k], 0)
  BY <1>8, <1>9
<1>11. \A k \in Entries : /\ cache[k] \in Query /\ Holds(cache[k], 0)
                          /\ k \in {One, History} => Sound(cache[k])
  BY <1>1, <1>9, <1>10, OpenedIs
<1>12. cache \in [Entries -> Query] /\ told \in [Entries -> States]
  <2>1. cache = [k \in Entries |-> cache[k]]
    BY <1>1 DEF Opened
  <2> QED
    BY <1>1, <1>2, <1>11, <2>1
<1>13. ASSUME NEW k \in Entries PROVE EntryFits(k)
  BY <1>1, <1>11 DEF EntryFits, Current, Observed
<1> QED
  BY <1>3, <1>7, <1>12, <1>13 DEF PanelInv, CacheFits

LEMMA PanelNext == PanelInv /\ [Next]_vars => PanelInv'
<1> SUFFICES ASSUME PanelInv, [Next]_vars PROVE PanelInv'
  OBVIOUS
<1>1. CASE \E m \in Multipliers : SetMultiplier(m)
  BY <1>1, SetMultiplierStep
<1>2. CASE SetDeduct
  BY <1>2, SetDeductStep
<1>3. CASE Cook
  BY <1>3, CookStep
<1>4. CASE Leave
  BY <1>4, LeaveStep
<1>5. CASE Visit
  BY <1>5, VisitStep
<1>6. CASE \E k \in Entries : Retry(k) \/ Read(k) \/ Arrives(k) \/ Fails(k)
  BY <1>6, QueryStep
<1>7. ASSUME NEW c \in DOMAIN cooks, CookRecipe(c) \/ Conflict(c) \/ Lost(c) \/ CookAnswered(c)
      PROVE  PanelInv'
  BY <1>7, CookRecipeStep, NotCookedStep, CookAnsweredStep
<1>8. CASE OthersCook
  BY <1>8, OthersCookStep
<1>9. CASE GoOffline
  BY <1>9, GoOfflineStep
<1>10. CASE GoOnline
  BY <1>10, GoOnlineStep
<1>11. CASE UNCHANGED vars
  <2>1. UNCHANGED <<stock, logs, cache, multiplier, deduct, cooks, here, online, told, others, visits>>
    BY <1>11 DEF vars, shownVars, counters
  <2>2. CooksFit'
    BY <2>1, CooksUnchanged DEF PanelInv
  <2> QED
    BY <2>1, <2>2, CooksStep
<1> QED
  BY <1>1, <1>2, <1>3, <1>4, <1>5, <1>6, <1>7, <1>8, <1>9, <1>10, <1>11 DEF Next

LEMMA PanelHolds == Spec => []PanelInv
  BY PanelInit, PanelNext, PTL DEF Spec

\* For any multipliers and bounds: the stock and the logs stay within those there can be,
\* every entry is one of the cache, and a visit has one cook pending at most (the disabled
\* button of RecipeDetail.tsx).
THEOREM PanelTyped == Spec => []TypeOK
<1>1. PanelInv => TypeOK
  <2> SUFFICES ASSUME PanelInv PROVE TypeOK
    OBVIOUS
  <2>1. stock \in States /\ logs \in States
    BY CountsAre DEF PanelInv, CooksFit
  <2>2. DOMAIN cache = Entries /\ \A k \in Entries : IsQuery(cache[k], States)
    BY DEF PanelInv, CacheFits, Query, IsQuery
  <2> QED
    BY <2>1, <2>2 DEF PanelInv, ShownTyped, CooksFit, CooksTyped, OnePending, CacheFits, TypeOK
<1> QED
  BY <1>1, PanelHolds, PTL

\* Whatever multiplier a cook was clicked at and whatever was looked at, left or
\* disconnected since, a screen at rest shows a state no older than the last cook it was
\* told of as done (what onSuccess of the cook in RecipeDetail.tsx invalidates).
THEOREM TellsOfCooks == Spec => []RestKnowsCooks
<1>1. PanelInv => RestKnowsCooks
  BY DEF PanelInv, CacheFits, EntryFits, Holds, Sound, RestKnowsCooks, Settled, Fetching
<1> QED
  BY <1>1, PanelHolds, PTL
=============================================================================

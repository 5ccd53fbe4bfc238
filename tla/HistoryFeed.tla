----------------------------- MODULE HistoryFeed -----------------------------
(***************************************************************************)
(* The history screen: the cook logs of the household, newest first, paged *)
(* in by "Load more".  Logs are numbered from 1 in the order of the cooks, *)
(* so an answer is known by its offset and by the number of logs there     *)
(* were: the page at offset o of n logs holds n - o, n - o - 1, ...        *)
(***************************************************************************)
EXTENDS QueryCache, Naturals, SequencesExt

CONSTANTS
  PageSize,   \* PAGE_SIZE, at least 1
  FirstLogs,  \* how many logs there are at the start
  MaxCooks,   \* bound on the cooks while the screen is used
  MaxFaults,  \* bound on the fetches that fail for good
  MaxVisits,  \* bound on the visits of the screen; the cache outlives a visit
  MaxGaps     \* bound on the times the device goes offline

VARIABLES
  logs,     \* the number of logs the server has
  cache,    \* the entries ["cook-logs", { limit, offset }], by offset
  offset,   \* the offset asked for last
  data,     \* query.data: an answer, that of an earlier offset while one is awaited
  held,     \* the offset of the last entry seen with an answer in it, or NoData
  pages,    \* the answers kept, by offset
  here,     \* the screen is shown
  online,   \* the device is online, as the query library sees it
  visits, faults, gaps

screenVars == <<offset, data, held, pages>>
vars       == <<logs, cache, screenVars, here, online, visits, faults, gaps>>

MaxLogs == FirstLogs + MaxCooks
Offsets == {k * PageSize : k \in 0 .. (1 + MaxLogs)}
Page    == [at : Offsets, total : 0 .. MaxLogs]

TypeOK ==
  /\ logs \in 0 .. MaxLogs /\ DOMAIN cache = Offsets
  /\ \A o \in Offsets : IsQuery(cache[o], {p \in Page : p.at = o})
  /\ offset \in Offsets /\ data \in Page \cup {NoData} /\ held \in Offsets \cup {NoData}
  /\ DOMAIN pages \subseteq 0 .. offset
  /\ \A o \in DOMAIN pages : pages[o] \in Page /\ pages[o].at = o
  /\ here \in BOOLEAN /\ online \in BOOLEAN
  /\ visits \in 1 .. MaxVisits /\ faults \in 0 .. MaxFaults /\ gaps \in 0 .. MaxGaps

-----------------------------------------------------------------------------
(* What the screen shows.                                                  *)

\* The logs of an answer, newest first.
Items(page) ==
  [k \in 1 .. Min({PageSize, page.total - Min({page.at, page.total})}) |-> page.total - page.at - (k - 1)]

\* The pages one after the other, by offset.
Feed == FlattenSeq([k \in 1 .. Cardinality(DOMAIN pages) |->
                      Items(pages[SetToSortSeq(DOMAIN pages, <)[k]])])

Total   == IF data = NoData THEN 0 ELSE data.total

\* Mutant: the last log is not asked for on its own.
HasMoreButOne == Len(Feed) + 1 < Total

HasMore == Len(Feed) < Total

\* A fetch is paused while the device is offline.
FetchingNext == Fetching(cache[offset]) /\ online /\ ~(data # NoData /\ data.at = offset)
IsError      == cache[offset].failed /\ ~(cache[offset].data = NoData /\ Fetching(cache[offset]))

\* The effect on query.data: an answer is kept under its own offset.
Kept(answer) == [o \in DOMAIN pages \cup {answer.at} |-> IF o = answer.at THEN answer ELSE pages[o]]

NoPages == [o \in {} |-> NoData]

Init ==
  /\ logs = FirstLogs
  /\ cache = [o \in Offsets |-> IF o = 0 THEN Fetch(NewQuery) ELSE NewQuery]
  /\ offset = 0 /\ data = NoData /\ held = NoData /\ pages = NoPages
  /\ here = TRUE /\ online = TRUE /\ visits = 1 /\ faults = 0 /\ gaps = 0

-----------------------------------------------------------------------------
(* The member.                                                             *)

\* Mutant: the next offset is observed and not fetched.
MoveToUnfetched(next) ==
  /\ offset' = next
  /\ UNCHANGED <<cache, data, held, pages>>

\* The next offset is observed: what its entry has is shown, else the answer that was
\* there before; and it is fetched.
MoveTo(next) ==
  LET entry == cache[next]
  IN /\ offset' = next
     /\ cache' = [cache EXCEPT ![next] = Fetch(@)]
     /\ IF entry.data = NoData THEN UNCHANGED <<data, held, pages>>
        ELSE data' = entry.data /\ held' = next /\ pages' = Kept(entry.data)

CanLoadMore == here /\ Feed # <<>> /\ ~IsError /\ HasMore /\ ~FetchingNext

\* Mutant: the next page starts one too far.
LoadPast ==
  /\ CanLoadMore /\ offset + 2 * PageSize \in Offsets
  /\ MoveTo(offset + 2 * PageSize)
  /\ UNCHANGED <<logs, here, online, visits, faults, gaps>>

LoadMore ==
  /\ CanLoadMore /\ offset + PageSize \in Offsets
  /\ MoveTo(offset + PageSize)
  /\ UNCHANGED <<logs, here, online, visits, faults, gaps>>

\* Without an answer of its own the entry is pending again, and the earlier answer is
\* shown in its place.
Retry ==
  /\ here /\ IsError
  /\ cache' = [cache EXCEPT ![offset] = Refetch(@)]
  /\ IF data = NoData /\ held # NoData
     THEN data' = cache[held].data /\ pages' = Kept(cache[held].data)
     ELSE UNCHANGED <<data, pages>>
  /\ UNCHANGED <<logs, offset, held, here, online, visits, faults, gaps>>

Leave ==
  /\ here /\ visits < MaxVisits
  /\ here' = FALSE
  /\ UNCHANGED <<logs, cache, screenVars, online, visits, faults, gaps>>

Visit ==
  /\ ~here
  /\ here' = TRUE /\ visits' = visits + 1
  /\ offset' = 0 /\ cache' = [cache EXCEPT ![0] = Fetch(@)]
  /\ data' = cache[0].data
  /\ IF data' = NoData THEN held' = NoData /\ pages' = NoPages
     ELSE held' = 0 /\ pages' = [o \in {0} |-> data']
  /\ UNCHANGED <<logs, online, faults, gaps>>

-----------------------------------------------------------------------------
(* The query, the network and the household.                               *)

ListAllCookLogs(o) ==
  /\ online /\ cache[o].phase = "asked"
  /\ cache' = [cache EXCEPT ![o] = ReadAs(@, [at |-> o, total |-> logs])]
  /\ UNCHANGED <<logs, screenVars, here, online, visits, faults, gaps>>

\* Only the entry of the current offset is observed.
PageArrives(o) ==
  /\ online /\ cache[o].phase = "read"
  /\ cache' = [cache EXCEPT ![o] = Deliver(@)]
  /\ IF here /\ o = offset
     THEN data' = cache[o].snap /\ held' = o /\ pages' = Kept(cache[o].snap)
     ELSE UNCHANGED <<data, held, pages>>
  /\ UNCHANGED <<logs, offset, here, online, visits, faults, gaps>>

\* A failure leaves an entry without an answer, and nothing stands in for it.
PageLost(o) ==
  /\ online /\ Fetching(cache[o]) /\ faults < MaxFaults
  /\ cache' = [cache EXCEPT ![o] = Fail(@)]
  /\ data' = IF here /\ o = offset /\ cache[o].data = NoData THEN NoData ELSE data
  /\ faults' = faults + 1
  /\ UNCHANGED <<logs, offset, held, pages, here, online, visits, gaps>>

\* What is under way when the connection goes is asked again when it is back.
GoOffline ==
  /\ online /\ gaps < MaxGaps
  /\ online' = FALSE /\ gaps' = gaps + 1
  /\ cache' = [o \in Offsets |-> IF Fetching(cache[o]) THEN [cache[o] EXCEPT !.phase = "asked", !.snap = NoData]
                                 ELSE cache[o]]
  /\ UNCHANGED <<logs, screenVars, here, visits, faults>>

\* refetchOnReconnect: the entry that is observed.
GoOnline ==
  /\ ~online
  /\ online' = TRUE
  /\ cache' = IF here THEN [cache EXCEPT ![offset] = Fetch(@)] ELSE cache
  /\ UNCHANGED <<logs, screenVars, here, visits, faults, gaps>>

Cook ==
  /\ logs < MaxLogs
  /\ logs' = logs + 1
  /\ UNCHANGED <<cache, screenVars, here, online, visits, faults, gaps>>

Next ==
  \/ LoadMore \/ Retry \/ Leave \/ Visit \/ GoOffline \/ GoOnline \/ Cook
  \/ \E o \in Offsets : ListAllCookLogs(o) \/ PageArrives(o) \/ PageLost(o)

Spec == Init /\ [][Next]_vars

\* The device comes back, and a request is answered or given up.
Fairness ==
  /\ WF_vars(GoOnline)
  /\ \A o \in Offsets : WF_vars(ListAllCookLogs(o) \/ PageArrives(o) \/ PageLost(o))
LiveSpec == Spec /\ Fairness

-----------------------------------------------------------------------------
(* Properties.                                                             *)

AtRest == here /\ \A o \in Offsets : ~Fetching(cache[o])

\* Pages of different moments overlap, and leave nothing out between them: in one
\* visit, without a gap in the connection, every log between the newest and the
\* oldest one shown is shown.
NoneMissing ==
  Feed # <<>> => \A l \in Min(Range(Feed)) .. Max(Range(Feed)) : l \in Range(Feed)

\* The button goes away only when the oldest log is shown, although the number of
\* logs shown is compared with a total of another moment and may count some twice.
EndIsReached == (AtRest /\ Feed # <<>> /\ ~IsError /\ ~HasMore) => 1 \in Range(Feed)

\* A page that was asked for is shown, or the failure is, if the member stays.
AwaitedPageComes ==
  (here /\ (data = NoData \/ data.at # offset))
     ~> (~here \/ IsError \/ (data # NoData /\ data.at = offset))
=============================================================================

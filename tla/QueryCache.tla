------------------------------ MODULE QueryCache ------------------------------
(***************************************************************************)
(* One entry of the query cache, as the screens use it.  The library (its  *)
(* code is not in the repository) keeps the data of the last answer, at    *)
(* most one fetch under way, and whether the last fetch failed.  The       *)
(* server evaluates a fetch at some moment between its start and its       *)
(* arrival: phase "asked" before that moment, "read" after it, with what   *)
(* it read in snap.                                                        *)
(***************************************************************************)

CONSTANT NoData   \* nothing was fetched yet

NewQuery == [data |-> NoData, phase |-> "idle", snap |-> NoData, failed |-> FALSE]

IsQuery(q, Data) ==
  q \in [data : Data \cup {NoData}, phase : {"idle", "asked", "read"},
         snap : Data \cup {NoData}, failed : BOOLEAN]

Fetching(q) == q.phase # "idle"

\* Mounting a screen, coming back online, fetchQuery: join a fetch under way.
Fetch(q) == IF Fetching(q) THEN q ELSE [q EXCEPT !.phase = "asked"]

\* refetch() and the invalidation of an observed entry drop a fetch under way and
\* start anew, unless it is the first one.
Refetch(q) ==
  IF q.data = NoData THEN Fetch(q) ELSE [q EXCEPT !.phase = "asked", !.snap = NoData]

\* invalidateQueries on an entry that a screen observes, or that none does: then it
\* is only marked stale, and a fetch under way goes on.
MarkStale(q, observed) == IF observed THEN Refetch(q) ELSE q

\* cancelQueries: the answer of the fetch under way will be ignored.
Cancel(q) == [q EXCEPT !.phase = "idle", !.snap = NoData]

\* setQueryData: a fetch under way goes on, and will overwrite it.
Prime(q, data) == [q EXCEPT !.data = data, !.failed = FALSE]

ReadAs(q, data) == [q EXCEPT !.phase = "read", !.snap = data]

Deliver(q) == [Cancel(q) EXCEPT !.data = q.snap, !.failed = FALSE]

\* A 404, or a transport failure after the last retry: the old data is kept.
Fail(q) == [Cancel(q) EXCEPT !.failed = TRUE]
=============================================================================

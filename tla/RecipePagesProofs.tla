-------------------------- MODULE RecipePagesProofs --------------------------
(* The pages of a recipe, for any number of saves, visits and edits by others: *)
(* what they show is never older than the last save that was answered          *)
(* (SavedStaysShown), and a draft is the member's own (DraftStaysOwn).         *)
EXTENDS RecipePages, FiniteSetTheorems, TLAPS

Call ==
  [kind : {"save", "delete"}, text : SUBSET Edits, visit : Nat,
   phase : {"asked", "answered", "settled"}, ok : BOOLEAN, ver : Versions \cup {0}]

\* Every variable is of its type.
WellTyped ==
  /\ TypeOK
  /\ calls \in Seq(Call) /\ Len(calls) <= MaxCalls
  /\ others \in 0 .. MaxOthers
  /\ editor = NoEditor \/ editor \in [visit : {visits}, text : SUBSET Edits]

\* The version of the recipe counts the saves that were applied and the changes by others.
Applied == {c \in DOMAIN calls : calls[c].ver # 0}

VersionFits == server # NoData => server.ver = 1 + Cardinality(Applied) + others

\* A call is applied when it is answered, and a save that was answered well was applied.
CallFits(call) ==
  /\ call.phase = "asked" => call.ver = 0 /\ ~call.ok
  /\ call.kind = "save" /\ call.ok => call.ver # 0
  /\ server # NoData => call.ver <= server.ver

CallsFit == \A c \in DOMAIN calls : CallFits(calls[c])

\* What an entry of the cache holds or is about to hold is of this version or a newer one.
Newer(entry, ver) ==
  /\ entry.phase = "read" => entry.snap.ver >= ver
  /\ entry.data # NoData => entry.data.ver >= ver

EntryFits ==
  /\ server # NoData => told <= server.ver
  /\ q.phase = "read" => q.snap # NoData
  /\ ~raced => Newer(q, told)

PagesInv == WellTyped /\ VersionFits /\ CallsFit /\ EntryFits

-----------------------------------------------------------------------------
(* The bounds and the types.                                                *)

LEMMA VersionsAre ==
  /\ \A n : n \in Versions <=> n \in Nat /\ 1 <= n /\ n <= 1 + MaxCalls + MaxOthers
  /\ MaxCalls \in Nat /\ MaxOthers \in Nat /\ MaxVisits \in Nat /\ 1 <= MaxVisits
  BY BoundsAssumption DEF Versions

LEMMA StoredIs ==
  ASSUME NEW s \in Stored
  PROVE  /\ s # NoData /\ s.ver \in Versions /\ s.ver \in Nat /\ s.text \subseteq Edits
  BY NoDataAssumption, VersionsAre DEF Stored

LEMMA CallsAre ==
  ASSUME WellTyped
  PROVE  /\ Len(calls) \in Nat /\ DOMAIN calls = 1 .. Len(calls) /\ Len(calls) <= MaxCalls
         /\ \A c \in DOMAIN calls : calls[c] \in Call
<1>1. calls \in Seq(Call) /\ Len(calls) <= MaxCalls
  BY DEF WellTyped
<1> QED
  BY <1>1

LEMMA StateIs ==
  ASSUME WellTyped
  PROVE  /\ server \in Stored \cup {NoData} /\ IsQuery(q, Stored)
         /\ told \in Nat /\ others \in Nat /\ others <= MaxOthers
         /\ visits \in Nat /\ 1 <= visits /\ visits <= MaxVisits
         /\ page \in {"list", "detail", "edit"}
         /\ editor # NoEditor => /\ page = "edit" /\ editor \in [visit : {visits}, text : SUBSET Edits]
<1>1. /\ TypeOK /\ others \in 0 .. MaxOthers
      /\ editor = NoEditor \/ editor \in [visit : {visits}, text : SUBSET Edits]
  BY DEF WellTyped
<1>2. told \in Nat /\ visits \in 1 .. MaxVisits
  BY <1>1, VersionsAre DEF TypeOK
<1> QED
  BY <1>1, <1>2, VersionsAre DEF TypeOK

\* Calls that are not applied leave room for one more version.
LEMMA AppliedFinite ==
  ASSUME WellTyped
  PROVE  /\ IsFiniteSet(Applied) /\ Cardinality(Applied) \in Nat
         /\ Cardinality(Applied) <= MaxCalls
         /\ \A c \in DOMAIN calls : c \notin Applied => Cardinality(Applied) < MaxCalls
<1> DEFINE n == Len(calls)
<1>1. n \in Nat /\ DOMAIN calls = 1 .. n /\ n <= MaxCalls
  BY CallsAre
<1>2. Applied \in SUBSET (1 .. n)
  BY <1>1 DEF Applied
<1> HIDE DEF n
<1>3. IsFiniteSet(1 .. n) /\ Cardinality(1 .. n) = n
  BY <1>1, FS_Interval
<1>4. IsFiniteSet(Applied) /\ Cardinality(Applied) <= n /\ Cardinality(Applied) \in Nat
  BY <1>2, <1>3, FS_Subset, FS_CardinalityType
<1>5. ASSUME NEW c \in 1 .. n, c \notin Applied PROVE Cardinality(Applied) < n
  <2>1. Cardinality(Applied \cup {c}) = Cardinality(Applied) + 1
    BY <1>4, <1>5, FS_AddElement
  <2>2. Applied \cup {c} \in SUBSET (1 .. n)
    BY <1>2
  <2>3. Cardinality(Applied \cup {c}) <= n
    BY <1>3, <2>2, FS_Subset
  <2> QED
    BY <1>1, <1>4, <2>1, <2>3
<1> QED
  BY <1>1, <1>4, <1>5, VersionsAre

-----------------------------------------------------------------------------
(* The entry of the cache.                                                  *)

LEMMA QueryIs ==
  ASSUME NEW entry, IsQuery(entry, Stored)
  PROVE  /\ entry = [data |-> entry.data, phase |-> entry.phase, snap |-> entry.snap,
                     failed |-> entry.failed]
         /\ entry.data \in Stored \cup {NoData} /\ entry.snap \in Stored \cup {NoData}
         /\ entry.phase \in {"idle", "asked", "read"} /\ entry.failed \in BOOLEAN
  BY DEF IsQuery

LEMMA FieldsOf ==
  ASSUME NEW entry, IsQuery(entry, Stored)
  PROVE  /\ /\ IsQuery(Fail(entry), Stored)
            /\ Fail(entry).data = entry.data /\ Fail(entry).phase = "idle" /\ Fail(entry).failed
         /\ /\ IsQuery(Deliver(entry), Stored)
            /\ Deliver(entry).data = entry.snap /\ Deliver(entry).phase = "idle"
  BY DEF IsQuery, Fail, Deliver, Cancel

\* What is read waits to arrive; what is primed is held at once.
LEMMA PrimedIs ==
  ASSUME NEW entry, IsQuery(entry, Stored), NEW s \in Stored
  PROVE  /\ /\ IsQuery(ReadAs(entry, s), Stored)
            /\ ReadAs(entry, s).data = entry.data /\ ReadAs(entry, s).phase = "read"
            /\ ReadAs(entry, s).snap = s /\ ReadAs(entry, s).failed = entry.failed
         /\ /\ IsQuery(Prime(entry, s), Stored)
            /\ Prime(entry, s).data = s /\ Prime(entry, s).phase = entry.phase
            /\ Prime(entry, s).snap = entry.snap
  BY DEF IsQuery, ReadAs, Prime

\* A fetch, joined, begun or begun anew, or one that failed, keeps what is held and at
\* most what was read.
LEMMA EntryKeeps ==
  ASSUME NEW entry, IsQuery(entry, Stored),
         NEW e \in {entry, Fetch(entry), Refetch(entry), Fail(entry)}
  PROVE  /\ IsQuery(e, Stored) /\ e.data = entry.data
         /\ e.phase = "read" => entry.phase = "read" /\ e.snap = entry.snap
         /\ entry.failed => e.failed
<1>1. CASE e \in {entry, Fetch(entry)}
  BY <1>1 DEF IsQuery, Fetch, Fetching
<1>2. CASE e = Refetch(entry)
  <2>1. CASE entry.data = NoData
    BY <1>2, <2>1 DEF IsQuery, Refetch, Fetch, Fetching
  <2>2. CASE entry.data # NoData
    BY <1>2, <2>2 DEF IsQuery, Refetch
  <2> QED
    BY <2>1, <2>2
<1>3. CASE e = Fail(entry)
  BY <1>3, FieldsOf
<1> QED
  BY <1>1, <1>2, <1>3

LEMMA NewerKept ==
  ASSUME NEW entry, IsQuery(entry, Stored), NEW ver, Newer(entry, ver),
         NEW e \in {entry, Fetch(entry), Refetch(entry), Fail(entry)}
  PROVE  Newer(e, ver)
  BY EntryKeeps DEF Newer

\* An editor, seeded or kept, is one of its visit.
LEMMA SeededIs ==
  ASSUME WellTyped, NEW entry, IsQuery(entry, Stored), NEW to, NEW n
  PROVE  \/ Seeded(to, n, entry) = NoEditor
         \/ to = "edit" /\ Seeded(to, n, entry) \in [visit : {n}, text : SUBSET Edits]
<1>1. CASE to # "edit" \/ ~Loaded(entry)
  BY <1>1 DEF Seeded
<1>2. CASE to = "edit" /\ Loaded(entry)
  <2>1. entry.data.text \subseteq Edits
    BY <1>2, QueryIs, StoredIs DEF Loaded
  <2>2. editor # NoEditor => editor \in [visit : {visits}, text : SUBSET Edits]
    BY StateIs
  <2> QED
    BY <1>2, <2>1, <2>2 DEF Seeded
<1> QED
  BY <1>1, <1>2

-----------------------------------------------------------------------------
(* Steps of the pages and of the cache.                                     *)

\* What a rendered page may be.
PageTyped ==
  /\ page \in {"list", "detail", "edit"} /\ dialog \in BOOLEAN /\ (dialog => page = "detail")
  /\ editor = NoEditor \/ (page = "edit" /\ editor \in [visit : {visits}, text : SUBSET Edits])
  /\ visits \in 1 .. MaxVisits /\ edits \in Edits \cup {0}

LEMMA PageIs == WellTyped => PageTyped
  BY DEF WellTyped, TypeOK, PageTyped

\* A step of the pages that leaves the server and the calls alone.
LEMMA PageStep ==
  ASSUME PagesInv, UNCHANGED <<server, calls, others, told, raced>>, PageTyped',
         IsQuery(q', Stored), EntryFits', missing' \in BOOLEAN, missing' => q'.failed
  PROVE  PagesInv'
<1>1. WellTyped'
  <2>1. /\ calls' \in Seq(Call) /\ Len(calls') <= MaxCalls /\ others' \in 0 .. MaxOthers
    BY DEF PagesInv, WellTyped
  <2>2. editor' = NoEditor \/ editor' \in [visit : {visits'}, text : SUBSET Edits]
    BY DEF PageTyped
  <2>3. editor' = NoEditor
          \/ (page' = "edit" /\ editor'.visit = visits' /\ editor'.text \subseteq Edits)
    BY DEF PageTyped
  <2>4. TypeOK'
    BY <2>3 DEF PagesInv, WellTyped, TypeOK, PageTyped
  <2> QED
    BY <2>1, <2>2, <2>4 DEF WellTyped
<1>2. VersionFits' /\ CallsFit'
  BY DEF PagesInv, VersionFits, Applied, CallsFit, CallFits
<1> QED
  BY <1>1, <1>2 DEF PagesInv

\* The entry a page step leaves.
LEMMA EntryStep ==
  ASSUME PagesInv, UNCHANGED <<server, told, raced>>,
         q' \in {q, Fetch(q), Refetch(q), Fail(q)}
  PROVE  /\ IsQuery(q', Stored) /\ EntryFits' /\ (q.failed => q'.failed)
<1>1. IsQuery(q, Stored) /\ EntryFits
  BY StateIs DEF PagesInv
<1>2. /\ IsQuery(q', Stored) /\ (q.failed => q'.failed)
      /\ q'.phase = "read" => q.phase = "read" /\ q'.snap = q.snap
  BY <1>1, EntryKeeps
<1>3. Newer(q, told) => Newer(q', told)
  BY <1>1, NewerKept
<1> QED
  BY <1>1, <1>2, <1>3 DEF EntryFits

LEMMA OpenedIs ==
  ASSUME PagesInv, NEW to \in {"list", "detail", "edit"}, NEW entry, IsQuery(entry, Stored),
         visits < MaxVisits, Opened(to, entry), edits' = edits
  PROVE  PageTyped' /\ q' \in {entry, Fetch(entry)}
<1>1. /\ page' = to /\ visits' = visits + 1 /\ dialog' = FALSE
      /\ q' = (IF to = "list" THEN entry ELSE Fetch(entry))
      /\ editor' = Seeded(to, visits + 1, entry)
  BY DEF Opened
<1>2. WellTyped /\ visits \in Nat /\ 1 <= visits /\ edits \in Edits \cup {0}
  BY StateIs DEF PagesInv, WellTyped, TypeOK
<1>3. visits' \in 1 .. MaxVisits
  BY <1>1, <1>2, VersionsAre
<1>4. \/ editor' = NoEditor
      \/ to = "edit" /\ editor' \in [visit : {visits + 1}, text : SUBSET Edits]
  BY <1>1, <1>2, SeededIs
<1> QED
  BY <1>1, <1>2, <1>3, <1>4 DEF PageTyped

LEMMA RerenderedIs ==
  ASSUME PagesInv, NEW entry, IsQuery(entry, Stored), Rerendered(entry),
         UNCHANGED <<page, dialog, visits, edits>>
  PROVE  PageTyped' /\ q' = entry
<1>1. q' = entry /\ editor' = Seeded(page, visits, entry)
  BY DEF Rerendered
<1>2. \/ editor' = NoEditor
      \/ page = "edit" /\ editor' \in [visit : {visits}, text : SUBSET Edits]
  BY <1>1, SeededIs DEF PagesInv
<1> QED
  BY <1>1, <1>2, PageIs DEF PagesInv, PageTyped

LEMMA VisitStep ==
  ASSUME PagesInv, NEW to \in {"list", "detail", "edit"}, Visit(to) PROVE PagesInv'
<1>1. UNCHANGED <<server, missing, calls, edits, others, told, raced>>
  BY DEF Visit
<1>2. IsQuery(q, Stored) /\ missing \in BOOLEAN /\ (missing => q.failed)
  BY DEF PagesInv, WellTyped, TypeOK
<1>3. PageTyped' /\ q' \in {q, Fetch(q)}
  BY <1>1, <1>2, OpenedIs DEF Visit
<1>4. IsQuery(q', Stored) /\ EntryFits' /\ (q.failed => q'.failed)
  BY <1>1, <1>3, EntryStep
<1> QED
  BY <1>1, <1>2, <1>3, <1>4, PageStep

LEMMA RetryStep == ASSUME PagesInv, Retry PROVE PagesInv'
<1>1. /\ UNCHANGED <<server, missing, page, dialog, visits, calls, edits, others, told, raced>>
      /\ ~missing /\ Rerendered(Refetch(q))
  BY DEF Retry
<1>2. IsQuery(q, Stored) /\ missing \in BOOLEAN
  BY DEF PagesInv, WellTyped, TypeOK
<1>3. IsQuery(Refetch(q), Stored)
  BY <1>2, EntryKeeps
<1>4. PageTyped' /\ q' = Refetch(q)
  BY <1>1, <1>3, RerenderedIs
<1>5. EntryFits'
  BY <1>1, <1>4, EntryStep
<1>6. IsQuery(q', Stored) /\ missing' \in BOOLEAN /\ ~missing'
  BY <1>1, <1>2, <1>3, <1>4
<1> QED
  BY <1>1, <1>4, <1>5, <1>6, PageStep

LEMMA TypeStep == ASSUME PagesInv, Type PROVE PagesInv'
<1>1. /\ UNCHANGED <<server, q, missing, page, dialog, visits, calls, others, told, raced>>
      /\ editor # NoEditor /\ edits + 1 \in Edits /\ edits' = edits + 1
      /\ editor' = [editor EXCEPT !.text = @ \cup {edits + 1}]
  BY DEF Type
<1>2. page = "edit" /\ editor \in [visit : {visits}, text : SUBSET Edits]
  BY <1>1, StateIs DEF PagesInv
<1>3. editor' \in [visit : {visits}, text : SUBSET Edits]
  BY <1>1, <1>2
<1>4. PageTyped'
  BY <1>1, <1>2, <1>3, PageIs DEF PagesInv, PageTyped
<1>5. /\ IsQuery(q', Stored) /\ EntryFits'
      /\ missing' \in BOOLEAN /\ (missing' => q'.failed)
  BY <1>1 DEF PagesInv, WellTyped, TypeOK, EntryFits, Newer
<1> QED
  BY <1>1, <1>4, <1>5, PageStep

LEMMA DialogStep == ASSUME PagesInv, SetDialog PROVE PagesInv'
<1>1. /\ UNCHANGED <<server, q, missing, page, editor, visits, calls, edits, others, told, raced>>
      /\ page = "detail" /\ dialog' = ~dialog
  BY DEF SetDialog
<1>2. PageTyped'
  BY <1>1, PageIs DEF PagesInv, PageTyped
<1>3. /\ IsQuery(q', Stored) /\ EntryFits'
      /\ missing' \in BOOLEAN /\ (missing' => q'.failed)
  BY <1>1 DEF PagesInv, WellTyped, TypeOK, EntryFits, Newer
<1> QED
  BY <1>1, <1>2, <1>3, PageStep

LEMMA ReadStep == ASSUME PagesInv, Read PROVE PagesInv'
<1>1. /\ UNCHANGED <<server, missing, pageVars, calls, edits, others, told, raced>>
      /\ q' = ReadAs(q, server) /\ server # NoData
  BY DEF Read
<1>2. /\ IsQuery(q, Stored) /\ server \in Stored /\ EntryFits
      /\ missing \in BOOLEAN /\ (missing => q.failed)
  BY <1>1, StateIs DEF PagesInv, WellTyped, TypeOK
<1>3. q'.data = q.data /\ q'.phase = "read" /\ q'.snap = server /\ q'.failed = q.failed
  BY <1>1, <1>2, PrimedIs
<1>4. IsQuery(q', Stored)
  BY <1>1, <1>2, PrimedIs
<1>5. told <= server.ver /\ told \in Nat /\ server.ver \in Nat
  BY <1>1, <1>2, StateIs, StoredIs DEF PagesInv, EntryFits
<1>6. EntryFits'
  BY <1>1, <1>2, <1>3, <1>5 DEF EntryFits, Newer
<1>7. PageTyped'
  BY <1>1, PageIs DEF PagesInv, PageTyped, pageVars
<1> QED
  BY <1>1, <1>2, <1>3, <1>4, <1>6, <1>7, PageStep

LEMMA ArrivesStep == ASSUME PagesInv, Arrives PROVE PagesInv'
<1>1. /\ UNCHANGED <<server, page, dialog, visits, calls, edits, others, told, raced>>
      /\ q.phase = "read" /\ Rerendered(Deliver(q)) /\ missing' = FALSE
  BY DEF Arrives
<1>2. IsQuery(q, Stored) /\ EntryFits
  BY StateIs DEF PagesInv
<1> DEFINE e == Deliver(q)
<1>3. e.data = q.snap /\ e.phase = "idle"
  BY <1>2, FieldsOf
<1>4. IsQuery(e, Stored)
  BY <1>2, FieldsOf
<1> HIDE DEF e
<1>5. PageTyped' /\ q' = e
  BY <1>1, <1>4, RerenderedIs DEF e
<1>6. EntryFits'
  BY <1>1, <1>2, <1>3, <1>5 DEF EntryFits, Newer
<1> QED
  BY <1>1, <1>4, <1>5, <1>6, PageStep

LEMMA FailsStep == ASSUME PagesInv, Fails PROVE PagesInv'
<1>1. /\ UNCHANGED <<server, page, dialog, visits, calls, edits, others, told, raced>>
      /\ Rerendered(Fail(q)) /\ missing' \in BOOLEAN
  BY DEF Fails
<1>2. IsQuery(q, Stored)
  BY StateIs DEF PagesInv
<1>3. IsQuery(Fail(q), Stored) /\ Fail(q).failed
  BY <1>2, FieldsOf
<1>4. PageTyped' /\ q' = Fail(q)
  BY <1>1, <1>3, RerenderedIs
<1>5. EntryFits'
  BY <1>1, <1>4, EntryStep
<1> QED
  BY <1>1, <1>3, <1>4, <1>5, PageStep

-----------------------------------------------------------------------------
(* The calls.                                                               *)

\* The button is disabled while its call is pending.
OneCall ==
  \A c, d \in DOMAIN calls :
    calls[c].visit = calls[d].visit /\ calls[c].phase # "settled" /\ calls[d].phase # "settled"
      => c = d

CallsTyped == calls \in Seq(Call) /\ Len(calls) <= MaxCalls /\ OneCall

LEMMA CallsTypedIs == WellTyped => CallsTyped
  BY DEF WellTyped, TypeOK, CallsTyped, OneCall

\* A step, from the parts of the state it leaves.
LEMMA StepIs ==
  ASSUME CallsTyped', VersionFits', CallsFit', EntryFits', PageTyped',
         server' \in Stored \cup {NoData}, others' \in 0 .. MaxOthers,
         IsQuery(q', Stored), missing' \in BOOLEAN, missing' => q'.failed,
         told' \in Versions \cup {0}, raced' \in BOOLEAN
  PROVE  PagesInv'
<1>1. /\ calls' \in Seq(Call) /\ Len(calls') <= MaxCalls /\ OneCall'
  BY DEF CallsTyped
<1>2. \A c \in DOMAIN calls' : calls'[c].phase \in {"asked", "answered", "settled"}
  <2>1. \A c \in DOMAIN calls' : calls'[c] \in Call
    BY <1>1
  <2> QED
    BY <2>1 DEF Call
<1>3. editor' = NoEditor \/ editor' \in [visit : {visits'}, text : SUBSET Edits]
  BY DEF PageTyped
<1>4. editor' = NoEditor
        \/ (page' = "edit" /\ editor'.visit = visits' /\ editor'.text \subseteq Edits)
  BY DEF PageTyped
<1>5. TypeOK'
  BY <1>1, <1>2, <1>4 DEF TypeOK, PageTyped, OneCall
<1>6. WellTyped'
  BY <1>1, <1>3, <1>5 DEF WellTyped
<1> QED
  BY <1>6 DEF PagesInv

\* What a step that leaves the pages and the cache alone keeps of them.
LEMMA PageKept ==
  ASSUME PagesInv, UNCHANGED <<q, missing, pageVars, edits, told, raced>>
  PROVE  /\ IsQuery(q', Stored) /\ missing' \in BOOLEAN /\ (missing' => q'.failed)
         /\ told' \in Versions \cup {0} /\ raced' \in BOOLEAN /\ PageTyped'
<1>1. WellTyped /\ PageTyped
  BY PageIs DEF PagesInv
<1> QED
  BY <1>1 DEF WellTyped, TypeOK, PageTyped, pageVars

LEMMA EntryKept ==
  ASSUME EntryFits, UNCHANGED <<q, told, raced>>,
         server' # NoData => server # NoData /\ server.ver <= server'.ver,
         told \in Nat, server # NoData => server.ver \in Nat, server' # NoData => server'.ver \in Nat
  PROVE  EntryFits'
  BY DEF EntryFits, Newer

\* A click sends one call more, with nothing applied.
LEMMA SendStep ==
  ASSUME PagesInv, NEW kind \in {"save", "delete"}, NEW text \in SUBSET Edits, Send(kind, text)
  PROVE  PagesInv'
<1> DEFINE call == [kind |-> kind, text |-> text, visit |-> visits, phase |-> "asked",
                     ok |-> FALSE, ver |-> 0]
<1>0. PICK n \in Nat : n = Len(calls)
  BY CallsAre DEF PagesInv
<1>1. /\ calls' = Append(calls, call) /\ n < MaxCalls /\ ~Pending(visits)
      /\ UNCHANGED <<server, q, missing, pageVars, edits, others, told, raced>>
  BY <1>0 DEF Send
<1>2. WellTyped /\ CallsTyped /\ CallsFit /\ VersionFits /\ EntryFits /\ visits \in Nat
  BY StateIs, CallsTypedIs DEF PagesInv
<1>3. call \in Call
  BY <1>2 DEF Call
<1>4. call.phase = "asked" /\ call.ver = 0 /\ ~call.ok /\ call.visit = visits
  OBVIOUS
<1>5. n \in Nat /\ DOMAIN calls = 1 .. n /\ calls \in Seq(Call)
  BY <1>0, <1>2, CallsAre DEF CallsTyped
<1> HIDE DEF call
<1>6. /\ calls' \in Seq(Call) /\ Len(calls') = n + 1 /\ DOMAIN calls' = 1 .. (n + 1)
      /\ calls'[n + 1] = call /\ \A c \in 1 .. n : calls'[c] = calls[c]
  BY <1>0, <1>1, <1>3, <1>5
<1>7. \A c \in 1 .. (n + 1) : c \in 1 .. n \/ c = n + 1
  BY <1>5
<1>8. CallsFit'
  <2>1. \A c \in 1 .. n : CallFits(calls[c])'
    <3> SUFFICES ASSUME NEW c \in 1 .. n PROVE CallFits(calls[c])'
      OBVIOUS
    <3>1. CallFits(calls[c])
      BY <1>2, <1>5 DEF CallsFit
    <3>2. calls'[c] = calls[c] /\ server' = server
      BY <1>1, <1>6
    <3> QED
      BY <3>1, <3>2 DEF CallFits
  <2>2. CallFits(calls[n + 1])'
    <3>1. calls'[n + 1] = call /\ server' = server /\ (server # NoData => server.ver \in Nat)
      BY <1>1, <1>2, <1>6, StateIs, StoredIs
    <3>2. server # NoData => 0 <= server.ver
      BY <3>1
    <3> QED
      BY <1>4, <3>1, <3>2 DEF CallFits
  <2> QED
    BY <1>6, <1>7, <2>1, <2>2 DEF CallsFit
<1>9. OneCall'
  <2>1. \A c \in 1 .. n : calls[c].visit = visits => calls[c].phase = "settled"
    BY <1>1, <1>5 DEF Pending
  <2>2. \A c, d \in 1 .. n :
          calls[c].visit = calls[d].visit /\ calls[c].phase # "settled"
            /\ calls[d].phase # "settled" => c = d
    BY <1>2, <1>5 DEF CallsTyped, OneCall
  <2> QED
    BY <1>4, <1>6, <1>7, <2>1, <2>2 DEF OneCall
<1>10. Applied' = Applied
  BY <1>4, <1>5, <1>6, <1>7 DEF Applied
<1>11. VersionFits'
  BY <1>1, <1>2, <1>10 DEF VersionFits
<1>12. CallsTyped'
  BY <1>1, <1>5, <1>6, <1>9, VersionsAre DEF CallsTyped
<1>13. server' \in Stored \cup {NoData} /\ others' \in 0 .. MaxOthers /\ EntryFits'
  BY <1>1, <1>2 DEF WellTyped, TypeOK, EntryFits, Newer
<1>14. /\ IsQuery(q', Stored) /\ missing' \in BOOLEAN /\ (missing' => q'.failed)
       /\ told' \in Versions \cup {0} /\ raced' \in BOOLEAN /\ PageTyped'
  BY <1>1, PageKept
<1> QED
  BY <1>8, <1>11, <1>12, <1>13, <1>14, StepIs

LEMMA ClickStep == ASSUME PagesInv, Save \/ Delete PROVE PagesInv'
<1>1. CASE Save
  <2>1. editor # NoEditor /\ Send("save", editor.text)
    BY <1>1 DEF Save
  <2>2. editor \in [visit : {visits}, text : SUBSET Edits]
    BY <2>1, StateIs DEF PagesInv
  <2>3. editor.text \in SUBSET Edits
    BY <2>2
  <2> QED
    BY <2>1, <2>3, SendStep
<1>2. CASE Delete
  <2>1. Send("delete", {})
    BY <1>2 DEF Delete
  <2> QED
    BY <2>1, SendStep
<1> QED
  BY <1>1, <1>2

\* A call that is answered, or settled, in its place.
LEMMA ReplaceIs ==
  ASSUME PagesInv, NEW c \in DOMAIN calls, NEW call \in Call, calls[c].phase # "settled",
         call.visit = calls[c].visit, calls' = [calls EXCEPT ![c] = call]
  PROVE  /\ CallsTyped' /\ DOMAIN calls' = DOMAIN calls
         /\ calls'[c] = call /\ \A d \in DOMAIN calls \ {c} : calls'[d] = calls[d]
<1>1. calls \in Seq(Call) /\ Len(calls) <= MaxCalls /\ OneCall
  BY CallsTypedIs DEF PagesInv, CallsTyped
<1>2. /\ calls' \in Seq(Call) /\ Len(calls') = Len(calls) /\ DOMAIN calls' = DOMAIN calls
      /\ calls'[c] = call /\ \A d \in DOMAIN calls \ {c} : calls'[d] = calls[d]
  BY <1>1
<1>3. \A d \in DOMAIN calls : /\ calls'[d].visit = calls[d].visit
                             /\ calls'[d].phase # "settled" => calls[d].phase # "settled"
  BY <1>2
<1>4. OneCall'
  BY <1>1, <1>2, <1>3 DEF OneCall
<1> QED
  BY <1>1, <1>2, <1>4 DEF CallsTyped

LEMMA FieldsOfCall ==
  ASSUME NEW call \in Call
  PROVE  /\ call = [kind |-> call.kind, text |-> call.text, visit |-> call.visit,
                    phase |-> call.phase, ok |-> call.ok, ver |-> call.ver]
         /\ call.kind \in {"save", "delete"} /\ call.text \in SUBSET Edits /\ call.visit \in Nat
         /\ call.ok \in BOOLEAN /\ call.ver \in Versions \cup {0} /\ call.ver \in Nat
  BY VersionsAre DEF Call

\* The calls fit still when one of them is replaced by one that fits.
LEMMA ReplaceFits ==
  ASSUME PagesInv, NEW c \in DOMAIN calls, NEW call,
         DOMAIN calls' = DOMAIN calls, calls'[c] = call,
         \A d \in DOMAIN calls \ {c} : calls'[d] = calls[d],
         server' # NoData => server # NoData /\ server.ver <= server'.ver,
         server' # NoData => server'.ver \in Nat, CallFits(call)'
  PROVE  CallsFit'
<1> SUFFICES ASSUME NEW d \in DOMAIN calls PROVE CallFits(calls[d])'
  BY DEF CallsFit
<1>1. CASE d = c
  BY <1>1 DEF CallFits
<1>2. CASE d # c
  <2>1. calls'[d] = calls[d] /\ CallFits(calls[d])
    BY <1>2 DEF PagesInv, CallsFit
  <2>2. calls[d].ver \in Nat /\ (server # NoData => server.ver \in Nat)
    BY CallsAre, FieldsOfCall, StateIs, StoredIs DEF PagesInv
  <2> QED
    BY <2>1, <2>2 DEF CallFits
<1> QED
  BY <1>1, <1>2

\* A replaced call that is no more and no less applied than before.
LEMMA SameApplied ==
  ASSUME PagesInv, NEW c \in DOMAIN calls, NEW call \in Call, calls[c].phase # "settled",
         call.visit = calls[c].visit, calls' = [calls EXCEPT ![c] = call],
         call.ver = calls[c].ver, CallFits(call), UNCHANGED <<server, others>>
  PROVE  CallsTyped' /\ CallsFit' /\ VersionFits'
<1>1. /\ CallsTyped' /\ DOMAIN calls' = DOMAIN calls
      /\ calls'[c] = call /\ \A d \in DOMAIN calls \ {c} : calls'[d] = calls[d]
  BY ReplaceIs
<1>2. server # NoData => server.ver \in Nat /\ server.ver <= server.ver
  BY StateIs, StoredIs DEF PagesInv
<1>3. CallFits(call)'
  BY DEF CallFits
<1>4. CallsFit'
  BY <1>1, <1>2, <1>3, ReplaceFits
<1>5. Applied' = Applied
  BY <1>1 DEF Applied
<1> QED
  BY <1>1, <1>4, <1>5 DEF PagesInv, VersionFits

\* The update and the deletion reach the server.
LEMMA ServeStep == ASSUME PagesInv, NEW c \in DOMAIN calls, Serve(c) PROVE PagesInv'
<1> DEFINE after == IF server = NoData \/ calls[c].kind = "delete" THEN NoData
                    ELSE [ver |-> server.ver + 1, text |-> calls[c].text]
<1>1. /\ calls[c].phase = "asked" /\ server' = after
      /\ calls' = [calls EXCEPT ![c].phase = "answered", ![c].ok = server # NoData,
                                ![c].ver = IF server' = NoData THEN 0 ELSE server'.ver]
      /\ UNCHANGED <<q, missing, pageVars, edits, others, told, raced>>
  BY DEF Serve
<1>2. WellTyped /\ CallsFit /\ VersionFits /\ EntryFits
  BY DEF PagesInv
<1>3. calls[c] \in Call /\ CallFits(calls[c]) /\ calls[c].ver = 0
  BY <1>1, <1>2, CallsAre DEF CallsFit, CallFits
<1>4. /\ c \notin Applied /\ Cardinality(Applied) \in Nat /\ Cardinality(Applied) < MaxCalls
      /\ IsFiniteSet(Applied)
  BY <1>2, <1>3, AppliedFinite DEF Applied
<1>5. server' # NoData =>
        /\ server # NoData /\ calls[c].kind = "save" /\ server.ver \in Nat
        /\ server' = [ver |-> server.ver + 1, text |-> calls[c].text]
  BY <1>1, <1>2, <1>3, StateIs, StoredIs DEF Call
<1>6. server' # NoData => server' \in Stored /\ server'.ver = server.ver + 1
  <2>1. HAVE server' # NoData
  <2>2. server.ver = 1 + Cardinality(Applied) + others /\ server.ver \in Nat
    BY <1>2, <1>5, <2>1 DEF VersionFits
  <2>3. server.ver + 1 \in Versions
    BY <1>2, <1>4, <2>2, StateIs, VersionsAre
  <2>4. calls[c].text \in SUBSET Edits
    BY <1>3, FieldsOfCall
  <2> QED
    BY <1>5, <2>1, <2>3, <2>4 DEF Stored
<1>7. server # NoData /\ calls[c].kind = "save" => server' # NoData
  <2>1. HAVE server # NoData /\ calls[c].kind = "save"
  <2>2. server' = [ver |-> server.ver + 1, text |-> calls[c].text]
    BY <1>1, <2>1
  <2>3. server.ver = 1 + Cardinality(Applied) + others
    BY <1>2, <2>1 DEF VersionFits
  <2>4. server.ver + 1 \in Versions
    BY <1>2, <1>4, <2>3, StateIs, VersionsAre
  <2>5. calls[c].text \in SUBSET Edits
    BY <1>3, FieldsOfCall
  <2>6. server' \in Stored
    BY <2>2, <2>4, <2>5 DEF Stored
  <2> QED
    BY <2>6, StoredIs
<1> HIDE DEF after
<1>8. PICK ok \in BOOLEAN : ok = (server # NoData)
  OBVIOUS
<1>9. PICK v : v = IF server' = NoData THEN 0 ELSE server'.ver
  OBVIOUS
<1>10. PICK call : call = [calls[c] EXCEPT !.phase = "answered", !.ok = ok, !.ver = v]
  OBVIOUS
<1>11. /\ server' = NoData => v = 0
       /\ server' # NoData => v = server'.ver /\ v \in Versions /\ v # 0
  BY <1>6, <1>9, StoredIs, VersionsAre
<1>12. /\ call \in Call /\ call.kind = calls[c].kind /\ call.visit = calls[c].visit
       /\ call.phase = "answered" /\ call.ok = ok /\ call.ver = v
  BY <1>3, <1>8, <1>10, <1>11 DEF Call
<1>13. calls' = [calls EXCEPT ![c] = call]
  <2>1. calls' = [calls EXCEPT ![c].phase = "answered", ![c].ok = ok, ![c].ver = v]
    BY <1>1, <1>8, <1>9
  <2> QED
    BY <1>3, <1>10, <2>1
<1>14. /\ CallsTyped' /\ DOMAIN calls' = DOMAIN calls
       /\ calls'[c] = call /\ \A d \in DOMAIN calls \ {c} : calls'[d] = calls[d]
  BY <1>1, <1>12, <1>13, ReplaceIs
<1>15. server' # NoData => /\ server # NoData /\ server.ver \in Nat /\ server'.ver \in Nat
                           /\ server.ver <= server'.ver
  BY <1>5, <1>6
<1>16. CallFits(call)'
  <2>1. call.phase # "asked"
    BY <1>12
  <2>2. call.kind = "save" /\ call.ok => call.ver # 0
    <3>1. call.ok => server # NoData
      BY <1>8, <1>12
    <3> QED
      BY <1>7, <1>11, <1>12, <3>1
  <2>3. server' # NoData => call.ver <= server'.ver
    BY <1>11, <1>12, <1>15
  <2> QED
    BY <2>1, <2>2, <2>3 DEF CallFits
<1>17. CallsFit'
  BY <1>14, <1>15, <1>16, ReplaceFits
<1>18. VersionFits'
  <2>1. SUFFICES ASSUME server' # NoData PROVE server'.ver = 1 + Cardinality(Applied') + others'
    BY DEF VersionFits
  <2>2. Applied' = Applied \cup {c}
    BY <1>11, <1>12, <1>14, <2>1 DEF Applied
  <2>3. Cardinality(Applied') = Cardinality(Applied) + 1
    BY <1>4, <2>2, FS_AddElement
  <2>4. server.ver = 1 + Cardinality(Applied) + others
    BY <1>2, <1>15, <2>1 DEF VersionFits
  <2> QED
    BY <1>1, <1>2, <1>4, <1>6, <2>1, <2>3, <2>4, StateIs
<1>19. told \in Nat /\ (server # NoData => server.ver \in Nat)
  BY <1>2, StateIs, StoredIs
<1>20. EntryFits'
  BY <1>1, <1>2, <1>15, <1>19, EntryKept
<1>21. server' \in Stored \cup {NoData} /\ others' \in 0 .. MaxOthers
  BY <1>1, <1>2, <1>6 DEF WellTyped
<1>22. /\ IsQuery(q', Stored) /\ missing' \in BOOLEAN /\ (missing' => q'.failed)
       /\ told' \in Versions \cup {0} /\ raced' \in BOOLEAN /\ PageTyped'
  BY <1>1, PageKept
<1> QED
  BY <1>14, <1>17, <1>18, <1>20, <1>21, <1>22, StepIs

\* An answer that is lost leaves what was applied applied.
LEMMA LostStep == ASSUME PagesInv, NEW c \in DOMAIN calls, Lost(c) PROVE PagesInv'
<1>1. /\ calls[c].phase # "settled"
      /\ calls' = [calls EXCEPT ![c].phase = "answered", ![c].ok = FALSE]
      /\ UNCHANGED <<server, q, missing, pageVars, edits, others, told, raced>>
  BY DEF Lost
<1>2. WellTyped /\ CallsFit /\ VersionFits /\ EntryFits
  BY DEF PagesInv
<1>3. calls[c] \in Call /\ CallFits(calls[c])
  BY <1>2, CallsAre DEF CallsFit
<1>4. PICK call : call = [calls[c] EXCEPT !.phase = "answered", !.ok = FALSE]
  OBVIOUS
<1>5. /\ call \in Call /\ call.visit = calls[c].visit /\ call.ver = calls[c].ver
      /\ call.phase = "answered" /\ ~call.ok
  BY <1>3, <1>4 DEF Call
<1>6. calls' = [calls EXCEPT ![c] = call]
  BY <1>1, <1>3, <1>4
<1>7. CallFits(call)
  BY <1>3, <1>5 DEF CallFits
<1>8. CallsTyped' /\ CallsFit' /\ VersionFits'
  BY <1>1, <1>5, <1>6, <1>7, SameApplied
<1>9. server' \in Stored \cup {NoData} /\ others' \in 0 .. MaxOthers /\ EntryFits'
  BY <1>1, <1>2 DEF WellTyped, TypeOK, EntryFits, Newer
<1>10. /\ IsQuery(q', Stored) /\ missing' \in BOOLEAN /\ (missing' => q'.failed)
       /\ told' \in Versions \cup {0} /\ raced' \in BOOLEAN /\ PageTyped'
  BY <1>1, PageKept
<1> QED
  BY <1>8, <1>9, <1>10, StepIs

\* Another member saves the recipe, or deletes it.
LEMMA OthersStep == ASSUME PagesInv, OthersAct PROVE PagesInv'
<1>1. /\ server # NoData /\ others < MaxOthers /\ others' = others + 1
      /\ UNCHANGED <<q, missing, pageVars, calls, told, raced>>
      /\ \/ /\ edits + 1 \in Edits /\ edits' = edits + 1
            /\ server' = [ver |-> server.ver + 1, text |-> server.text \cup {edits + 1}]
         \/ server' = NoData /\ edits' = edits
  BY DEF OthersAct
<1>2. WellTyped /\ CallsFit /\ VersionFits /\ EntryFits /\ CallsTyped
  BY CallsTypedIs DEF PagesInv
<1>3. /\ others \in Nat /\ told \in Nat /\ server \in Stored /\ server.ver \in Nat
      /\ server.text \subseteq Edits
  BY <1>1, <1>2, StateIs, StoredIs
<1>4. server.ver = 1 + Cardinality(Applied) + others
  BY <1>1, <1>2 DEF VersionFits
<1>5. Cardinality(Applied) \in Nat /\ Cardinality(Applied) <= MaxCalls
  BY <1>2, AppliedFinite
<1>6. server' # NoData => server' \in Stored /\ server'.ver = server.ver + 1
  <2>1. HAVE server' # NoData
  <2>2. /\ edits + 1 \in Edits
        /\ server' = [ver |-> server.ver + 1, text |-> server.text \cup {edits + 1}]
    BY <1>1, <2>1
  <2>3. server.ver + 1 \in Versions
    BY <1>1, <1>3, <1>4, <1>5, VersionsAre
  <2> QED
    BY <1>3, <2>2, <2>3 DEF Stored
<1>7. server' # NoData => server # NoData /\ server.ver <= server'.ver /\ server'.ver \in Nat
  BY <1>1, <1>3, <1>6
<1>8. VersionFits'
  <2>1. Applied' = Applied
    BY <1>1 DEF Applied
  <2> QED
    BY <1>1, <1>3, <1>4, <1>5, <1>6, <2>1 DEF VersionFits
<1>9. CallsFit'
  <2> SUFFICES ASSUME NEW d \in DOMAIN calls PROVE CallFits(calls[d])'
    BY <1>1 DEF CallsFit
  <2>1. CallFits(calls[d]) /\ calls[d].ver \in Nat
    BY <1>2, CallsAre, FieldsOfCall DEF CallsFit
  <2> QED
    BY <1>1, <1>3, <1>7, <2>1 DEF CallFits
<1>10. EntryFits'
  BY <1>1, <1>2, <1>3, <1>7, EntryKept
<1>11. CallsTyped'
  BY <1>1, <1>2 DEF CallsTyped, OneCall
<1>12. PageTyped'
  BY <1>1, <1>2, PageIs DEF PageTyped, pageVars
<1>13. /\ IsQuery(q', Stored) /\ missing' \in BOOLEAN /\ (missing' => q'.failed)
       /\ told' \in Versions \cup {0} /\ raced' \in BOOLEAN
  BY <1>1, <1>2 DEF WellTyped, TypeOK
<1>14. server' \in Stored \cup {NoData} /\ others' \in 0 .. MaxOthers
  BY <1>1, <1>3, <1>6, VersionsAre
<1> QED
  BY <1>8, <1>9, <1>10, <1>11, <1>12, <1>13, <1>14, StepIs

-----------------------------------------------------------------------------
(* The answers.                                                             *)

\* A call that settles is what it was.
LEMMA SettleIs ==
  ASSUME PagesInv, NEW c \in DOMAIN calls, calls[c].phase # "settled", calls[c].phase # "asked",
         Settle(c), UNCHANGED <<server, others>>
  PROVE  CallsTyped' /\ CallsFit' /\ VersionFits'
<1>1. calls[c] \in Call /\ CallFits(calls[c])
  BY CallsAre DEF PagesInv, CallsFit
<1>2. PICK call : call = [calls[c] EXCEPT !.phase = "settled"]
  OBVIOUS
<1>3. /\ call \in Call /\ call.visit = calls[c].visit /\ call.ver = calls[c].ver
      /\ call.kind = calls[c].kind /\ call.ok = calls[c].ok /\ call.phase = "settled"
  BY <1>1, <1>2 DEF Call
<1>4. calls' = [calls EXCEPT ![c] = call]
  BY <1>1, <1>2 DEF Settle
<1>5. CallFits(call)
  BY <1>1, <1>3 DEF CallFits
<1> QED
  BY <1>3, <1>4, <1>5, SameApplied

LEMMA FailedStep == ASSUME PagesInv, NEW c \in DOMAIN calls, Failed(c) PROVE PagesInv'
<1>1. /\ calls[c].phase = "answered" /\ Settle(c)
      /\ dialog' = (dialog /\ ~(calls[c].kind = "delete" /\ calls[c].visit = visits))
      /\ UNCHANGED <<server, q, missing, page, editor, visits, edits, others, told, raced>>
  BY DEF Failed
<1>2. WellTyped /\ EntryFits /\ PageTyped
  BY PageIs DEF PagesInv
<1>3. CallsTyped' /\ CallsFit' /\ VersionFits'
  BY <1>1, SettleIs
<1>4. dialog' \in BOOLEAN /\ (dialog' => dialog)
  BY <1>1
<1>5. PageTyped'
  BY <1>1, <1>2, <1>4 DEF PageTyped
<1>6. /\ IsQuery(q', Stored) /\ missing' \in BOOLEAN /\ (missing' => q'.failed)
      /\ told' \in Versions \cup {0} /\ raced' \in BOOLEAN
      /\ server' \in Stored \cup {NoData} /\ others' \in 0 .. MaxOthers
  BY <1>1, <1>2 DEF WellTyped, TypeOK
<1>7. EntryFits'
  BY <1>1, <1>2 DEF EntryFits, Newer
<1> QED
  BY <1>3, <1>5, <1>6, <1>7, StepIs

\* A save that is answered primes the entry with its version, which a fetch that begins
\* afterwards can only exceed.
LEMMA SavedStep ==
  ASSUME PagesInv, NEW c \in DOMAIN calls, Done(c), calls[c].kind = "save"
  PROVE  PagesInv'
<1>1. /\ calls[c].phase = "answered" /\ calls[c].ok /\ Settle(c)
      /\ missing' = FALSE /\ told' = calls[c].ver /\ raced' = (raced \/ Fetching(q))
      /\ IF page = "detail" THEN q' = Primed(c) /\ UNCHANGED pageVars
         ELSE visits < MaxVisits /\ Opened("detail", Primed(c))
      /\ UNCHANGED <<server, edits, others>>
  BY DEF Done
<1>2. WellTyped /\ EntryFits /\ PageTyped /\ IsQuery(q, Stored)
  BY PageIs, StateIs DEF PagesInv
<1>3. CallsTyped' /\ CallsFit' /\ VersionFits'
  BY <1>1, SettleIs
<1>4. calls[c] \in Call /\ CallFits(calls[c])
  BY <1>2, CallsAre DEF PagesInv, CallsFit
<1>5. /\ calls[c].ver \in Versions /\ calls[c].ver \in Nat /\ calls[c].text \in SUBSET Edits
      /\ server # NoData => calls[c].ver <= server.ver
  BY <1>1, <1>4, FieldsOfCall DEF CallFits
<1>6. PICK s : s = [ver |-> calls[c].ver, text |-> calls[c].text]
  OBVIOUS
<1>7. s \in Stored /\ s.ver = calls[c].ver
  BY <1>5, <1>6 DEF Stored
<1>8. PICK e : e = Prime(q, s)
  OBVIOUS
<1>9. Primed(c) = e
  BY <1>6, <1>8 DEF Primed
<1>10. /\ IsQuery(e, Stored) /\ e.data = s /\ e.phase = q.phase /\ e.snap = q.snap
  BY <1>2, <1>7, <1>8, PrimedIs
<1>11. PageTyped' /\ q' \in {e, Fetch(e)}
  <2>1. CASE page = "detail"
    BY <1>1, <1>2, <1>9, <2>1 DEF PageTyped, pageVars
  <2>2. CASE page # "detail"
    BY <1>1, <1>9, <1>10, <2>2, OpenedIs
  <2> QED
    BY <2>1, <2>2
<1>12. /\ IsQuery(q', Stored) /\ q'.data = s
       /\ q'.phase = "read" => q.phase = "read" /\ q'.snap = q.snap
  BY <1>10, <1>11, EntryKeeps
<1>13. EntryFits'
  <2>1. q'.phase = "read" => q'.snap # NoData
    BY <1>2, <1>12 DEF EntryFits
  <2>2. ~raced' => Newer(q', told')
    <3>1. HAVE ~raced'
    <3>2. q'.phase # "read"
      BY <1>1, <1>12, <3>1 DEF Fetching
    <3> QED
      BY <1>1, <1>5, <1>7, <1>12, <3>2 DEF Newer
  <2> QED
    BY <1>1, <1>5, <2>1, <2>2 DEF EntryFits
<1>14. /\ told' \in Versions \cup {0} /\ raced' \in BOOLEAN /\ missing' = FALSE
       /\ server' \in Stored \cup {NoData} /\ others' \in 0 .. MaxOthers
  BY <1>1, <1>2, <1>5 DEF WellTyped, TypeOK, Fetching
<1> QED
  BY <1>3, <1>11, <1>12, <1>13, <1>14, StepIs

LEMMA DeletedStep ==
  ASSUME PagesInv, NEW c \in DOMAIN calls, Done(c), calls[c].kind # "save"
  PROVE  PagesInv'
<1>1. /\ calls[c].phase = "answered" /\ Settle(c)
      /\ IF page = "list" THEN UNCHANGED <<q, pageVars>>
         ELSE visits < MaxVisits /\ Opened("list", q)
      /\ UNCHANGED <<server, missing, edits, others, told, raced>>
  BY DEF Done
<1>2. WellTyped /\ EntryFits /\ PageTyped /\ IsQuery(q, Stored)
  BY PageIs, StateIs DEF PagesInv
<1>3. CallsTyped' /\ CallsFit' /\ VersionFits'
  BY <1>1, SettleIs
<1>4. PageTyped' /\ q' = q
  <2>1. CASE page = "list"
    BY <1>1, <1>2, <2>1 DEF PageTyped, pageVars
  <2>2. CASE page # "list"
    <3>1. PageTyped'
      BY <1>1, <1>2, <2>2, OpenedIs
    <3> QED
      BY <1>1, <2>2, <3>1 DEF Opened
  <2> QED
    BY <2>1, <2>2
<1>5. EntryFits'
  BY <1>1, <1>2, <1>4 DEF EntryFits, Newer
<1>6. /\ IsQuery(q', Stored) /\ missing' \in BOOLEAN /\ (missing' => q'.failed)
      /\ told' \in Versions \cup {0} /\ raced' \in BOOLEAN
      /\ server' \in Stored \cup {NoData} /\ others' \in 0 .. MaxOthers
  BY <1>1, <1>2, <1>4 DEF WellTyped, TypeOK
<1> QED
  BY <1>3, <1>4, <1>5, <1>6, StepIs

-----------------------------------------------------------------------------
(* The invariant, and what it shows.                                        *)

LEMMA PagesInit == Init => PagesInv
<1> SUFFICES ASSUME Init PROVE PagesInv
  OBVIOUS
<1>1. /\ server = [ver |-> 1, text |-> {}] /\ q = Fetch(NewQuery) /\ missing = FALSE
      /\ page \in {"detail", "edit"} /\ editor = NoEditor /\ dialog = FALSE
      /\ calls = <<>> /\ edits = 0 /\ visits = 1 /\ others = 0 /\ told = 0 /\ raced = FALSE
  BY DEF Init
<1>2. server \in Stored /\ server.ver = 1
  BY <1>1, VersionsAre DEF Stored
<1>3. q = [data |-> NoData, phase |-> "asked", snap |-> NoData, failed |-> FALSE]
  BY <1>1 DEF Fetch, Fetching, NewQuery
<1>4. IsQuery(q, Stored)
  BY <1>3 DEF IsQuery
<1>5. calls \in Seq(Call) /\ Len(calls) = 0 /\ DOMAIN calls = {}
  BY <1>1
<1>6. Applied = {}
  BY <1>5 DEF Applied
<1>7. TypeOK
  <2>1. \A c \in DOMAIN calls : calls[c].phase \in {"asked", "answered", "settled"}
    BY <1>5
  <2>2. OneCall
    BY <1>5 DEF OneCall
  <2>3. visits \in 1 .. MaxVisits /\ edits \in Edits \cup {0} /\ told \in Versions \cup {0}
    BY <1>1, VersionsAre
  <2>4. /\ missing \in BOOLEAN /\ ~missing /\ dialog \in BOOLEAN /\ ~dialog /\ raced \in BOOLEAN
        /\ page \in {"list", "detail", "edit"}
    BY <1>1
  <2> QED
    BY <1>1, <1>2, <1>4, <2>1, <2>2, <2>3, <2>4 DEF TypeOK, OneCall
<1>8. WellTyped
  BY <1>1, <1>5, <1>7, VersionsAre DEF WellTyped
<1>9. VersionFits
  BY <1>1, <1>2, <1>6, FS_EmptySet DEF VersionFits
<1>10. CallsFit
  BY <1>5 DEF CallsFit
<1>11. EntryFits
  BY <1>1, <1>2, <1>3 DEF EntryFits, Newer
<1> QED
  BY <1>8, <1>9, <1>10, <1>11 DEF PagesInv

LEMMA PagesNext == PagesInv /\ [Next]_vars => PagesInv'
<1> SUFFICES ASSUME PagesInv, [Next]_vars PROVE PagesInv'
  OBVIOUS
<1>1. CASE \E to \in {"list", "detail", "edit"} : Visit(to)
  BY <1>1, VisitStep
<1>2. CASE Retry
  BY <1>2, RetryStep
<1>3. CASE Type
  BY <1>3, TypeStep
<1>4. CASE Save \/ Delete
  BY <1>4, ClickStep
<1>5. CASE SetDialog
  BY <1>5, DialogStep
<1>6. ASSUME NEW c \in DOMAIN calls, Serve(c) \/ Lost(c) \/ Done(c) \/ Failed(c) PROVE PagesInv'
  <2>1. CASE Serve(c)
    BY <2>1, ServeStep
  <2>2. CASE Lost(c)
    BY <2>2, LostStep
  <2>3. CASE Done(c) /\ calls[c].kind = "save"
    BY <2>3, SavedStep
  <2>4. CASE Done(c) /\ calls[c].kind # "save"
    BY <2>4, DeletedStep
  <2>5. CASE Failed(c)
    BY <2>5, FailedStep
  <2> QED
    BY <1>6, <2>1, <2>2, <2>3, <2>4, <2>5
<1>7. CASE OthersAct
  BY <1>7, OthersStep
<1>8. CASE Read
  BY <1>8, ReadStep
<1>9. CASE Arrives
  BY <1>9, ArrivesStep
<1>10. CASE Fails
  BY <1>10, FailsStep
<1>11. CASE UNCHANGED vars
  BY <1>11 DEF vars, pageVars, PagesInv, WellTyped, TypeOK, VersionFits, Applied, CallsFit,
               CallFits, EntryFits, Newer
<1> QED
  BY <1>1, <1>2, <1>3, <1>4, <1>5, <1>6, <1>7, <1>8, <1>9, <1>10, <1>11 DEF Next

LEMMA PagesHold == Spec => []PagesInv
  BY PagesInit, PagesNext, PTL DEF Spec

\* Whatever is typed, saved, lost or changed by others, what the detail page and a newly
\* opened editor show is the version of the last save answered or a later one, as long
\* as no fetch was under way when a save was answered (RecipeForm.tsx: setQueryData with
\* the answer of the save).
THEOREM SavedStaysShown == Spec => []SavedIsShown
<1>1. PagesInv => SavedIsShown
  BY DEF PagesInv, EntryFits, Newer, SavedIsShown
<1> QED
  BY <1>1, PagesHold, PTL

\* No step changes the draft of an editor that stays open but the member's typing, which
\* adds to it what is typed (RecipeForm.tsx: the draft is seeded once).
THEOREM DraftStaysOwn == Spec => DraftIsTheMembers
<1> DEFINE Kept == editor # NoEditor /\ editor'.visit = editor.visit /\ editor' # editor
                     => \E e \in Edits : editor'.text = editor.text \cup {e} /\ edits' = e
<1>1. PagesInv /\ [Next]_vars => [Kept]_vars
  <2> SUFFICES ASSUME PagesInv, Next, editor # NoEditor, editor'.visit = editor.visit,
                      editor' # editor
               PROVE  \E e \in Edits : editor'.text = editor.text \cup {e} /\ edits' = e
    OBVIOUS
  <2>1. /\ editor \in [visit : {visits}, text : SUBSET Edits] /\ page = "edit"
        /\ visits \in Nat /\ 1 <= visits
    BY StateIs DEF PagesInv
  <2>2. editor.visit = visits
    BY <2>1
  <2>3. ASSUME NEW to, NEW entry, Opened(to, entry) PROVE FALSE
    <3>1. editor' = Seeded(to, visits + 1, entry)
      BY <2>3 DEF Opened
    <3>2. editor'.visit \in {0, visits + 1}
      BY <2>1, <2>2, <3>1 DEF Seeded, NoEditor
    <3> QED
      BY <2>1, <2>2, <3>2
  <2>4. ASSUME NEW entry, Rerendered(entry) PROVE FALSE
    <3>1. editor' = NoEditor \/ editor' = editor
      BY <2>1, <2>2, <2>4 DEF Rerendered, Seeded
    <3>2. editor'.visit = visits
      BY <2>2
    <3>3. NoEditor.visit = 0
      BY DEF NoEditor
    <3> QED
      BY <2>1, <3>1, <3>2, <3>3
  <2>5. CASE Type
    <3>1. /\ edits + 1 \in Edits /\ edits' = edits + 1
          /\ editor' = [editor EXCEPT !.text = @ \cup {edits + 1}]
      BY <2>5 DEF Type
    <3>2. editor'.text = editor.text \cup {edits + 1}
      BY <2>1, <3>1
    <3> QED
      BY <3>1, <3>2
  <2>6. CASE \E to \in {"list", "detail", "edit"} : Visit(to)
    BY <2>3, <2>6 DEF Visit
  <2>7. CASE Retry \/ Arrives \/ Fails
    BY <2>4, <2>7 DEF Retry, Arrives, Fails
  <2>8. CASE Save \/ Delete \/ SetDialog \/ OthersAct \/ Read
    BY <2>8 DEF Save, Delete, Send, SetDialog, OthersAct, Read, pageVars
  <2>9. ASSUME NEW c \in DOMAIN calls, Serve(c) \/ Lost(c) \/ Failed(c) PROVE FALSE
    BY <2>9 DEF Serve, Lost, Failed, pageVars
  <2>10. ASSUME NEW c \in DOMAIN calls, Done(c) PROVE FALSE
    BY <2>1, <2>3, <2>10 DEF Done
  <2> QED
    BY <2>5, <2>6, <2>7, <2>8, <2>9, <2>10 DEF Next
<1>2. DraftIsTheMembers <=> [][Kept]_vars
  BY DEF DraftIsTheMembers
<1> QED
  BY <1>1, <1>2, PagesHold, PTL DEF Spec
=============================================================================

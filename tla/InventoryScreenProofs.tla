------------------------ MODULE InventoryScreenProofs ------------------------
(* The inventory screen, for any stock, any number of calls and of changes by  *)
(* others: no click applies twice (AppliesOnce), a screen at rest shows what   *)
(* it was told (RestIsTold), a refusal stays with its row (ErrorStaysOwn) and  *)
(* an edit sends typed fields alone (TypedAlone).                              *)
EXTENDS InventoryScreen, FiniteSetTheorems, WellFoundedInduction, TLAPS

\* Every variable is of its type.
WellTyped ==
  /\ server \in Stock /\ IsQuery(q, Stock)
  /\ calls \in Seq(Call) /\ Len(calls) <= MaxCalls
  /\ addDraft \in Names \cup {""}
  /\ editor = NoEditor \/ editor \in [id : Ids, was : Row, name : Names, amount : Amounts,
                                      typed : SUBSET Fields]
  /\ observed \in 0 .. Len(calls) /\ dialog \in Ids \cup {NoRow} /\ away \in BOOLEAN
  /\ others \in 0 .. MaxOthers /\ owed \in Nat

\* The version of the stock counts the changes, and no id or amount is beyond it.
Small(s) ==
  /\ DOMAIN s.rows \subseteq 1 .. (1 + s.ver)
  /\ \A i \in DOMAIN s.rows : s.rows[i].amount <= Theirs + s.ver

Applied == {c \in DOMAIN calls : calls[c].times = 1}

StockFits == Small(server) /\ server.ver = Cardinality(Applied) + others

\* A call that has no answer yet was not applied; it was at most once in any case.
CallFits(call) ==
  /\ call.times \in {0, 1} /\ call.ver <= server.ver
  /\ call.reply = "none" => call.times = 0
  /\ call.kind \in {"add", "edit"} => call.name \in Names

CallsFit == \A c \in DOMAIN calls : CallFits(calls[c])

\* The call the panel shows is about its row, and only typed fields have moved.
EditorFits ==
  editor # NoEditor =>
    /\ observed # 0 => calls[observed].id = editor.id
    /\ Moved(editor) \subseteq editor.typed

\* What is owed is on the server; it is in the answer under way once that is read, and
\* in the list that an open screen shows with nothing under way.  Of the list at rest
\* while the member is away nothing is said: the next visit asks for it.
ListFits ==
  /\ owed <= server.ver
  /\ q.phase = "read" => q.snap # NoData /\ q.snap.ver >= owed
  /\ Shown /\ ~Fetching(q) => q.data.ver >= owed

ScreenInv == WellTyped /\ StockFits /\ CallsFit /\ EditorFits /\ ListFits

-----------------------------------------------------------------------------
(* The stock.                                                               *)

LEMMA MaxIsGreatest ==
  ASSUME NEW n \in Nat, NEW S \in SUBSET (0 .. n), S # {}
  PROVE  Max(S) \in S /\ \A x \in S : Max(S) >= x
<1> DEFINE Above(m) == {y \in S : y > m}
           F == {Above(m) : m \in S}
<1>1. F \subseteq FiniteSubsetsOf(S) /\ F # {}
  <2>1. IsFiniteSet(0 .. n)
    BY FS_Interval
  <2>2. \A m \in S : IsFiniteSet(Above(m))
    <3> TAKE m \in S
    <3>1. Above(m) \in SUBSET (0 .. n)
      OBVIOUS
    <3> QED
      BY <2>1, <3>1, FS_Subset
  <2> QED
    BY <2>2 DEF FiniteSubsetsOf
<1>2. PICK t \in F : \A u \in F : <<u, t>> \notin StrictSubsetOrdering(S)
  <2>1. IsWellFoundedOn(StrictSubsetOrdering(S), FiniteSubsetsOf(S))
    BY FS_Interval, FS_Subset, FS_StrictSubsetOrderingWellFounded
  <2> HIDE DEF F
  <2> QED
    BY <1>1, <2>1, WFMin
<1>3. PICK m \in S : t = Above(m)
  BY <1>2
<1>4. \A x \in S : m >= x
  <2> SUFFICES ASSUME NEW x \in S, ~(m >= x) PROVE FALSE
    OBVIOUS
  <2>1. x \in Int /\ m \in Int /\ \A y \in S : y \in Int
    OBVIOUS
  <2>2. x \in Above(m) /\ x \notin Above(x) /\ Above(x) \subseteq Above(m)
    <3>1. x > m /\ ~(x > x) /\ \A y \in S : y > x => y > m
      BY <2>1
    <3> QED
      BY <3>1
  <2>3. <<Above(x), Above(m)>> \in StrictSubsetOrdering(S)
    BY <2>2 DEF StrictSubsetOrdering
  <2> QED
    BY <1>2, <1>3, <2>3
<1> QED
  BY <1>4 DEF Max

LEMMA BoundsAreNat == MaxCalls + MaxOthers \in Nat /\ MaxCalls \in Nat /\ MaxOthers \in Nat
  BY BoundsAssumption

\* A stock with one change more is again one, as long as changes remain.
LEMMA StockOf ==
  ASSUME NEW s, s = [ver |-> s.ver, rows |-> s.rows], s.ver \in Nat,
         s.ver <= MaxCalls + MaxOthers,
         NEW D, D \subseteq 1 .. (1 + s.ver), s.rows = [i \in D |-> s.rows[i]],
         \A i \in D : s.rows[i] \in [name : Names, amount : 0 .. (Theirs + s.ver)]
  PROVE  s \in Stock /\ Small(s)
<1>1. D \in SUBSET Ids
  BY BoundsAreNat DEF Ids
<1>2. \A i \in D : s.rows[i] \in Row
  BY BoundsAreNat DEF Row, Amounts, Theirs
<1>3. s.rows \in [D -> Row]
  BY <1>2
<1>4. s.rows \in UNION {[S -> Row] : S \in SUBSET Ids}
  BY <1>1, <1>3
<1>5. DOMAIN s.rows = D
  BY <1>3
<1>6. \A i \in D : s.rows[i].amount <= Theirs + s.ver
  BY DEF Theirs
<1> QED
  BY <1>4, <1>5, <1>6 DEF Stock, Small

LEMMA StockIs ==
  ASSUME NEW s \in Stock
  PROVE  /\ s.ver \in Nat /\ s = [ver |-> s.ver, rows |-> s.rows]
         /\ DOMAIN s.rows \subseteq Ids /\ s.rows \in [DOMAIN s.rows -> Row]
  BY DEF Stock

\* What every operation starts from.
Room(s) == s \in Stock /\ Small(s) /\ s.ver < MaxCalls + MaxOthers

LEMMA RowsOf ==
  ASSUME NEW s, Room(s)
  PROVE  /\ s.ver \in Nat /\ s.ver + 1 <= MaxCalls + MaxOthers
         /\ DOMAIN s.rows \subseteq 1 .. (1 + s.ver)
         /\ \A i \in DOMAIN s.rows :
              /\ s.rows[i] \in [name : Names, amount : 0 .. (Theirs + s.ver)]
              /\ s.rows[i] \in [name : Names, amount : 0 .. (Theirs + (s.ver + 1))]
<1>1. s.ver \in Nat /\ s.rows \in [DOMAIN s.rows -> Row] /\ Small(s)
  BY StockIs DEF Room
<1> QED
  BY <1>1, BoundsAreNat DEF Room, Small, Row, Amounts, Theirs

LEMMA UpsertStays ==
  ASSUME NEW s, Room(s), NEW name \in Names
  PROVE  LET t == Upsert(s, name) IN t \in Stock /\ Small(t) /\ t.ver = s.ver + 1
<1> DEFINE t == Upsert(s, name)
           found == Holders(s.rows, name) # {}
           D == IF found THEN DOMAIN s.rows ELSE DOMAIN s.rows \cup {NextId(s.rows)}
<1>1. t.ver = s.ver + 1 /\ t = [ver |-> t.ver, rows |-> t.rows]
  BY DEF Upsert
<1>2. NextId(s.rows) \in 1 .. (2 + s.ver)
  <2>1. CASE DOMAIN s.rows = {}
    BY <2>1, RowsOf DEF NextId
  <2>2. CASE DOMAIN s.rows # {}
    <3>1. DOMAIN s.rows \in SUBSET (0 .. (1 + s.ver)) /\ 1 + s.ver \in Nat
      BY RowsOf
    <3>2. Max(DOMAIN s.rows) \in DOMAIN s.rows
      BY <2>2, <3>1, MaxIsGreatest
    <3> QED
      BY <2>2, <3>2, RowsOf DEF NextId
  <2> QED
    BY <2>1, <2>2
<1>3. D \subseteq 1 .. (1 + t.ver)
  BY <1>1, <1>2, RowsOf
<1>4. t.rows = [i \in D |-> t.rows[i]]
  BY DEF Upsert
<1>5. \A i \in D : t.rows[i] \in [name : Names, amount : 0 .. (Theirs + t.ver)]
  <2> TAKE i \in D
  <2>1. CASE found
    <3>1. t.rows[i] = IF s.rows[i].name = name THEN [s.rows[i] EXCEPT !.amount = @ + 1]
                      ELSE s.rows[i]
      BY <2>1 DEF Upsert
    <3> HIDE DEF t
    <3> QED
      BY <1>1, <2>1, <3>1, RowsOf DEF Theirs
  <2>2. CASE ~found
    <3>1. t.rows[i] = IF i \in DOMAIN s.rows THEN s.rows[i] ELSE [name |-> name, amount |-> 1]
      BY <2>2 DEF Upsert
    <3> HIDE DEF t
    <3> QED
      BY <1>1, <2>2, <3>1, RowsOf DEF Theirs
  <2> QED
    BY <2>1, <2>2
<1> HIDE DEF t, D
<1>6. t \in Stock /\ Small(t)
  BY <1>1, <1>3, <1>4, <1>5, RowsOf, StockOf
<1> QED
  BY <1>1, <1>6 DEF t

LEMMA WithoutStays ==
  ASSUME NEW s, Room(s), NEW id
  PROVE  LET t == Without(s, id) IN t \in Stock /\ Small(t) /\ t.ver = s.ver + 1
<1> DEFINE t == Without(s, id)
           D == DOMAIN s.rows \ {id}
<1>1. t.ver = s.ver + 1 /\ t = [ver |-> t.ver, rows |-> t.rows]
  BY DEF Without
<1>2. t.rows = [i \in D |-> t.rows[i]] /\ \A i \in D : t.rows[i] = s.rows[i]
  BY DEF Without
<1>3. D \subseteq 1 .. (1 + t.ver)
  BY <1>1, RowsOf
<1> HIDE DEF t
<1>4. \A i \in D : t.rows[i] \in [name : Names, amount : 0 .. (Theirs + t.ver)]
  BY <1>1, <1>2, RowsOf
<1> HIDE DEF D
<1>5. t \in Stock /\ Small(t)
  BY <1>1, <1>2, <1>3, <1>4, RowsOf, StockOf
<1> QED
  BY <1>1, <1>5 DEF t

LEMMA UsedStays ==
  ASSUME NEW s, Room(s), NEW id
  PROVE  LET t == Used(s, id) IN t \in Stock /\ Small(t) /\ t.ver = s.ver + 1
<1> DEFINE t == Used(s, id)
           D == DOMAIN s.rows
<1>1. t.ver = s.ver + 1 /\ t = [ver |-> t.ver, rows |-> t.rows]
  BY DEF Used
<1>2. t.rows = [i \in D |-> t.rows[i]]
      /\ \A i \in D : t.rows[i] = IF i = id /\ s.rows[i].amount > 0
                                  THEN [s.rows[i] EXCEPT !.amount = @ - 1] ELSE s.rows[i]
  BY DEF Used
<1>3. D \subseteq 1 .. (1 + t.ver)
  BY <1>1, RowsOf
<1> HIDE DEF t
<1>4. \A i \in D : t.rows[i] \in [name : Names, amount : 0 .. (Theirs + t.ver)]
  <2> TAKE i \in D
  <2>1. s.rows[i] \in [name : Names, amount : 0 .. (Theirs + (s.ver + 1))]
    BY RowsOf
  <2>2. s.rows[i].amount > 0 =>
          [s.rows[i] EXCEPT !.amount = @ - 1] \in [name : Names, amount : 0 .. (Theirs + (s.ver + 1))]
    BY <2>1, RowsOf DEF Theirs
  <2> QED
    BY <1>1, <1>2, <2>1, <2>2
<1> HIDE DEF D
<1>5. t \in Stock /\ Small(t)
  BY <1>1, <1>2, <1>3, <1>4, RowsOf, StockOf
<1> QED
  BY <1>1, <1>5 DEF t

LEMMA PatchedStays ==
  ASSUME NEW s, Room(s), NEW id \in DOMAIN s.rows, NEW fields, NEW name,
         NEW amount \in {Typed, Theirs}, "name" \in fields => name \in Names
  PROVE  LET t == Patched(s, id, fields, name, amount)
         IN t \in Stock /\ Small(t) /\ t.ver = s.ver + 1
<1> DEFINE t == Patched(s, id, fields, name, amount)
           D == DOMAIN s.rows
           new == [name |-> IF "name" \in fields THEN name ELSE s.rows[id].name,
                   amount |-> IF "amount" \in fields THEN amount ELSE s.rows[id].amount]
<1>1. t.ver = s.ver + 1 /\ t = [ver |-> t.ver, rows |-> t.rows]
  BY DEF Patched
<1>2. \A i \in D : s.rows[i] \in [name : Names, amount : 0 .. (Theirs + s.ver)]
  BY RowsOf
<1>3. /\ DOMAIN t.rows = D
      /\ t.rows[id] = new
      /\ \A i \in D \ {id} : t.rows[i] = s.rows[i]
  BY <1>2 DEF Patched
<1>4. t.rows = [i \in D |-> t.rows[i]]
  BY <1>2 DEF Patched
<1>5. D \subseteq 1 .. (1 + t.ver)
  BY <1>1, RowsOf
<1>6. new \in [name : Names, amount : 0 .. (Theirs + (s.ver + 1))]
  BY <1>2, RowsOf DEF Theirs, Typed
<1> HIDE DEF t, new
<1>7. \A i \in D : t.rows[i] \in [name : Names, amount : 0 .. (Theirs + t.ver)]
  BY <1>1, <1>3, <1>6, RowsOf
<1> HIDE DEF D
<1>8. t \in Stock /\ Small(t)
  BY <1>1, <1>4, <1>5, <1>7, RowsOf, StockOf
<1> QED
  BY <1>1, <1>8 DEF t

LEMMA EffectStays ==
  ASSUME Room(server), NEW call \in Call, CallFits(call), Refused(call) = "no"
  PROVE  LET t == EffectOf(call) IN t \in Stock /\ Small(t) /\ t.ver = server.ver + 1
<1>1. CASE call.kind = "add"
  BY <1>1, UpsertStays DEF EffectOf, CallFits
<1>2. CASE call.kind = "edit"
  <2>1. call.id \in DOMAIN server.rows
    BY <1>2 DEF Refused
  <2> QED
    BY <1>2, <2>1, PatchedStays DEF EffectOf, CallFits
<1>3. CASE call.kind = "delete"
  <2>1. EffectOf(call) = Without(server, call.id)
    BY <1>3 DEF EffectOf
  <2> QED
    BY <2>1, WithoutStays
<1>4. CASE call.kind = "cook"
  <2>1. EffectOf(call) = Used(server, call.id)
    BY <1>4 DEF EffectOf
  <2> QED
    BY <2>1, UsedStays
<1> QED
  BY <1>1, <1>2, <1>3, <1>4 DEF Call, Kinds

LEMMA CallsAre ==
  ASSUME WellTyped
  PROVE  /\ Len(calls) \in Nat /\ DOMAIN calls = 1 .. Len(calls) /\ Len(calls) <= MaxCalls
         /\ \A c \in DOMAIN calls : calls[c] \in Call
<1>1. calls \in Seq(Call) /\ Len(calls) <= MaxCalls
  BY DEF WellTyped
<1> QED
  BY <1>1

LEMMA CountsAre ==
  ASSUME WellTyped
  PROVE  /\ server \in Stock /\ server.ver \in Nat /\ owed \in Nat
         /\ others \in Nat /\ others <= MaxOthers
<1>1. server \in Stock /\ others \in 0 .. MaxOthers /\ owed \in Nat
  BY DEF WellTyped
<1> QED
  BY <1>1, StockIs, BoundsAreNat

\* Versions count the calls applied, so that there is room while one is not.
LEMMA AppliedFinite ==
  ASSUME WellTyped
  PROVE  /\ IsFiniteSet(Applied) /\ Cardinality(Applied) \in Nat
         /\ Cardinality(Applied) <= MaxCalls
         /\ \A c \in DOMAIN calls : c \notin Applied => Cardinality(Applied) < MaxCalls
<1> DEFINE n == Len(calls)
<1>1. n \in Nat /\ DOMAIN calls = 1 .. n /\ n <= MaxCalls
  BY CallsAre
<1>2. IsFiniteSet(1 .. n) /\ Cardinality(1 .. n) = n
  <2> HIDE DEF n
  <2> QED
    BY <1>1, FS_Interval
<1>3. Applied \in SUBSET (1 .. n)
  BY <1>1 DEF Applied
<1> HIDE DEF n
<1>4. IsFiniteSet(Applied) /\ Cardinality(Applied) <= n /\ Cardinality(Applied) \in Nat
  BY <1>2, <1>3, FS_Subset, FS_CardinalityType
<1>5. ASSUME NEW c \in 1 .. n, c \notin Applied PROVE Cardinality(Applied) < MaxCalls
  <2>1. Cardinality(Applied \cup {c}) = Cardinality(Applied) + 1
    BY <1>4, <1>5, FS_AddElement
  <2>2. Applied \cup {c} \in SUBSET (1 .. n)
    BY <1>3
  <2>3. Cardinality(Applied \cup {c}) <= n
    BY <1>2, <2>2, FS_Subset
  <2> QED
    BY <1>1, <1>4, <2>1, <2>3, BoundsAreNat
<1> QED
  BY <1>1, <1>4, <1>5, BoundsAreNat

LEMMA ThereIsRoom ==
  ASSUME WellTyped, StockFits
  PROVE  /\ others < MaxOthers => Room(server)
         /\ \A c \in DOMAIN calls : c \notin Applied => Room(server)
<1>1. server \in Stock /\ Small(server) /\ server.ver = Cardinality(Applied) + others
      /\ others \in 0 .. MaxOthers
  BY DEF WellTyped, StockFits
<1> QED
  BY <1>1, AppliedFinite, BoundsAreNat DEF Room

-----------------------------------------------------------------------------
(* The query.                                                               *)

LEMMA QueryIs ==
  ASSUME IsQuery(q, Stock)
  PROVE  /\ q = [data |-> q.data, phase |-> q.phase, snap |-> q.snap, failed |-> q.failed]
         /\ q.data \in Stock \cup {NoData} /\ q.snap \in Stock \cup {NoData}
         /\ q.phase \in {"idle", "asked", "read"} /\ q.failed \in BOOLEAN
  BY DEF IsQuery

\* A fetch, joined, begun or begun anew, keeps the list.
LEMMA FetchIs ==
  ASSUME IsQuery(q, Stock)
  PROVE  /\ IsQuery(Fetch(q), Stock) /\ Fetch(q).data = q.data /\ Fetching(Fetch(q))
         /\ Fetch(q).phase = "read" => q.phase = "read" /\ Fetch(q).snap = q.snap
  BY DEF IsQuery, Fetch, Fetching

LEMMA RefetchIs ==
  ASSUME IsQuery(q, Stock)
  PROVE  /\ IsQuery(Refetch(q), Stock) /\ Refetch(q).data = q.data /\ Fetching(Refetch(q))
         /\ Refetch(q).phase = "read" =>
              q.data = NoData /\ q.phase = "read" /\ Refetch(q).snap = q.snap
<1>1. CASE q.data = NoData
  BY <1>1, FetchIs DEF Refetch
<1>2. CASE q.data # NoData
  BY <1>2 DEF Refetch, IsQuery, Fetching
<1> QED
  BY <1>1, <1>2

\* A screen that fetches owes what it owed, and so does one that is left.
LEMMA FetchFits ==
  ASSUME ScreenInv, q' \in {q, Fetch(q), Refetch(q)}, owed' = owed,
         away' \in {away, TRUE} \/ Fetching(q'),
         server'.ver \in Nat, server.ver <= server'.ver
  PROVE  IsQuery(q', Stock) /\ ListFits'
<1>1. IsQuery(q, Stock) /\ owed \in Nat /\ server.ver \in Nat /\ ListFits
  BY StockIs DEF ScreenInv, WellTyped
<1>2. owed' <= server'.ver
  BY <1>1 DEF ListFits
<1>3. CASE q' = q
  BY <1>1, <1>2, <1>3 DEF ListFits, Shown, Fetching
<1>4. CASE q' = Fetch(q)
  BY <1>1, <1>2, <1>4, FetchIs DEF ListFits
<1>5. CASE q' = Refetch(q)
  BY <1>1, <1>2, <1>5, RefetchIs DEF ListFits
<1> QED
  BY <1>3, <1>4, <1>5

\* A screen that is told of a write it will not miss fetches anew, or has not fetched
\* yet, or asks when it is opened again.
LEMMA ToldFits ==
  ASSUME ScreenInv, UNCHANGED <<server, away>>, q' = MarkStale(q, ~away),
         owed' \in Nat, owed' <= server.ver, ~Missed(owed')
  PROVE  IsQuery(q', Stock) /\ ListFits'
<1>1. IsQuery(q, Stock) /\ away \in BOOLEAN
  BY DEF ScreenInv, WellTyped
<1>2. q.phase = "read" => q.snap # NoData /\ q.snap.ver \in Nat
  <2>1. ASSUME q.phase = "read" PROVE q.snap \in Stock
    BY <1>1, <2>1, QueryIs DEF ScreenInv, ListFits
  <2> QED
    BY <2>1, StockIs, NoDataAssumption
<1>3. CASE away
  <2>1. q' = q /\ ~Shown'
    BY <1>3 DEF MarkStale, Shown
  <2>2. q.phase = "read" => q.snap.ver >= owed'
    BY <1>2, <1>3 DEF Missed
  <2> QED
    BY <1>1, <1>2, <2>1, <2>2 DEF ListFits
<1>4. CASE ~away
  <2>1. q' = Refetch(q)
    BY <1>4 DEF MarkStale
  <2>2. q.phase = "read" /\ q.data = NoData => q.snap.ver >= owed'
    BY <1>2 DEF Missed
  <2> QED
    BY <1>1, <1>2, <2>1, <2>2, RefetchIs DEF ListFits
<1> QED
  BY <1>1, <1>3, <1>4

\* What was read is the stock, and so has all that is owed.
LEMMA ReadFits ==
  ASSUME ScreenInv, ReadList
  PROVE  IsQuery(q', Stock) /\ ListFits'
<1>1. IsQuery(q, Stock) /\ server \in Stock /\ ListFits /\ server # NoData
  BY NoDataAssumption DEF ScreenInv, WellTyped
<1>2. q' = [q EXCEPT !.phase = "read", !.snap = server] /\ UNCHANGED <<server, owed>>
  BY DEF ReadList, ReadAs
<1>3. /\ IsQuery(q', Stock)
      /\ q'.phase = "read" /\ q'.snap = server /\ q'.data = q.data
  BY <1>1, <1>2 DEF IsQuery
<1> QED
  BY <1>1, <1>2, <1>3 DEF ListFits, Fetching

LEMMA ArrivalFits ==
  ASSUME ScreenInv, ListArrives
  PROVE  IsQuery(q', Stock) /\ ListFits'
<1>1. IsQuery(q, Stock) /\ ListFits /\ q.phase = "read"
  BY DEF ScreenInv, WellTyped, ListArrives
<1>2. UNCHANGED <<server, owed>> /\ q' = Deliver(q)
  BY DEF ListArrives
<1>3. /\ IsQuery(q', Stock)
      /\ q'.phase = "idle" /\ q'.data = q.snap /\ ~q'.failed
  BY <1>1, <1>2 DEF IsQuery, Deliver, Cancel
<1> QED
  BY <1>1, <1>2, <1>3 DEF ListFits, Fetching

LEMMA LossFits ==
  ASSUME ScreenInv, ListLost
  PROVE  IsQuery(q', Stock) /\ ListFits'
<1>1. IsQuery(q, Stock) /\ ListFits
  BY DEF ScreenInv, WellTyped
<1>2. UNCHANGED <<server, owed>> /\ q' = Fail(q)
  BY DEF ListLost
<1>3. IsQuery(q', Stock) /\ q'.phase = "idle" /\ q'.data = q.data /\ q'.failed
  BY <1>1, <1>2 DEF IsQuery, Fail, Cancel
<1> QED
  BY <1>1, <1>2, <1>3 DEF ListFits, Shown, Fetching

-----------------------------------------------------------------------------
(* The calls.                                                               *)

\* A call that is sent joins those there are, with nothing applied.
LEMMA SendIs ==
  ASSUME ScreenInv, NEW call \in Call, Send(call), CallFits(call), call.times = 0,
         UNCHANGED server
  PROVE  /\ calls' \in Seq(Call) /\ Len(calls') <= MaxCalls /\ CallsFit'
         /\ Len(calls') = Len(calls) + 1 /\ calls'[Len(calls')] = call
         /\ \A c \in DOMAIN calls : c \in DOMAIN calls' /\ calls'[c] = calls[c]
         /\ Applied' = Applied
<1> DEFINE n == Len(calls)
<1>1. calls \in Seq(Call) /\ calls' = Append(calls, call) /\ Len(calls) < MaxCalls /\ CallsFit
  BY DEF ScreenInv, WellTyped, Send
<1>2. n \in Nat /\ DOMAIN calls = 1 .. n
  BY <1>1
<1>3. calls' \in Seq(Call) /\ Len(calls') = n + 1 /\ DOMAIN calls' = 1 .. (n + 1)
  BY <1>1
<1>4. calls'[n + 1] = call /\ \A c \in 1 .. n : calls'[c] = calls[c]
  BY <1>1, <1>2
<1> HIDE DEF n
<1>5. \A c \in 1 .. (n + 1) : c \in 1 .. n \/ c = n + 1
  BY <1>2
<1>6. CallsFit'
  <2>1. \A c \in 1 .. (n + 1) : CallFits(calls'[c])
    BY <1>1, <1>2, <1>4, <1>5 DEF CallsFit
  <2> QED
    BY <1>3, <2>1 DEF CallsFit, CallFits
<1>7. Applied' = Applied
  BY <1>2, <1>3, <1>4, <1>5 DEF Applied
<1>8. Len(calls') <= MaxCalls
  BY <1>1, <1>2, <1>3, BoundsAreNat DEF n
<1> QED
  BY <1>1, <1>2, <1>3, <1>4, <1>6, <1>7, <1>8 DEF n

LEMMA ReplaceIs ==
  ASSUME ScreenInv, NEW c \in DOMAIN calls, NEW call \in Call,
         calls' = [calls EXCEPT ![c] = call]
  PROVE  /\ calls' \in Seq(Call) /\ Len(calls') = Len(calls) /\ DOMAIN calls' = DOMAIN calls
         /\ calls'[c] = call /\ \A d \in DOMAIN calls \ {c} : calls'[d] = calls[d]
<1>1. calls \in Seq(Call)
  BY DEF ScreenInv, WellTyped
<1> QED
  BY <1>1

-----------------------------------------------------------------------------
(* The forms.                                                               *)

EditorTyped(e) ==
  e = NoEditor \/ e \in [id : Ids, was : Row, name : Names, amount : Amounts, typed : SUBSET Fields]

\* A step of the forms leaves the rest as it is.
LEMMA FormStep ==
  ASSUME ScreenInv, UNCHANGED <<server, q, calls, away, others, owed>>,
         addDraft' \in Names \cup {""}, dialog' \in Ids \cup {NoRow},
         observed' \in 0 .. Len(calls), EditorTyped(editor'), EditorFits'
  PROVE  ScreenInv'
  BY DEF ScreenInv, WellTyped, EditorTyped, StockFits, Applied, CallsFit, CallFits, ListFits,
         Shown, Fetching

LEMMA FormsAre ==
  ASSUME WellTyped
  PROVE  /\ addDraft \in Names \cup {""} /\ dialog \in Ids \cup {NoRow}
         /\ observed \in 0 .. Len(calls) /\ 0 \in 0 .. Len(calls)
<1>1. 0 \in 0 .. Len(calls)
  BY CallsAre
<1> QED
  BY <1>1 DEF WellTyped

\* An open editor is told from none by its row.
LEMMA EditorIs ==
  ASSUME WellTyped
  PROVE  /\ EditorTyped(editor) /\ 0 \notin Ids
         /\ editor # NoEditor <=> editor.id \in Ids
         /\ editor # NoEditor =>
              editor \in [id : Ids, was : Row, name : Names, amount : Amounts, typed : SUBSET Fields]
<1>1. EditorTyped(editor)
  BY DEF WellTyped, EditorTyped
<1>2. 0 \notin Ids
  BY BoundsAreNat DEF Ids
<1> QED
  BY <1>1, <1>2 DEF EditorTyped, NoEditor

LEMMA TypeAddStep == ASSUME ScreenInv, NEW name \in Names, TypeAdd(name) PROVE ScreenInv'
<1>1. EditorFits' /\ EditorTyped(editor') /\ observed' \in 0 .. Len(calls)
      /\ dialog' \in Ids \cup {NoRow}
  BY DEF TypeAdd, ScreenInv, WellTyped, EditorTyped, EditorFits
<1> QED
  BY <1>1, FormStep DEF TypeAdd

LEMMA DialogStep ==
  ASSUME ScreenInv, NEW i \in Ids, OpenDialog(i) \/ CloseDialog
  PROVE  ScreenInv'
<1>1. /\ UNCHANGED <<server, q, calls, addDraft, editor, observed, away, others, owed>>
      /\ dialog' \in Ids \cup {NoRow}
  BY DEF OpenDialog, CloseDialog
<1>2. EditorFits' /\ EditorTyped(editor') /\ observed' \in 0 .. Len(calls)
      /\ addDraft' \in Names \cup {""}
  BY <1>1 DEF ScreenInv, WellTyped, EditorTyped, EditorFits, Moved
<1> QED
  BY <1>1, <1>2, FormStep

\* The panel opens on a row of the list, with the fields of that row.
LEMMA OpenEditStep == ASSUME ScreenInv, NEW i \in Ids, OpenEdit(i) PROVE ScreenInv'
<1> DEFINE row == q.data.rows[i]
<1>1. /\ UNCHANGED <<server, q, calls, addDraft, dialog, away, others, owed>> /\ observed' = 0
      /\ editor' = [id |-> i, was |-> row, name |-> row.name, amount |-> row.amount, typed |-> {}]
  BY DEF OpenEdit
<1>2. row \in Row
  <2>1. q.data \in Stock
    BY QueryIs DEF ScreenInv, WellTyped, OpenEdit, Shown
  <2>2. i \in DOMAIN q.data.rows
    BY DEF OpenEdit, ShownIds
  <2> QED
    BY <2>1, <2>2, StockIs
<1> HIDE DEF row
<1>3. EditorTyped(editor')
  BY <1>1, <1>2 DEF EditorTyped, Row
<1>4. Moved(editor') = {}
  BY <1>1 DEF Moved, Fields
<1>5. EditorFits'
  BY <1>1, <1>4 DEF EditorFits, Moved
<1>6. addDraft' \in Names \cup {""} /\ dialog' \in Ids \cup {NoRow} /\ observed' \in 0 .. Len(calls)
  BY <1>1, FormsAre DEF ScreenInv
<1> QED
  BY <1>1, <1>3, <1>5, <1>6, FormStep

LEMMA CloseEditStep ==
  ASSUME ScreenInv, UNCHANGED <<server, q, calls, observed, addDraft, dialog, away, others, owed>>,
         editor' = NoEditor
  PROVE  ScreenInv'
<1>1. EditorFits' /\ EditorTyped(editor')
  BY DEF EditorFits, EditorTyped
<1>2. addDraft' \in Names \cup {""} /\ dialog' \in Ids \cup {NoRow} /\ observed' \in 0 .. Len(calls)
  BY DEF ScreenInv, WellTyped
<1> QED
  BY <1>1, <1>2, FormStep

\* A field that is typed into is a typed field.
LEMMA TypeStep ==
  ASSUME ScreenInv, NEW f \in Fields, NEW value,
         f = "name" => value \in Names, f = "amount" => value \in Amounts, Type(f, value)
  PROVE  ScreenInv'
<1>1. /\ UNCHANGED <<server, q, calls, observed, addDraft, dialog, away, others, owed>>
      /\ editor' = [editor EXCEPT ![f] = value, !.typed = @ \cup {f}]
      /\ editor # NoEditor
  BY DEF Type
<1>2. /\ editor \in [id : Ids, was : Row, name : Names, amount : Amounts, typed : SUBSET Fields]
      /\ EditorFits
  BY <1>1, EditorIs DEF ScreenInv
<1>3. CASE f = "name"
  <2>1. editor' = [editor EXCEPT !.name = value, !.typed = editor.typed \cup {"name"}]
    BY <1>1, <1>2, <1>3
  <2>2. /\ EditorTyped(editor') /\ editor'.id = editor.id /\ editor'.was = editor.was
        /\ editor'.amount = editor.amount /\ editor'.typed = editor.typed \cup {"name"}
    BY <1>2, <1>3, <2>1 DEF EditorTyped, Fields
  <2>3. Moved(editor') \subseteq editor'.typed
    BY <1>1, <1>2, <2>2 DEF EditorFits, Moved, Fields
  <2>4. EditorFits'
    BY <1>1, <1>2, <2>2, <2>3 DEF EditorFits, Moved
  <2> QED
    BY <1>1, <2>2, <2>4, FormsAre, FormStep DEF ScreenInv
<1>4. CASE f = "amount"
  <2>1. editor' = [editor EXCEPT !.amount = value, !.typed = editor.typed \cup {"amount"}]
    BY <1>1, <1>2, <1>4
  <2>2. /\ EditorTyped(editor') /\ editor'.id = editor.id /\ editor'.was = editor.was
        /\ editor'.name = editor.name /\ editor'.typed = editor.typed \cup {"amount"}
    BY <1>2, <1>4, <2>1 DEF EditorTyped, Fields
  <2>3. Moved(editor') \subseteq editor'.typed
    BY <1>1, <1>2, <2>2 DEF EditorFits, Moved, Fields
  <2>4. EditorFits'
    BY <1>1, <1>2, <2>2, <2>3 DEF EditorFits, Moved
  <2> QED
    BY <1>1, <2>2, <2>4, FormsAre, FormStep DEF ScreenInv
<1> QED
  BY <1>3, <1>4 DEF Fields

-----------------------------------------------------------------------------
(* Clicks that send a call.                                                 *)

\* Sending leaves the list and the stock alone.
LEMMA SendStep ==
  ASSUME ScreenInv, NEW call \in Call, Send(call), CallFits(call), call.times = 0,
         UNCHANGED <<server, q, addDraft, editor, dialog, away, others, owed>>,
         \/ observed' = observed
         \/ observed' = Len(calls') /\ editor # NoEditor /\ call.id = editor.id
  PROVE  ScreenInv'
<1>1. /\ calls' \in Seq(Call) /\ Len(calls') <= MaxCalls /\ CallsFit'
      /\ Len(calls') = Len(calls) + 1 /\ calls'[Len(calls')] = call
      /\ \A c \in DOMAIN calls : c \in DOMAIN calls' /\ calls'[c] = calls[c]
      /\ Applied' = Applied
  BY SendIs
<1>2. Len(calls) \in Nat /\ DOMAIN calls = 1 .. Len(calls) /\ observed \in 0 .. Len(calls)
  BY CallsAre, FormsAre DEF ScreenInv
<1>3. observed' \in 0 .. Len(calls')
  BY <1>1, <1>2
<1>4. WellTyped'
  BY <1>1, <1>3 DEF ScreenInv, WellTyped
<1>5. EditorFits'
  <2>1. Moved(editor)' = Moved(editor)
    BY DEF Moved
  <2>2. CASE observed' = observed
    <3>1. observed # 0 => calls'[observed] = calls[observed]
      BY <1>1, <1>2
    <3> QED
      BY <2>1, <2>2, <3>1 DEF ScreenInv, EditorFits
  <2>3. CASE observed' = Len(calls') /\ editor # NoEditor /\ call.id = editor.id
    BY <1>1, <2>1, <2>3 DEF ScreenInv, EditorFits
  <2> QED
    BY <2>2, <2>3
<1>6. StockFits' /\ ListFits'
  BY <1>1 DEF ScreenInv, StockFits, ListFits, Shown, Fetching
<1> QED
  BY <1>1, <1>4, <1>5, <1>6 DEF ScreenInv

LEMMA NewCallIs ==
  ASSUME NEW kind \in Kinds
  PROVE  /\ NewCall(kind) \in Call /\ NewCall(kind).kind = kind /\ NewCall(kind).times = 0
         /\ NewCall(kind).ver = 0 /\ NewCall(kind).reply = "none"
  BY DEF NewCall, Call

LEMMA OnAddStep == ASSUME ScreenInv, OnAdd PROVE ScreenInv'
<1> DEFINE call == [NewCall("add") EXCEPT !.name = addDraft]
<1>1. addDraft \in Names /\ server.ver \in Nat
  BY FormsAre, StockIs DEF OnAdd, ScreenInv, WellTyped
<1>2. call \in Call /\ call.kind = "add" /\ call.name = addDraft /\ call.times = 0 /\ call.ver = 0
  BY <1>1, NewCallIs DEF Call, Kinds
<1>3. CallFits(call)
  BY <1>1, <1>2 DEF CallFits
<1>4. Send(call) /\ UNCHANGED <<server, q, addDraft, editor, dialog, away, others, owed>> /\ observed' = observed
  BY DEF OnAdd, formVars
<1> HIDE DEF call
<1> QED
  BY <1>2, <1>3, <1>4, SendStep

LEMMA ConfirmStep == ASSUME ScreenInv, Confirm PROVE ScreenInv'
<1> DEFINE call == [NewCall("delete") EXCEPT !.id = dialog]
<1>1. dialog \in Ids \cup {0} /\ server.ver \in Nat
  BY FormsAre, StockIs DEF ScreenInv, WellTyped, NoRow
<1>2. call \in Call /\ call.kind = "delete" /\ call.times = 0 /\ call.ver = 0
  BY <1>1, NewCallIs DEF Call, Kinds
<1>3. CallFits(call)
  BY <1>1, <1>2 DEF CallFits
<1>4. Send(call) /\ UNCHANGED <<server, q, addDraft, editor, dialog, away, others, owed>> /\ observed' = observed
  BY DEF Confirm, formVars
<1> HIDE DEF call
<1> QED
  BY <1>2, <1>3, <1>4, SendStep

LEMMA SubmitEditStep == ASSUME ScreenInv, SubmitEdit PROVE ScreenInv'
<1> DEFINE call == [NewCall("edit") EXCEPT !.id = editor.id, !.name = editor.name,
                                           !.fields = Moved(editor)]
<1>1. CASE Moved(editor) = {}
  BY <1>1, CloseEditStep DEF SubmitEdit
<1>2. CASE Moved(editor) # {}
  <2>1. editor.id \in Ids /\ editor.name \in Names /\ server.ver \in Nat /\ editor # NoEditor
    BY EditorIs, StockIs DEF SubmitEdit, ScreenInv, WellTyped
  <2>2. Moved(editor) \in SUBSET Fields
    BY DEF Moved
  <2> DEFINE moved == Moved(editor)
  <2> HIDE DEF moved
  <2>3. /\ call \in Call /\ call.kind = "edit" /\ call.times = 0 /\ call.ver = 0
        /\ call.id = editor.id /\ call.name = editor.name
    BY <2>1, <2>2, NewCallIs DEF Call, Kinds
  <2>4. CallFits(call)
    BY <2>1, <2>3 DEF CallFits
  <2>5. /\ Send(call) /\ observed' = Len(calls')
        /\ UNCHANGED <<server, q, addDraft, editor, dialog, away, others, owed>>
    BY <1>2 DEF SubmitEdit
  <2> HIDE DEF call
  <2> QED
    BY <2>1, <2>3, <2>4, <2>5, SendStep
<1> QED
  BY <1>1, <1>2

-----------------------------------------------------------------------------
(* The server, and what is lost.                                            *)

\* A call that changes keeps its row, and the panel shows what it showed.
LEMMA ChangedStep ==
  ASSUME ScreenInv, NEW c \in DOMAIN calls, NEW call \in Call,
         calls' = [calls EXCEPT ![c] = call], call.id = calls[c].id, CallFits(call)',
         StockFits', server' \in Stock, server.ver <= server'.ver,
         UNCHANGED <<q, formVars, others, owed>>
  PROVE  ScreenInv'
<1>1. /\ calls' \in Seq(Call) /\ Len(calls') = Len(calls) /\ DOMAIN calls' = DOMAIN calls
      /\ calls'[c] = call /\ \A d \in DOMAIN calls \ {c} : calls'[d] = calls[d]
  BY ReplaceIs
<1>2. WellTyped'
  BY <1>1 DEF ScreenInv, WellTyped, formVars
<1>3. DOMAIN calls = 1 .. Len(calls) /\ observed \in 0 .. Len(calls) /\ Len(calls) \in Nat
      /\ server.ver \in Nat /\ server'.ver \in Nat
  BY CallsAre, FormsAre, StockIs DEF ScreenInv, WellTyped
<1>4. CallsFit'
  <2>1. \A d \in DOMAIN calls \ {c} : CallFits(calls[d])'
    <3> TAKE d \in DOMAIN calls \ {c}
    <3>1. calls[d] \in Call /\ CallFits(calls[d]) /\ calls[d].ver \in Nat
      BY CallsAre DEF ScreenInv, CallsFit, Call
    <3> QED
      BY <1>1, <1>3, <3>1 DEF CallFits
  <2> QED
    BY <1>1, <2>1 DEF CallsFit
<1>5. EditorFits'
  <2>1. observed # 0 => calls'[observed].id = calls[observed].id
    BY <1>1, <1>3
  <2>2. Moved(editor)' = Moved(editor) /\ editor' = editor /\ observed' = observed
    BY DEF Moved, formVars
  <2> QED
    BY <2>1, <2>2 DEF ScreenInv, EditorFits
<1>6. ListFits'
  BY <1>3, FetchFits DEF ScreenInv, WellTyped, formVars
<1> QED
  BY <1>2, <1>4, <1>5, <1>6 DEF ScreenInv

\* A reply alone applies nothing.
LEMMA ReplyStep ==
  ASSUME ScreenInv, NEW c \in DOMAIN calls, NEW call \in Call,
         calls' = [calls EXCEPT ![c] = call], UNCHANGED <<server, others>>,
         call.id = calls[c].id, call.times = calls[c].times, call.ver = calls[c].ver,
         call.kind = calls[c].kind, call.name = calls[c].name,
         call.reply = "none" => calls[c].reply = "none"
  PROVE  CallFits(call)' /\ StockFits'
<1>1. /\ DOMAIN calls' = DOMAIN calls
      /\ calls'[c] = call /\ \A d \in DOMAIN calls \ {c} : calls'[d] = calls[d]
  BY ReplaceIs
<1>2. CallFits(calls[c])
  BY DEF ScreenInv, CallsFit
<1>3. Applied' = Applied
  BY <1>1 DEF Applied
<1> QED
  BY <1>2, <1>3 DEF CallFits, ScreenInv, StockFits

LEMMA RepliedStep ==
  ASSUME ScreenInv, NEW c \in DOMAIN calls,
         NEW r \in {"ok", "collision", "conflict", "invalid", "failed"},
         calls' = [calls EXCEPT ![c] = [calls[c] EXCEPT !.reply = r]],
         UNCHANGED <<server, q, formVars, others, owed>>
  PROVE  ScreenInv'
<1> DEFINE call == [calls[c] EXCEPT !.reply = r]
<1>1. /\ call \in Call /\ call.reply = r /\ call.id = calls[c].id /\ call.times = calls[c].times
      /\ call.ver = calls[c].ver /\ call.kind = calls[c].kind /\ call.name = calls[c].name
  <2>1. calls[c] \in Call
    BY CallsAre DEF ScreenInv
  <2> QED
    BY <2>1 DEF Call
<1>2. calls' = [calls EXCEPT ![c] = call]
  OBVIOUS
<1>3. PICK new : new = call
  OBVIOUS
<1> HIDE DEF call
<1>4. CallFits(new)' /\ StockFits'
  BY <1>1, <1>2, <1>3, ReplyStep
<1>5. server' \in Stock /\ server.ver <= server'.ver
  <2>1. server \in Stock /\ server.ver \in Nat
    BY StockIs DEF ScreenInv, WellTyped
  <2> QED
    BY <2>1
<1> QED
  BY <1>1, <1>2, <1>3, <1>4, <1>5, ChangedStep

LEMMA ServeStep == ASSUME ScreenInv, NEW c \in DOMAIN calls, Serve(c) PROVE ScreenInv'
<1>1. /\ calls[c] \in Call /\ CallFits(calls[c]) /\ calls[c].reply = "none" /\ calls[c].times = 0
      /\ UNCHANGED <<q, formVars, others, owed>>
  BY CallsAre DEF ScreenInv, CallsFit, CallFits, Serve
<1>2. CASE Refused(calls[c]) # "no"
  <2>1. Refused(calls[c]) \in {"failed", "collision"}
    BY <1>2 DEF Refused
  <2>2. calls' = [calls EXCEPT ![c] = [calls[c] EXCEPT !.reply = Refused(calls[c])]]
        /\ UNCHANGED server
    BY <1>2 DEF Serve
  <2>3. PICK r \in {"failed", "collision"} : r = Refused(calls[c])
    BY <2>1
  <2> QED
    BY <1>1, <2>2, <2>3, RepliedStep
<1>3. CASE Refused(calls[c]) = "no"
  <2>1. server' = EffectOf(calls[c])
    BY <1>3 DEF Serve
  <2>2. c \notin Applied
    BY <1>1 DEF Applied
  <2>3. Room(server)
    BY <2>2, ThereIsRoom DEF ScreenInv
  <2>4. server' \in Stock /\ Small(server)' /\ server'.ver = server.ver + 1
    BY <1>1, <1>3, <2>1, <2>3, EffectStays DEF Small
  <2>5. server.ver \in Nat /\ server'.ver \in Nat
    BY <2>4, StockIs DEF ScreenInv, WellTyped
  <2>6. PICK call : call = [calls[c] EXCEPT !.reply = "ok", !.ver = server'.ver, !.times = 1]
    OBVIOUS
  <2>7. /\ call \in Call /\ call.id = calls[c].id /\ call.kind = calls[c].kind
        /\ call.name = calls[c].name /\ call.times = 1 /\ call.ver = server'.ver /\ call.reply = "ok"
    BY <1>1, <2>5, <2>6 DEF Call
  <2>8. calls' = [calls EXCEPT ![c] = call]
    <3>1. calls' = [calls EXCEPT ![c].reply = "ok", ![c].ver = server'.ver, ![c].times = @ + 1]
      BY <1>3 DEF Serve
    <3>2. calls[c].times + 1 = 1
      BY <1>1
    <3> QED
      BY <1>1, <2>6, <3>1, <3>2
  <2>9. CallFits(call)'
    BY <1>1, <2>5, <2>7 DEF CallFits
  <2>10. StockFits'
    <3>1. /\ DOMAIN calls' = DOMAIN calls
          /\ calls'[c] = call /\ \A d \in DOMAIN calls \ {c} : calls'[d] = calls[d]
      BY <2>7, <2>8, ReplaceIs
    <3>2. Applied' = Applied \cup {c}
      BY <2>7, <3>1 DEF Applied
    <3>3. IsFiniteSet(Applied) /\ Cardinality(Applied) \in Nat
      BY AppliedFinite DEF ScreenInv
    <3>4. Cardinality(Applied') = Cardinality(Applied) + 1
      BY <2>2, <3>2, <3>3, FS_AddElement
    <3>5. server.ver = Cardinality(Applied) + others /\ others \in Nat /\ others' = others
      BY <1>1, CountsAre DEF ScreenInv, StockFits
    <3>6. server'.ver = Cardinality(Applied') + others'
      BY <2>4, <3>3, <3>4, <3>5
    <3> QED
      BY <2>4, <3>6 DEF StockFits
  <2>11. server.ver <= server'.ver
    BY <2>4, <2>5
  <2> QED
    BY <1>1, <2>4, <2>7, <2>8, <2>9, <2>10, <2>11, ChangedStep
<1> QED
  BY <1>2, <1>3

LEMMA BusyStep == ASSUME ScreenInv, NEW c \in DOMAIN calls, Busy(c) PROVE ScreenInv'
<1>1. PICK r \in {"conflict", "invalid"} : calls' = [calls EXCEPT ![c].reply = r]
  BY DEF Busy
<1>2. calls' = [calls EXCEPT ![c] = [calls[c] EXCEPT !.reply = r]]
      /\ UNCHANGED <<server, q, formVars, others, owed>>
  BY <1>1 DEF Busy
<1> QED
  BY <1>2, RepliedStep

\* What is lost is not sent again.
LEMMA LoseStep == ASSUME ScreenInv, NEW c \in DOMAIN calls, Lose(c) PROVE ScreenInv'
<1>1. calls' = [calls EXCEPT ![c] = [calls[c] EXCEPT !.reply = "failed"]]
      /\ UNCHANGED <<server, q, formVars, others, owed>>
  BY DEF Lose, RetryMutation
<1> QED
  BY <1>1, RepliedStep

\* Others change the stock; what was shown, sent and owed is as it was.
LEMMA OthersStep == ASSUME ScreenInv, OthersAct PROVE ScreenInv'
<1>1. others < MaxOthers /\ others' = others + 1 /\ UNCHANGED <<q, calls, formVars, owed>>
  BY DEF OthersAct
<1>2. Room(server)
  BY <1>1, ThereIsRoom DEF ScreenInv
<1>3. server' \in Stock /\ Small(server') /\ server'.ver = server.ver + 1
  <2>1. CASE \E name \in Names : server' = Upsert(server, name)
    BY <1>2, <2>1, UpsertStays
  <2>2. CASE \E i \in DOMAIN server.rows : server' = Without(server, i)
    BY <1>2, <2>2, WithoutStays
  <2>3. CASE \E i \in DOMAIN server.rows : server' = Patched(server, i, {"amount"}, "", Theirs)
    <3>1. PICK i \in DOMAIN server.rows : server' = Patched(server, i, {"amount"}, "", Theirs)
      BY <2>3
    <3>2. "name" \notin {"amount"} /\ Theirs \in {Typed, Theirs}
      OBVIOUS
    <3> QED
      BY <1>2, <3>1, <3>2, PatchedStays
  <2> QED
    BY <2>1, <2>2, <2>3 DEF OthersAct
<1>4. server.ver \in Nat /\ others \in Nat /\ others' \in 0 .. MaxOthers
  BY <1>1, CountsAre, BoundsAreNat DEF ScreenInv
<1>5. WellTyped'
  BY <1>1, <1>3, <1>4 DEF ScreenInv, WellTyped, formVars
<1>6. StockFits'
  <2>1. Applied' = Applied /\ Cardinality(Applied) \in Nat
    BY <1>1, AppliedFinite DEF Applied, ScreenInv
  <2>2. server.ver = Cardinality(Applied) + others
    BY DEF ScreenInv, StockFits
  <2>3. server'.ver = Cardinality(Applied') + others'
    BY <1>1, <1>3, <1>4, <2>1, <2>2
  <2> QED
    BY <1>3, <2>3 DEF StockFits, Small
<1>7. CallsFit'
  <2> SUFFICES ASSUME NEW d \in DOMAIN calls PROVE CallFits(calls[d])'
    BY <1>1 DEF CallsFit
  <2>1. CallFits(calls[d]) /\ calls[d].ver \in Nat
    BY CallsAre DEF ScreenInv, CallsFit, Call
  <2> QED
    BY <1>1, <1>3, <1>4, <2>1 DEF CallFits
<1>8. EditorFits'
  BY <1>1 DEF ScreenInv, EditorFits, Moved, formVars
<1>9. ListFits'
  BY <1>1, <1>3, <1>4, FetchFits DEF formVars
<1> QED
  BY <1>5, <1>6, <1>7, <1>8, <1>9 DEF ScreenInv

-----------------------------------------------------------------------------
(* Answers and the list.                                                    *)

\* Whatever the kind of the call: a success marks the list stale, and a form is as it
\* was or gone.
LEMMA AnswerForms ==
  ASSUME ScreenInv, NEW c \in DOMAIN calls, Answer(c)
  PROVE  /\ q' \in {q, Refetch(q)} /\ (calls[c].reply = "ok" => q' = MarkStale(q, ~away))
         /\ addDraft' \in {addDraft, ""} /\ dialog' \in {dialog, NoRow}
         /\ editor' \in {editor, NoEditor} /\ observed' = observed
<1> DEFINE call == calls[c]
<1>1. CASE AddAnswered(call)
  BY <1>1 DEF AddAnswered, MarkStale
<1>2. CASE EditAnswered(call)
  BY <1>2 DEF EditAnswered, MarkStale
<1>3. CASE DeleteAnswered(call)
  BY <1>3 DEF DeleteAnswered, MarkStale
<1>4. CASE CookAnswered(call)
  BY <1>4 DEF CookAnswered, MarkStale
<1> QED
  BY <1>1, <1>2, <1>3, <1>4 DEF Answer

LEMMA AnswerStep == ASSUME ScreenInv, NEW c \in DOMAIN calls, Answer(c) PROVE ScreenInv'
<1>1. /\ q' \in {q, Refetch(q)} /\ (calls[c].reply = "ok" => q' = MarkStale(q, ~away))
      /\ addDraft' \in {addDraft, ""} /\ dialog' \in {dialog, NoRow}
      /\ editor' \in {editor, NoEditor} /\ observed' = observed
  BY AnswerForms
<1>2. calls[c] \in Call /\ CallFits(calls[c]) /\ UNCHANGED <<server, away, others>>
  BY CallsAre DEF ScreenInv, CallsFit, Answer
<1>3. PICK call : call = [calls[c] EXCEPT !.settled = TRUE]
  OBVIOUS
<1>4. calls' = [calls EXCEPT ![c] = call]
  BY <1>3 DEF Answer
<1>5. /\ call \in Call /\ call.id = calls[c].id /\ call.times = calls[c].times
      /\ call.ver = calls[c].ver /\ call.kind = calls[c].kind /\ call.name = calls[c].name
      /\ call.reply = calls[c].reply
  BY <1>2, <1>3 DEF Call
<1>6. CallFits(call)' /\ StockFits'
  BY <1>2, <1>4, <1>5, ReplyStep
<1>7. /\ calls' \in Seq(Call) /\ Len(calls') = Len(calls) /\ DOMAIN calls' = DOMAIN calls
      /\ calls'[c] = call /\ \A d \in DOMAIN calls \ {c} : calls'[d] = calls[d]
  BY <1>4, <1>5, ReplaceIs
<1>8. IsQuery(q', Stock) /\ owed' \in Nat /\ ListFits'
  <2>1. owed' = IF calls[c].reply = "ok" /\ calls[c].ver > owed /\ ~Missed(calls[c].ver)
                THEN calls[c].ver ELSE owed
    BY DEF Answer
  <2>2. calls[c].ver \in Nat /\ calls[c].ver <= server.ver
    BY <1>2 DEF Call, CallFits
  <2>3. owed \in Nat /\ server.ver \in Nat
    BY CountsAre DEF ScreenInv
  <2>4. CASE calls[c].reply = "ok" /\ calls[c].ver > owed /\ ~Missed(calls[c].ver)
    BY <1>1, <1>2, <2>1, <2>2, <2>4, ToldFits
  <2>5. CASE owed' = owed
    <3>1. server'.ver \in Nat /\ server.ver <= server'.ver
      BY <1>2, <2>3
    <3>2. q' \in {q, Fetch(q), Refetch(q)}
      BY <1>1
    <3> QED
      BY <1>2, <2>3, <2>5, <3>1, <3>2, FetchFits
  <2> QED
    BY <2>1, <2>4, <2>5
<1>9. CallsFit'
  <2>1. \A d \in DOMAIN calls \ {c} : CallFits(calls[d])'
    BY <1>2, <1>7 DEF ScreenInv, CallsFit, CallFits
  <2> QED
    BY <1>6, <1>7, <2>1 DEF CallsFit
<1>10. EditorFits'
  <2>1. observed # 0 => calls'[observed].id = calls[observed].id
    <3>1. observed \in 0 .. Len(calls) /\ DOMAIN calls = 1 .. Len(calls) /\ Len(calls) \in Nat
      BY CallsAre, FormsAre DEF ScreenInv
    <3> QED
      BY <1>5, <1>7, <3>1
  <2>2. CASE editor' = NoEditor
    BY <2>2 DEF EditorFits
  <2>3. CASE editor' = editor
    <3>1. Moved(editor)' = Moved(editor)
      BY <2>3 DEF Moved
    <3> QED
      BY <1>1, <2>1, <2>3, <3>1 DEF ScreenInv, EditorFits
  <2> QED
    BY <1>1, <2>2, <2>3
<1>11. WellTyped'
  <2>1. addDraft' \in Names \cup {""} /\ dialog' \in Ids \cup {NoRow} /\ observed' \in 0 .. Len(calls')
    BY <1>1, <1>7, FormsAre DEF ScreenInv
  <2>2. EditorTyped(editor')
    BY <1>1, EditorIs DEF ScreenInv, EditorTyped
  <2> QED
    BY <1>2, <1>7, <1>8, <2>1, <2>2 DEF ScreenInv, WellTyped, EditorTyped
<1> QED
  BY <1>6, <1>8, <1>9, <1>10, <1>11 DEF ScreenInv

LEMMA ListStep ==
  ASSUME ScreenInv, ReadList \/ ListArrives \/ ListLost \/ Retry
  PROVE  ScreenInv'
<1>1. UNCHANGED <<server, calls, formVars, others, owed>>
  BY DEF ReadList, ListArrives, ListLost, Retry
<1>2. IsQuery(q', Stock) /\ ListFits'
  <2>1. CASE Retry
    <3>1. server.ver \in Nat /\ server.ver <= server.ver
      BY CountsAre DEF ScreenInv
    <3> QED
      BY <1>1, <2>1, <3>1, FetchFits DEF Retry, formVars
  <2> QED
    BY <2>1, ReadFits, ArrivalFits, LossFits
<1>3. WellTyped'
  BY <1>1, <1>2 DEF ScreenInv, WellTyped, formVars
<1>4. StockFits' /\ CallsFit' /\ EditorFits'
  BY <1>1 DEF ScreenInv, StockFits, Applied, CallsFit, CallFits, EditorFits, Moved, formVars
<1> QED
  BY <1>2, <1>3, <1>4 DEF ScreenInv

\* Leaving the screen takes the forms; its calls go on, and change nothing but this.
LEMMA LeaveCalls ==
  ASSUME ScreenInv, Leave
  PROVE  /\ calls' \in Seq(Call) /\ DOMAIN calls' = DOMAIN calls /\ Len(calls') = Len(calls)
         /\ \A c \in DOMAIN calls :
              /\ calls'[c].times = calls[c].times /\ calls'[c].ver = calls[c].ver
              /\ calls'[c].reply = calls[c].reply /\ calls'[c].kind = calls[c].kind
              /\ calls'[c].name = calls[c].name
<1>1. calls' = [c \in DOMAIN calls |-> [calls[c] EXCEPT !.here = FALSE]]
  BY DEF Leave
<1>2. Len(calls) \in Nat /\ DOMAIN calls = 1 .. Len(calls) /\ \A c \in DOMAIN calls : calls[c] \in Call
  BY CallsAre DEF ScreenInv
<1>3. \A c \in DOMAIN calls :
        /\ calls'[c] \in Call /\ calls'[c].times = calls[c].times /\ calls'[c].ver = calls[c].ver
        /\ calls'[c].reply = calls[c].reply /\ calls'[c].kind = calls[c].kind
        /\ calls'[c].name = calls[c].name
  BY <1>1, <1>2 DEF Call
<1>4. calls' \in [1 .. Len(calls) -> Call]
  BY <1>1, <1>2, <1>3
<1> QED
  BY <1>2, <1>3, <1>4

LEMMA LeaveStep == ASSUME ScreenInv, Leave PROVE ScreenInv'
<1>1. /\ addDraft' = "" /\ editor' = NoEditor /\ observed' = 0 /\ dialog' = NoRow
      /\ q' = q /\ away' = TRUE /\ UNCHANGED <<server, others, owed>>
  BY DEF Leave
<1>2. Len(calls) \in Nat /\ Len(calls) <= MaxCalls
  BY CallsAre DEF ScreenInv
<1>3. \A c \in DOMAIN calls :
        /\ calls'[c].times = calls[c].times /\ calls'[c].ver = calls[c].ver
        /\ calls'[c].reply = calls[c].reply /\ calls'[c].kind = calls[c].kind
        /\ calls'[c].name = calls[c].name
  BY LeaveCalls
<1>4. calls' \in Seq(Call) /\ DOMAIN calls' = DOMAIN calls /\ Len(calls') = Len(calls)
  BY LeaveCalls
<1>5. IsQuery(q', Stock) /\ ListFits'
  <2>1. server.ver \in Nat /\ server.ver <= server.ver
    BY CountsAre DEF ScreenInv
  <2> QED
    BY <1>1, <2>1, FetchFits
<1>6. WellTyped'
  <2>1. 0 \in 0 .. Len(calls')
    BY <1>2, <1>4
  <2> QED
    BY <1>1, <1>2, <1>4, <1>5, <2>1 DEF ScreenInv, WellTyped
<1>7. StockFits'
  <2>1. Applied' = Applied
    BY <1>3, <1>4 DEF Applied
  <2> QED
    BY <1>1, <2>1 DEF ScreenInv, StockFits
<1>8. CallsFit'
  <2> SUFFICES ASSUME NEW c \in DOMAIN calls PROVE CallFits(calls[c])'
    BY <1>4 DEF CallsFit
  <2>1. CallFits(calls[c])
    BY DEF ScreenInv, CallsFit
  <2> QED
    BY <1>1, <1>3, <2>1 DEF CallFits
<1>9. EditorFits'
  BY <1>1 DEF EditorFits
<1> QED
  BY <1>5, <1>6, <1>7, <1>8, <1>9 DEF ScreenInv

\* A visit asks for the stock, and finds the forms empty.
LEMMA VisitStep == ASSUME ScreenInv, Visit PROVE ScreenInv'
<1>1. /\ q' = Fetch(q) /\ away' = FALSE
      /\ UNCHANGED <<server, calls, addDraft, editor, observed, dialog, others, owed>>
  BY DEF Visit
<1>2. IsQuery(q', Stock) /\ ListFits'
  <2>1. server.ver \in Nat /\ server.ver <= server.ver
    BY CountsAre DEF ScreenInv
  <2>2. Fetching(q')
    BY <1>1, FetchIs DEF ScreenInv, WellTyped
  <2> QED
    BY <1>1, <2>1, <2>2, FetchFits
<1>3. WellTyped'
  BY <1>1, <1>2 DEF ScreenInv, WellTyped
<1>4. StockFits' /\ CallsFit' /\ EditorFits'
  BY <1>1 DEF ScreenInv, StockFits, Applied, CallsFit, CallFits, EditorFits, Moved
<1> QED
  BY <1>2, <1>3, <1>4 DEF ScreenInv

-----------------------------------------------------------------------------
(* The theorems.                                                            *)

LEMMA ScreenInit == Init => ScreenInv
<1> SUFFICES ASSUME Init PROVE ScreenInv
  OBVIOUS
<1>1. PICK n \in Names : server = [ver |-> 0, rows |-> [i \in {1} |-> [name |-> n, amount |-> 0]]]
  <2>1. (CHOOSE n \in Names : TRUE) \in Names
    BY NamesAssumption
  <2> QED
    BY <2>1 DEF Init
<1>2. server \in Stock /\ Small(server) /\ server.ver = 0
  <2>1. server.ver = 0 /\ server = [ver |-> server.ver, rows |-> server.rows]
        /\ server.rows = [i \in {1} |-> server.rows[i]]
        /\ server.rows[1] = [name |-> n, amount |-> 0]
    BY <1>1
  <2>2. {1} \subseteq 1 .. (1 + server.ver)
    BY <2>1
  <2>3. \A i \in {1} : server.rows[i] \in [name : Names, amount : 0 .. (Theirs + server.ver)]
    BY <2>1 DEF Theirs
  <2>4. server.ver \in Nat /\ server.ver <= MaxCalls + MaxOthers
    BY <2>1, BoundsAreNat
  <2> QED
    BY <2>1, <2>2, <2>3, <2>4, StockOf
<1>3. Cooking \in Call /\ Cooking.kind = "cook" /\ Cooking.times = 0 /\ Cooking.ver = 0
  <2>1. 1 \in Ids
    BY BoundsAreNat DEF Ids
  <2> QED
    BY <2>1, NewCallIs DEF Cooking, Call, Kinds
<1>4. /\ calls \in Seq(Call) /\ Len(calls) <= MaxCalls /\ Len(calls) \in Nat
      /\ \A c \in DOMAIN calls : calls[c] = Cooking
  <2>1. CASE calls = <<>>
    <3>1. calls \in Seq(Call) /\ Len(calls) = 0 /\ DOMAIN calls = {}
      BY <2>1
    <3> QED
      BY <3>1, BoundsAreNat
  <2>2. CASE calls = <<Cooking>> /\ "cook" \in Offered
    <3>1. calls \in Seq(Call) /\ Len(calls) = 1 /\ DOMAIN calls = {1} /\ calls[1] = Cooking
      BY <1>3, <2>2
    <3> QED
      BY <2>2, <3>1, BoundsAreNat, CookAssumption
  <2> QED
    BY <2>1, <2>2 DEF Init
<1>5. observed = 0 /\ others = 0 /\ owed = 0 /\ away = FALSE
  BY DEF Init
<1>6. addDraft = "" /\ editor = NoEditor /\ dialog = NoRow
  BY DEF Init
<1>7. IsQuery(q, Stock) /\ q.phase = "asked"
  BY DEF Init, IsQuery, NewQuery, Fetch, Fetching
<1>8. others \in 0 .. MaxOthers /\ observed \in 0 .. Len(calls)
  <2>1. 0 \in 0 .. MaxOthers /\ 0 \in 0 .. Len(calls)
    BY <1>4, BoundsAreNat
  <2> QED
    BY <1>5, <2>1
<1>9. WellTyped
  BY <1>2, <1>4, <1>5, <1>6, <1>7, <1>8 DEF WellTyped
<1>10. StockFits
  <2>1. Applied = {}
    BY <1>3, <1>4 DEF Applied
  <2>2. Cardinality(Applied) = 0
    BY <2>1, FS_EmptySet
  <2> QED
    BY <1>2, <1>5, <2>2 DEF StockFits
<1>11. CallsFit
  BY <1>2, <1>3, <1>4 DEF CallsFit, CallFits
<1>12. EditorFits
  BY <1>6 DEF EditorFits
<1>13. ListFits
  <2>1. owed <= server.ver
    BY <1>2, <1>5
  <2> QED
    BY <1>7, <2>1 DEF ListFits, Fetching
<1> QED
  BY <1>9, <1>10, <1>11, <1>12, <1>13 DEF ScreenInv

LEMMA ScreenStep == ASSUME ScreenInv, [Next]_vars PROVE ScreenInv'
<1>1. ASSUME NEW name \in Names, TypeAdd(name) PROVE ScreenInv'
  BY <1>1, TypeAddStep
<1>2. ASSUME NEW name \in Names, Type("name", name) PROVE ScreenInv'
  BY <1>2, TypeStep DEF Fields
<1>3. CASE OnAdd
  BY <1>3, OnAddStep
<1>4. CASE CloseEdit
  BY <1>4, CloseEditStep DEF CloseEdit
<1>5. CASE SubmitEdit
  BY <1>5, SubmitEditStep
<1>6. CASE Type("amount", Typed)
  <2>1. Typed \in Amounts
    BY BoundsAreNat DEF Typed, Amounts, Theirs
  <2> QED
    BY <1>6, <2>1, TypeStep DEF Fields
<1>7. ASSUME NEW i \in Ids, OpenEdit(i) PROVE ScreenInv'
  BY <1>7, OpenEditStep
<1>8. ASSUME NEW i \in Ids, OpenDialog(i) PROVE ScreenInv'
  BY <1>8, DialogStep
<1>9. CASE CloseDialog
  <2>1. PICK i \in Ids : TRUE
    BY BoundsAreNat DEF Ids
  <2> QED
    BY <1>9, <2>1, DialogStep
<1>10. CASE Confirm
  BY <1>10, ConfirmStep
<1>11. ASSUME NEW c \in DOMAIN calls, Serve(c) PROVE ScreenInv'
  BY <1>11, ServeStep
<1>12. ASSUME NEW c \in DOMAIN calls, Busy(c) PROVE ScreenInv'
  BY <1>12, BusyStep
<1>13. ASSUME NEW c \in DOMAIN calls, Lose(c) PROVE ScreenInv'
  BY <1>13, LoseStep
<1>14. ASSUME NEW c \in DOMAIN calls, Answer(c) PROVE ScreenInv'
  BY <1>14, AnswerStep
<1>15. CASE ReadList \/ ListArrives \/ ListLost \/ Retry
  BY <1>15, ListStep
<1>16. CASE Leave \/ Visit
  BY <1>16, LeaveStep, VisitStep
<1>17. CASE OthersAct
  BY <1>17, OthersStep
<1>18. CASE UNCHANGED vars
  <2>1. UNCHANGED <<server, q, calls, others, owed, addDraft, editor, observed, dialog, away>>
    BY <1>18 DEF vars, formVars
  <2>2. EditorFits' /\ EditorTyped(editor')
    BY <2>1, EditorIs DEF ScreenInv, EditorFits, Moved, EditorTyped
  <2> QED
    BY <2>1, <2>2, FormsAre, FormStep DEF ScreenInv
<1> QED
  BY <1>1, <1>2, <1>3, <1>4, <1>5, <1>6, <1>7, <1>8, <1>9, <1>10, <1>11, <1>12, <1>13, <1>14,
     <1>15, <1>16, <1>17, <1>18 DEF Next

\* The invariant is one of every reachable state, whether the screen is open, left, or
\* left and opened again.
THEOREM ScreenSafe == Spec => []ScreenInv
<1>1. Init => ScreenInv
  BY ScreenInit
<1>2. ScreenInv /\ [Next]_vars => ScreenInv'
  BY ScreenStep
<1> QED
  BY <1>1, <1>2, PTL DEF Spec

\* Every variable of the screen keeps its type: no id and no amount is ever beyond
\* those the model's bounds name, however often ids are given out again.
THEOREM ScreenTyped == Spec => []TypeOK
<1>1. ScreenInv => TypeOK
  <2> SUFFICES ASSUME ScreenInv PROVE TypeOK
    OBVIOUS
  <2>1. \A s \in Stock : IsStock(s)
    BY StockIs DEF IsStock
  <2>2. q.data \in Stock \cup {NoData} /\ q.snap \in Stock \cup {NoData}
    BY QueryIs DEF ScreenInv, WellTyped
  <2> QED
    BY <2>1, <2>2 DEF ScreenInv, WellTyped, TypeOK
<1> QED
  BY <1>1, ScreenSafe, PTL

\* queryClient.ts, `mutations: { retry: false }`: no click on Add, Save, Delete or Cook
\* is applied twice, whatever is lost and whenever the screen is left.
THEOREM AppliesOnce == Spec => []AppliedOnce
<1>1. ScreenInv => AppliedOnce
  BY DEF ScreenInv, CallsFit, CallFits, AppliedOnce
<1> QED
  BY <1>1, ScreenSafe, PTL

\* Inventory.tsx, the onSuccess handlers that invalidate ["inventory"]: an open screen
\* at rest shows every write the member was told of here or while away, in whatever
\* order the answers came, unless the write was Missed: told to nobody who observed the
\* list, or before the first list came, with an older GET under way.
THEOREM RestIsTold == Spec => []RestShowsTold
<1>1. ScreenInv => RestShowsTold
  BY DEF ScreenInv, ListFits, RestShowsTold, AtRest, Shown
<1> QED
  BY <1>1, ScreenSafe, PTL

\* Inventory.tsx, openEdit resetting the mutation: a collision or a refusal that the
\* panel shows is of the row the panel edits.
THEOREM ErrorStaysOwn == Spec => []ErrorIsOwn
<1>1. ScreenInv => ErrorIsOwn
  BY DEF ScreenInv, EditorFits, ErrorIsOwn, PanelError
<1> QED
  BY <1>1, ScreenSafe, PTL

\* Inventory.tsx, diffEditDraft against the row the panel was opened on: a PATCH
\* carries typed fields alone, whatever others changed meanwhile.
THEOREM TypedAlone == Spec => OnlyTypedSent
<1>1. ScreenInv /\ [Next]_vars =>
        [Len(calls') > Len(calls) /\ calls'[Len(calls')].kind = "edit" =>
           calls'[Len(calls')].fields \subseteq editor.typed]_vars
  <2> SUFFICES ASSUME ScreenInv, Next, Len(calls') > Len(calls), calls'[Len(calls')].kind = "edit"
               PROVE  calls'[Len(calls')].fields \subseteq editor.typed
    OBVIOUS
  <2>1. Len(calls) \in Nat /\ calls \in Seq(Call)
    BY CallsAre DEF ScreenInv, WellTyped
  <2>2. \A call : Send(call) => calls'[Len(calls')] = call
    BY <2>1 DEF Send
  <2>3. CASE SubmitEdit
    <3>1. Moved(editor) # {}
      BY <2>1, <2>3 DEF SubmitEdit
    <3>2. Send([NewCall("edit") EXCEPT !.id = editor.id, !.name = editor.name,
                                       !.fields = Moved(editor)])
      BY <2>3, <3>1 DEF SubmitEdit
    <3>3. calls'[Len(calls')].fields = Moved(editor)
      BY <2>2, <3>2 DEF NewCall
    <3> QED
      BY <2>3, <3>3 DEF SubmitEdit, ScreenInv, EditorFits
  <2>4. CASE OnAdd \/ Confirm
    BY <2>2, <2>4 DEF OnAdd, Confirm, NewCall
  <2>5. CASE ~(SubmitEdit \/ OnAdd \/ Confirm)
    <3>1. ASSUME NEW c \in DOMAIN calls, Serve(c) \/ Busy(c) \/ Lose(c) \/ Answer(c)
          PROVE  Len(calls') = Len(calls)
      BY <2>1, <3>1 DEF Serve, Busy, Lose, Answer
    <3>2. ASSUME Leave PROVE Len(calls') = Len(calls)
      BY <3>2, LeaveCalls
    <3>3. Len(calls') = Len(calls)
      <4>1. calls' = calls => Len(calls') = Len(calls)
        OBVIOUS
      <4>2. (\E name \in Names : TypeAdd(name) \/ Type("name", name)) \/ CloseEdit \/ Type("amount", Typed)
              \/ (\E i \in Ids : OpenEdit(i) \/ OpenDialog(i)) \/ CloseDialog => calls' = calls
        BY DEF TypeAdd, Type, CloseEdit, OpenEdit, OpenDialog, CloseDialog
      <4>3. ReadList \/ ListArrives \/ ListLost \/ Retry \/ Visit \/ OthersAct => calls' = calls
        BY DEF ReadList, ListArrives, ListLost, Retry, Visit, OthersAct
      <4> QED
        BY <2>5, <3>1, <3>2, <4>1, <4>2, <4>3 DEF Next
    <3> QED
      BY <2>1, <3>3
  <2> QED
    BY <2>3, <2>4, <2>5
<1> QED
  BY <1>1, ScreenSafe, PTL DEF OnlyTypedSent, Spec
=============================================================================

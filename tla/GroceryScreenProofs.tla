------------------------- MODULE GroceryScreenProofs --------------------------
(* The screen of a grocery list, for any lines, any number of calls and any    *)
(* changes by others: its state is of its types (ScreenTyped), and at rest it  *)
(* shows what the server has and was told (RestTrue).                          *)
EXTENDS GroceryScreen, TLAPS

\* The list is a state the server was in: an older one, or the present one.
Clean(list) == list.ver <= server.ver /\ (list.ver = server.ver => list = server)

StateTyped ==
  /\ server \in List /\ IsQuery(q, List) /\ calls \in Seq(Call)
  /\ owed \in Nat /\ undone \in BOOLEAN

FormsTyped ==
  /\ editor = NoEditor \/ editor \in [line : Lines, draft : Draft]
  /\ saving \in 0 .. Len(calls) /\ addDraft \in BOOLEAN /\ away \in BOOLEAN
  /\ dialogs \subseteq {"submit", "archive"}

\* A version is told only with an "ok"; what a tick and an edit will need is there.
CallFits(call) ==
  /\ call.ver <= server.ver
  /\ call.ver # 0 => call.reply = "ok"
  /\ call.reply # "done" /\ call.kind \in {"tick", "edit"} => call.line \in Lines
  /\ call.reply # "done" /\ call.kind = "tick" => call.previous \in List

CallsFit == \A c \in DOMAIN calls : CallFits(calls[c])

\* A tick whose callbacks have not run, of this visit or of an earlier one.
Ticking == \E c \in DOMAIN calls : calls[c].kind = "tick" /\ calls[c].reply # "done"

\* An answer under way, once read, is of the server and holds what is owed.  So does the
\* list at rest on an open screen, unless a tick waits that cancelled the fetch that would
\* have brought it, or a failed tick has put an old list back.  Of the list at rest while
\* the member is away nothing is said: the next visit asks for it.
QueryFits ==
  /\ calls # <<>> => q.data # NoData
  /\ owed <= server.ver
  /\ q.phase = "read" => q.snap \in List /\ q.snap.ver >= owed /\ Clean(q.snap)
  /\ Shown /\ ~Fetching(q) /\ ~undone /\ ~Ticking
       => q.data.ver >= owed /\ Clean(q.data)

ScreenInv == StateTyped /\ FormsTyped /\ CallsFit /\ QueryFits

-----------------------------------------------------------------------------
(* Lists, and what a change makes of them.                                  *)

LEMMA ListIs ==
  ASSUME NEW list \in List
  PROVE  /\ list.ver \in Nat /\ list.added \in Nat /\ list.lines \in [Lines -> Line]
         /\ list.status \in {"active", "archived", "gone"}
         /\ \A l \in Lines : list.lines[l] \in Line
  BY DEF List

\* A list with other lines.
LEMMA LinesChanged ==
  ASSUME NEW list \in List, NEW lines \in [Lines -> Line], NEW t,
         t = [list EXCEPT !.lines = lines]
  PROVE  t \in List /\ t.ver = list.ver
  BY DEF List

LEMMA LineChanged ==
  ASSUME NEW list \in List, NEW l \in Lines, NEW line \in Line, NEW t,
         t = [list EXCEPT !.lines[l] = line]
  PROVE  t \in List /\ t.ver = list.ver
<1>1. PICK lines : lines = [list.lines EXCEPT ![l] = line]
  OBVIOUS
<1>2. lines \in [Lines -> Line]
  BY <1>1, ListIs
<1>3. t = [list EXCEPT !.lines = lines]
  BY <1>1
<1> QED
  BY <1>2, <1>3, LinesChanged

LEMMA TickedIs ==
  ASSUME NEW list \in List, NEW l \in Lines, NEW v \in BOOLEAN
  PROVE  Ticked(list, l, v) \in List /\ Ticked(list, l, v).ver = list.ver
<1>1. PICK line : line = [list.lines[l] EXCEPT !.checked = v]
  OBVIOUS
<1>2. line \in Line
  BY <1>1, ListIs DEF Line
<1>3. Ticked(list, l, v) = [list EXCEPT !.lines[l] = line]
  BY <1>1 DEF Ticked
<1> QED
  BY <1>2, <1>3, LineChanged

LEMMA FlippedIs ==
  ASSUME NEW list \in List, NEW l \in Lines
  PROVE  Flipped(list, l) \in List
<1>1. PICK line : line = [list.lines[l] EXCEPT !.checked = ~list.lines[l].checked]
  OBVIOUS
<1>2. line \in Line
  BY <1>1, ListIs DEF Line
<1>3. Flipped(list, l) = [list EXCEPT !.lines[l] = line]
  BY <1>1 DEF Flipped
<1> QED
  BY <1>2, <1>3, LineChanged

LEMMA EditedIs ==
  ASSUME NEW list \in List, NEW l \in Lines, NEW patch \in Patch
  PROVE  Edited(list, l, patch) \in List /\ Edited(list, l, patch).ver = list.ver
<1>1. PICK item : item = IF patch.item = Same THEN list.lines[l].item ELSE patch.item
  OBVIOUS
<1>2. PICK amount : amount = IF patch.amount = Same THEN list.lines[l].amount ELSE patch.amount
  OBVIOUS
<1>3. patch.item \in Texts \cup {Same} /\ patch.amount \in Texts \cup {Same}
  BY DEF Patch, Fields
<1>4. item \in Texts /\ amount \in Texts
  BY <1>1, <1>2, <1>3, ListIs DEF Line
<1>5. PICK line : line = [list.lines[l] EXCEPT !.item = item]
  OBVIOUS
<1>6. line \in Line
  BY <1>4, <1>5, ListIs DEF Line
<1>7. PICK t : t = [list EXCEPT !.lines[l] = line]
  OBVIOUS
<1>8. /\ t \in List /\ t.ver = list.ver
      /\ t.lines[l] = line /\ line.amount = list.lines[l].amount
  BY <1>5, <1>6, <1>7, LineChanged, ListIs DEF Line, List
<1>9. PICK new : new = [t.lines[l] EXCEPT !.amount = amount]
  OBVIOUS
<1>10. new \in Line
  BY <1>4, <1>6, <1>8, <1>9 DEF Line
<1>11. Edited(list, l, patch) = [t EXCEPT !.lines[l] = new]
  BY <1>1, <1>2, <1>5, <1>7, <1>8, <1>9 DEF Edited
<1> QED
  BY <1>8, <1>10, <1>11, LineChanged

LEMMA BoughtIs ==
  ASSUME NEW list \in List
  PROVE  Bought(list) \in List /\ Bought(list).ver = list.ver
<1>1. PICK lines : lines = [l \in Lines |-> [list.lines[l] EXCEPT
                              !.frozen = list.lines[l].frozen \/ list.lines[l].checked]]
  OBVIOUS
<1>2. lines \in [Lines -> Line]
  <2>1. \A l \in Lines : lines[l] \in Line
    BY <1>1, ListIs DEF Line
  <2> QED
    BY <1>1, <2>1
<1>3. Bought(list) = [list EXCEPT !.lines = lines]
  BY <1>1 DEF Bought
<1> QED
  BY <1>2, <1>3, LinesChanged

LEMMA BumpIs ==
  ASSUME NEW list \in List
  PROVE  Bump(list) \in List /\ Bump(list).ver = list.ver + 1
  BY DEF Bump, List

LEMMA StatusChanged ==
  ASSUME NEW list \in List, NEW status \in {"archived", "gone"}
  PROVE  LET t == [list EXCEPT !.status = status] IN t \in List /\ t.ver = list.ver
  BY DEF List

LEMMA LineAdded ==
  ASSUME NEW list \in List
  PROVE  LET t == [list EXCEPT !.added = @ + 1] IN t \in List /\ t.ver = list.ver
  BY DEF List

\* What a call does to a list is one change.
LEMMA EffectIs ==
  ASSUME server \in List, NEW call \in Call, CallFits(call), call.reply # "done"
  PROVE  EffectOf(call) \in List /\ EffectOf(call).ver = server.ver + 1
<1>1. call.kind \in Kinds /\ call.checked \in BOOLEAN /\ call.body \in Patch
  BY DEF Call
<1>2. call.kind \in {"tick", "edit"} => call.line \in Lines
  BY DEF CallFits
<1>3. PICK t : t = CASE call.kind = "tick"    -> Ticked(server, call.line, call.checked)
                     [] call.kind = "edit"    -> Edited(server, call.line, call.body)
                     [] call.kind = "add"     -> [server EXCEPT !.added = @ + 1]
                     [] call.kind = "submit"  -> Bought(server)
                     [] call.kind = "archive" -> [server EXCEPT !.status = "archived"]
  OBVIOUS
<1>4. EffectOf(call) = Bump(t)
  BY <1>3 DEF EffectOf
<1>5. t \in List /\ t.ver = server.ver
  <2>1. CASE call.kind = "tick"
    BY <1>1, <1>2, <1>3, <2>1, TickedIs
  <2>2. CASE call.kind = "edit"
    BY <1>1, <1>2, <1>3, <2>2, EditedIs
  <2>3. CASE call.kind = "add"
    BY <1>3, <2>3, LineAdded
  <2>4. CASE call.kind = "submit"
    BY <1>3, <2>4, BoughtIs
  <2>5. CASE call.kind = "archive"
    BY <1>3, <2>5, StatusChanged
  <2> QED
    BY <1>1, <2>1, <2>2, <2>3, <2>4, <2>5 DEF Kinds
<1> QED
  BY <1>4, <1>5, BumpIs

\* So is what somebody else does.
LEMMA OthersChangeIs ==
  ASSUME NEW list \in List, NEW t \in OthersChange(list)
  PROVE  t \in List /\ t.ver = list.ver
<1>1. CASE t \in {Ticked(list, l, ~list.lines[l].checked) :
                    l \in {m \in Lines : "tick" \in Others /\ ~list.lines[m].frozen}}
  <2>1. PICK l \in Lines : t = Ticked(list, l, ~list.lines[l].checked)
    BY <1>1
  <2>2. PICK v \in BOOLEAN : v = ~list.lines[l].checked
    OBVIOUS
  <2> QED
    BY <2>1, <2>2, TickedIs
<1>2. CASE t \in {Edited(list, l, [item |-> Same, amount |-> "theirs"]) :
                    l \in {m \in Lines : "edit" \in Others /\ ~list.lines[m].frozen}}
  <2>1. PICK l \in Lines : t = Edited(list, l, [item |-> Same, amount |-> "theirs"])
    BY <1>2
  <2>2. [item |-> Same, amount |-> "theirs"] \in Patch
    BY DEF Patch, Fields, Texts
  <2> QED
    BY <2>1, <2>2, EditedIs
<1>3. CASE t = Bought(list)
  BY <1>3, BoughtIs
<1>4. CASE t = [list EXCEPT !.status = "archived"]
  BY <1>4, StatusChanged
<1> QED
  BY <1>1, <1>2, <1>3, <1>4 DEF OthersChange

-----------------------------------------------------------------------------
(* Calls.                                                                   *)

LEMMA CallsAre ==
  ASSUME StateTyped
  PROVE  /\ Len(calls) \in Nat /\ DOMAIN calls = 1 .. Len(calls)
         /\ \A c \in DOMAIN calls : calls[c] \in Call /\ calls # <<>>
<1>1. calls \in Seq(Call)
  BY DEF StateTyped
<1> QED
  BY <1>1

LEMMA CallIs ==
  ASSUME NEW call \in Call
  PROVE  /\ call.kind \in Kinds /\ call.ver \in Nat /\ call.line \in Lines \cup {"none"}
         /\ call.reply \in {"none", "ok", "inactive", "conflict", "failed", "done"}
  BY DEF Call

LEMMA NewCallIs ==
  ASSUME NEW kind \in Kinds, NEW line \in Lines \cup {"none"}
  PROVE  /\ NewCall(kind, line) \in Call /\ NewCall(kind, line).kind = kind
         /\ NewCall(kind, line).line = line /\ NewCall(kind, line).ver = 0
         /\ NewCall(kind, line).reply = "none"
<1>1. [f \in Fields |-> Same] \in Patch
  BY DEF Patch
<1> QED
  BY <1>1 DEF NewCall, Call

\* A call that is sent needs the list on the screen.
LEMMA Sent ==
  ASSUME ScreenInv, NEW call \in Call, Send(call), UNCHANGED server, call.ver = 0,
         call.reply = "none", call.kind \in {"tick", "edit"} => call.line \in Lines,
         call.kind = "tick" => call.previous \in List
  PROVE  /\ calls' \in Seq(Call) /\ CallsFit' /\ Len(calls') = Len(calls) + 1
         /\ Len(calls) \in Nat
         /\ Ticking => Ticking'
         /\ call.kind = "tick" => Ticking'
<1>1. StateTyped /\ CallsFit
  BY DEF ScreenInv
<1>2. PICK n \in Nat : n = Len(calls) /\ DOMAIN calls = 1 .. n
  BY <1>1, CallsAre
<1>3. calls' = Append(calls, call)
  BY DEF Send
<1>4. /\ calls' \in Seq(Call) /\ Len(calls') = n + 1 /\ DOMAIN calls' = 1 .. (n + 1)
      /\ calls'[n + 1] = call /\ \A c \in 1 .. n : calls'[c] = calls[c]
  BY <1>1, <1>2, <1>3 DEF StateTyped
<1>5. CallFits(call)
  BY <1>1, ListIs DEF CallFits, StateTyped
<1>6. ASSUME NEW c \in 1 .. (n + 1) PROVE CallFits(calls'[c])
  <2>1. CASE c = n + 1
    BY <1>4, <1>5, <2>1
  <2>2. CASE c \in 1 .. n
    BY <1>1, <1>2, <1>4, <2>2 DEF CallsFit
  <2> QED
    BY <1>2, <2>1, <2>2
<1>7. CallsFit'
  BY <1>4, <1>6 DEF CallsFit, CallFits
<1>8. Ticking => Ticking'
  <2> SUFFICES ASSUME NEW c \in 1 .. n, calls[c].kind = "tick", calls[c].reply # "done"
               PROVE  Ticking'
    BY <1>2 DEF Ticking
  <2>1. c \in DOMAIN calls' /\ calls'[c] = calls[c]
    BY <1>2, <1>4
  <2> QED
    BY <2>1 DEF Ticking
<1>9. call.kind = "tick" => Ticking'
  <2>1. n + 1 \in DOMAIN calls'
    BY <1>2, <1>4
  <2> QED
    BY <1>4, <2>1 DEF Ticking
<1> QED
  BY <1>2, <1>4, <1>7, <1>8, <1>9

\* A call whose record is replaced.
LEMMA Replaced ==
  ASSUME StateTyped, CallsFit, NEW c \in DOMAIN calls, NEW call \in Call,
         calls' = [calls EXCEPT ![c] = call],
         server' \in List, server.ver <= server'.ver, CallFits(call)'
  PROVE  /\ calls' \in Seq(Call) /\ CallsFit' /\ Len(calls') = Len(calls)
         /\ DOMAIN calls' = DOMAIN calls /\ calls'[c] = call
         /\ \A d \in DOMAIN calls \ {c} : calls'[d] = calls[d]
<1>1. PICK n \in Nat : n = Len(calls) /\ DOMAIN calls = 1 .. n
  BY CallsAre
<1>2. calls \in Seq(Call)
  BY DEF StateTyped
<1>3. /\ DOMAIN calls' = 1 .. n /\ calls'[c] = call
      /\ \A d \in DOMAIN calls \ {c} : calls'[d] = calls[d]
  BY <1>1
<1>4. \A d \in 1 .. n : calls'[d] \in Call
  BY <1>1, <1>3, CallsAre
<1>5. calls' \in Seq(Call) /\ Len(calls') = n
  BY <1>1, <1>2, <1>3, <1>4
<1>6. ASSUME NEW d \in 1 .. n PROVE CallFits(calls[d])'
  <2>1. CASE d = c
    BY <1>3, <2>1 DEF CallFits
  <2>2. CASE d # c
    <3>1. CallFits(calls[d]) /\ calls[d].ver \in Nat /\ calls'[d] = calls[d]
      BY <1>1, <1>3, <2>2, CallsAre, CallIs DEF CallsFit
    <3>2. server.ver \in Nat /\ server'.ver \in Nat
      BY ListIs DEF StateTyped
    <3>3. calls'[d].ver <= server'.ver
      BY <3>1, <3>2 DEF CallFits
    <3> QED
      BY <3>1, <3>3 DEF CallFits
  <2> QED
    BY <2>1, <2>2
<1>7. CallsFit'
  BY <1>3, <1>6 DEF CallsFit
<1> QED
  BY <1>1, <1>3, <1>5, <1>7

\* A call that gets its reply stays a call that waits for its callbacks.
LEMMA Replied ==
  ASSUME StateTyped, CallsFit, NEW c \in DOMAIN calls, calls[c].reply # "done",
         NEW reply \in {"ok", "inactive", "conflict", "failed"}, NEW ver \in Nat,
         Reply(c, reply, ver), server' \in List, server.ver <= server'.ver,
         ver <= server'.ver, ver # 0 => reply = "ok"
  PROVE  /\ calls' \in Seq(Call) /\ CallsFit' /\ Len(calls') = Len(calls)
         /\ Ticking => Ticking'
<1>1. calls[c] \in Call /\ CallFits(calls[c])
  BY CallsAre DEF CallsFit
<1>2. PICK call : call = [calls[c] EXCEPT !.reply = reply, !.ver = ver]
  OBVIOUS
<1>3. calls' = [calls EXCEPT ![c] = call]
  BY <1>2 DEF Reply
<1>4. /\ call \in Call /\ call.kind = calls[c].kind /\ call.line = calls[c].line
      /\ call.previous = calls[c].previous /\ call.reply = reply /\ call.ver = ver
  BY <1>1, <1>2 DEF Call
<1>5. CallFits(call)'
  BY <1>1, <1>4 DEF CallFits
<1>6. /\ calls' \in Seq(Call) /\ CallsFit' /\ Len(calls') = Len(calls)
      /\ DOMAIN calls' = DOMAIN calls /\ calls'[c] = call
      /\ \A d \in DOMAIN calls \ {c} : calls'[d] = calls[d]
  BY <1>3, <1>4, <1>5, Replaced
<1>7. Ticking => Ticking'
  <2> SUFFICES ASSUME NEW d \in DOMAIN calls, calls[d].kind = "tick", calls[d].reply # "done"
               PROVE  Ticking'
    BY DEF Ticking
  <2>1. d \in DOMAIN calls' /\ calls'[d].kind = "tick" /\ calls'[d].reply # "done"
    BY <1>4, <1>6
  <2> QED
    BY <2>1 DEF Ticking
<1> QED
  BY <1>6, <1>7

-----------------------------------------------------------------------------
(* The query.                                                               *)

LEMMA QueryIs ==
  ASSUME NEW e, IsQuery(e, List)
  PROVE  /\ e.data \in List \cup {NoData} /\ e.snap \in List \cup {NoData}
         /\ e.phase \in {"idle", "asked", "read"} /\ e.failed \in BOOLEAN
  BY DEF IsQuery

LEMMA FetchIs ==
  ASSUME NEW e, IsQuery(e, List)
  PROVE  /\ IsQuery(Fetch(e), List) /\ Fetch(e).data = e.data /\ Fetch(e).phase # "idle"
         /\ Fetch(e).phase = "read" => e.phase = "read" /\ Fetch(e).snap = e.snap
  BY DEF IsQuery, Fetch, Fetching

LEMMA RefetchIs ==
  ASSUME NEW e, IsQuery(e, List)
  PROVE  /\ IsQuery(Refetch(e), List) /\ Refetch(e).data = e.data /\ Refetch(e).phase # "idle"
         /\ Refetch(e).phase = "read" => /\ e.data = NoData /\ e.phase = "read"
                                         /\ Refetch(e).snap = e.snap
<1>1. CASE e.data = NoData
  BY <1>1, FetchIs DEF Refetch
<1>2. CASE e.data # NoData
  BY <1>2 DEF Refetch, IsQuery
<1> QED
  BY <1>1, <1>2

LEMMA CancelIs ==
  ASSUME NEW e, IsQuery(e, List)
  PROVE  /\ IsQuery(Cancel(e), List) /\ Cancel(e).data = e.data /\ Cancel(e).phase = "idle"
  BY DEF IsQuery, Cancel

LEMMA PrimeIs ==
  ASSUME NEW e, IsQuery(e, List), NEW data \in List
  PROVE  /\ IsQuery(Prime(e, data), List) /\ Prime(e, data).data = data
         /\ Prime(e, data).phase = e.phase /\ Prime(e, data).snap = e.snap
  BY DEF IsQuery, Prime

LEMMA FailIs ==
  ASSUME NEW e, IsQuery(e, List)
  PROVE  /\ IsQuery(Fail(e), List) /\ Fail(e).data = e.data /\ Fail(e).phase = "idle"
         /\ Fail(e).failed
  BY DEF IsQuery, Fail, Cancel

\* A list that is clean stays so when the server's changes.
LEMMA CleanStays ==
  ASSUME StateTyped, server' \in List, server' = server \/ server.ver < server'.ver,
         NEW list \in List, Clean(list)
  PROVE  Clean(list)'
<1>1. list.ver \in Nat /\ server.ver \in Nat /\ server'.ver \in Nat
  BY ListIs DEF StateTyped
<1> QED
  BY <1>1 DEF Clean

LEMMA QueryKept ==
  ASSUME StateTyped, QueryFits, UNCHANGED <<q, away, owed, undone>>,
         server' \in List, server' = server \/ server.ver < server'.ver,
         Ticking => Ticking', calls' # <<>> => q.data # NoData
  PROVE  QueryFits'
<1>1. server.ver \in Nat /\ server'.ver \in Nat /\ owed \in Nat /\ IsQuery(q, List)
  BY ListIs DEF StateTyped
<1>2. owed' <= server'.ver
  BY <1>1 DEF QueryFits
<1>3. q.phase = "read" => q.snap \in List /\ q.snap.ver >= owed /\ Clean(q.snap)'
  BY CleanStays DEF QueryFits
<1>4. (Shown /\ ~Fetching(q) /\ ~undone /\ ~Ticking')
        => q.data.ver >= owed /\ Clean(q.data)'
  <2> SUFFICES ASSUME Shown, ~Fetching(q), ~undone, ~Ticking'
               PROVE  q.data.ver >= owed /\ Clean(q.data)'
    OBVIOUS
  <2>1. q.data.ver >= owed /\ Clean(q.data)
    BY DEF QueryFits
  <2>2. q.data \in List
    BY <1>1, QueryIs DEF Shown
  <2> QED
    BY <2>1, <2>2, CleanStays
<1> QED
  BY <1>2, <1>3, <1>4 DEF QueryFits, Shown, Clean

\* A query that is fetched, or is on its way to what is owed.
LEMMA QueryAsked ==
  ASSUME StateTyped, QueryFits, UNCHANGED server, owed' \in Nat, owed' <= server.ver,
         IsQuery(q', List), q'.data = q.data, q'.phase # "idle",
         q'.phase = "read" => q.phase = "read" /\ q'.snap = q.snap /\ owed' = owed,
         calls' # <<>> => q.data # NoData
  PROVE  QueryFits'
<1>1. q'.phase = "read" => q'.snap \in List /\ q'.snap.ver >= owed' /\ Clean(q'.snap)
  BY DEF QueryFits
<1> QED
  BY <1>1 DEF QueryFits, Fetching, Clean

-----------------------------------------------------------------------------
(* The member's steps.                                                      *)

LEMMA FormStep ==
  ASSUME ScreenInv, UNCHANGED <<server, q, calls, away, owed, undone>>, FormsTyped'
  PROVE  ScreenInv'
<1>1. StateTyped /\ CallsFit /\ QueryFits
  BY DEF ScreenInv
<1>2. StateTyped'
  BY <1>1 DEF StateTyped
<1>3. CallsFit'
  BY <1>1 DEF CallsFit, CallFits
<1>4. Ticking' <=> Ticking
  BY DEF Ticking
<1>5. server' \in List /\ (calls' # <<>> => q.data # NoData)
  BY <1>1 DEF StateTyped, QueryFits
<1>6. QueryFits'
  BY <1>1, <1>4, <1>5, QueryKept
<1> QED
  BY <1>2, <1>3, <1>6 DEF ScreenInv

\* The lines of the list that is shown.
LEMMA ShownIs ==
  ASSUME ScreenInv, Shown
  PROVE  q.data \in List /\ q.data # NoData /\ \A l \in Lines : q.data.lines[l] \in Line
<1>1. q.data \in List
  BY QueryIs DEF ScreenInv, StateTyped, Shown
<1> QED
  BY <1>1, ListIs DEF Shown

LEMMA EditorIs ==
  ASSUME ScreenInv, editor # NoEditor
  PROVE  editor \in [line : Lines, draft : Draft] /\ editor.line \in Lines /\ editor.draft \in Draft
  BY DEF ScreenInv, FormsTyped

LEMMA SavingIs ==
  ASSUME ScreenInv
  PROVE  Len(calls) \in Nat /\ 0 \in 0 .. Len(calls) /\ saving \in 0 .. Len(calls)
<1>1. Len(calls) \in Nat
  BY CallsAre DEF ScreenInv
<1> QED
  BY <1>1 DEF ScreenInv, FormsTyped

\* A call that is sent while the screen is as it was, but for its Save button.
LEMMA SendStep ==
  ASSUME ScreenInv, Shown, NEW call \in Call, Send(call),
         UNCHANGED <<server, q, owed, undone, editor, addDraft, dialogs, away>>,
         saving' \in {saving, Len(calls')},
         call.ver = 0, call.reply = "none", call.kind # "tick",
         call.kind = "edit" => call.line \in Lines
  PROVE  ScreenInv'
<1>1. StateTyped /\ FormsTyped /\ CallsFit /\ QueryFits
  BY DEF ScreenInv
<1>2. /\ calls' \in Seq(Call) /\ CallsFit' /\ Len(calls') = Len(calls) + 1
      /\ Len(calls) \in Nat /\ Ticking => Ticking'
  BY Sent
<1>3. StateTyped'
  BY <1>1, <1>2 DEF StateTyped
<1>4. FormsTyped'
  <2>1. saving' \in 0 .. Len(calls')
    BY <1>1, <1>2 DEF FormsTyped
  <2> QED
    BY <1>1, <2>1 DEF FormsTyped
<1>5. server' \in List /\ q.data # NoData
  BY <1>1 DEF StateTyped, Shown
<1>6. QueryFits'
  BY <1>1, <1>2, <1>5, QueryKept
<1> QED
  BY <1>2, <1>3, <1>4, <1>6 DEF ScreenInv

\* A tick is pending from its click on, whatever becomes of the fetch it cancels.
LEMMA ToggleStep ==
  ASSUME NoData \notin List, ScreenInv, NEW l \in Lines, Toggle(l) PROVE ScreenInv'
<1>1. StateTyped /\ FormsTyped /\ CallsFit /\ QueryFits
  BY DEF ScreenInv
<1>2. /\ Shown /\ q' = Prime(Cancel(q), Flipped(q.data, l))
      /\ Send([NewCall("tick", l) EXCEPT !.checked = ~q.data.lines[l].checked,
                                         !.previous = q.data])
      /\ UNCHANGED <<server, editor, saving, addDraft, dialogs, away, owed, undone>>
  BY DEF Toggle, Active, serverVars, formVars, histVars
<1>3. PICK data \in List : data = q.data
  BY <1>2, ShownIs
<1>4. PICK v \in BOOLEAN : v = ~data.lines[l].checked
  OBVIOUS
<1>5. PICK call : call = [NewCall("tick", l) EXCEPT !.checked = v, !.previous = data]
  OBVIOUS
<1>6. "tick" \in Kinds
  BY DEF Kinds
<1>7. /\ call \in Call /\ call.kind = "tick" /\ call.line = l /\ call.previous = data
      /\ call.ver = 0 /\ call.reply = "none"
  BY <1>5, <1>6, NewCallIs DEF NewCall, Call
<1>8. Send(call)
  BY <1>2, <1>3, <1>4, <1>5
<1>9. /\ calls' \in Seq(Call) /\ CallsFit' /\ Len(calls') = Len(calls) + 1
      /\ Len(calls) \in Nat /\ Ticking'
  BY <1>2, <1>7, <1>8, Sent
<1>10. PICK e : e = Cancel(q)
  OBVIOUS
<1>11. IsQuery(e, List) /\ e.phase = "idle"
  BY <1>1, <1>10, CancelIs DEF StateTyped
<1>12. PICK list \in List : list = Flipped(q.data, l)
  BY <1>3, FlippedIs
<1>13. q' = Prime(e, list)
  BY <1>2, <1>10, <1>12
<1>14. /\ IsQuery(Prime(e, list), List) /\ Prime(e, list).data = list
       /\ Prime(e, list).phase = "idle"
  BY <1>11, PrimeIs
<1>15. IsQuery(q', List) /\ q'.data \in List /\ q'.phase = "idle"
  BY <1>13, <1>14
<1>16. q'.data # NoData
  BY <1>15
<1>17. StateTyped'
  BY <1>1, <1>2, <1>9, <1>15 DEF StateTyped
<1>18. FormsTyped'
  BY <1>1, <1>2, <1>9 DEF FormsTyped
<1>19. QueryFits'
  BY <1>1, <1>2, <1>9, <1>15, <1>16 DEF QueryFits
<1> QED
  BY <1>9, <1>17, <1>18, <1>19 DEF ScreenInv

LEMMA StartEditStep ==
  ASSUME ScreenInv, NEW l \in Lines, StartEdit(l) PROVE ScreenInv'
<1>1. /\ Shown /\ editor' = [line |-> l, draft |-> [f \in Fields |-> q.data.lines[l][f]]]
      /\ saving' = 0 /\ UNCHANGED <<q, calls, addDraft, dialogs, away, server, owed, undone>>
  BY DEF StartEdit, Active, serverVars, histVars
<1>2. PICK line \in Line : line = q.data.lines[l]
  BY <1>1, ShownIs
<1>3. [f \in Fields |-> line[f]] \in Draft
  <2>1. line["item"] \in Texts /\ line["amount"] \in Texts
    BY DEF Line
  <2> QED
    BY <2>1 DEF Draft, Fields
<1>4. editor' \in [line : Lines, draft : Draft]
  BY <1>1, <1>2, <1>3
<1>5. FormsTyped'
  BY <1>1, <1>4, SavingIs DEF ScreenInv, FormsTyped
<1> QED
  BY <1>1, <1>5, FormStep

LEMMA CancelEditStep == ASSUME ScreenInv, CancelEdit PROVE ScreenInv'
<1>1. /\ editor' = NoEditor /\ saving' = 0
      /\ UNCHANGED <<q, calls, addDraft, dialogs, away, server, owed, undone>>
  BY DEF CancelEdit, serverVars, histVars
<1>2. FormsTyped'
  BY <1>1, SavingIs DEF ScreenInv, FormsTyped
<1> QED
  BY <1>1, <1>2, FormStep

LEMMA TypeStep ==
  ASSUME ScreenInv, NEW f \in Fields, NEW text \in Typed[f], Type(f, text) PROVE ScreenInv'
<1>1. /\ editor # NoEditor /\ editor' = [editor EXCEPT !.draft[f] = text]
      /\ UNCHANGED <<q, calls, saving, addDraft, dialogs, away, server, owed, undone>>
  BY DEF Type, serverVars, histVars
<1>2. text \in Texts \cup {"bad"}
  BY DEF Typed, Texts
<1>3. PICK draft : draft = [editor.draft EXCEPT ![f] = text]
  OBVIOUS
<1>4. draft \in Draft
  BY <1>1, <1>2, <1>3, EditorIs DEF Draft
<1>5. editor' = [editor EXCEPT !.draft = draft]
  BY <1>1, <1>3
<1>6. editor' \in [line : Lines, draft : Draft]
  BY <1>1, <1>4, <1>5, EditorIs
<1>7. FormsTyped'
  BY <1>1, <1>6 DEF ScreenInv, FormsTyped
<1> QED
  BY <1>1, <1>7, FormStep

LEMMA SaveStep == ASSUME ScreenInv, Save PROVE ScreenInv'
<1>1. /\ Shown /\ editor # NoEditor /\ saving = 0 /\ Valid(editor.draft)
      /\ UNCHANGED <<q, addDraft, dialogs, away, server, owed, undone>>
  BY DEF Save, serverVars, histVars
<1>2. PICK draft \in Draft : draft = editor.draft
  BY <1>1, EditorIs
<1>3. PICK l \in Lines : l = editor.line
  BY <1>1, EditorIs
<1>4. PICK patch : patch = PatchOf(q.data.lines[l], draft)
  OBVIOUS
<1>5. patch \in Patch
  <2>1. \A f \in Fields : draft[f] \in Texts
    BY <1>1, <1>2 DEF Valid, Draft
  <2> QED
    BY <1>4, <2>1 DEF PatchOf, Patch
<1>6. CASE editor' = NoEditor /\ UNCHANGED <<calls, saving>>
  <2>1. FormsTyped'
    BY <1>1, <1>6 DEF ScreenInv, FormsTyped
  <2> QED
    BY <1>1, <1>6, <2>1, FormStep
<1>7. CASE /\ Send([NewCall("edit", l) EXCEPT !.body = patch])
           /\ saving' = Len(calls') /\ UNCHANGED editor
  <2>1. PICK call : call = [NewCall("edit", l) EXCEPT !.body = patch]
    OBVIOUS
  <2>2. "edit" \in Kinds
    BY DEF Kinds
  <2>3. /\ call \in Call /\ call.kind = "edit" /\ call.line = l
        /\ call.ver = 0 /\ call.reply = "none"
    BY <1>5, <2>1, <2>2, NewCallIs DEF NewCall, Call
  <2> QED
    BY <1>1, <1>7, <2>1, <2>3, SendStep
<1> QED
  BY <1>2, <1>3, <1>4, <1>6, <1>7 DEF Save

LEMMA TypeAddStep == ASSUME ScreenInv, TypeAdd PROVE ScreenInv'
<1>1. addDraft' = TRUE /\ UNCHANGED <<q, calls, editor, saving, dialogs, away, server, owed, undone>>
  BY DEF TypeAdd, serverVars, histVars
<1>2. FormsTyped'
  BY <1>1 DEF ScreenInv, FormsTyped
<1> QED
  BY <1>1, <1>2, FormStep

\* A call that is about no line.
LEMMA PlainSendStep ==
  ASSUME ScreenInv, Shown, NEW kind \in {"add", "submit", "archive"},
         Send(NewCall(kind, "none")),
         UNCHANGED <<server, q, owed, undone, editor, saving, addDraft, dialogs, away>>
  PROVE  ScreenInv'
<1>1. PICK call : call = NewCall(kind, "none")
  OBVIOUS
<1>2. kind \in Kinds /\ kind \notin {"tick", "edit"}
  BY DEF Kinds
<1>3. /\ call \in Call /\ call.kind = kind /\ call.ver = 0 /\ call.reply = "none"
  BY <1>1, <1>2, NewCallIs
<1> QED
  BY <1>1, <1>2, <1>3, SendStep

LEMMA SubmitAddStep == ASSUME ScreenInv, SubmitAdd PROVE ScreenInv'
<1>1. /\ Shown /\ Send(NewCall("add", "none"))
      /\ UNCHANGED <<server, q, owed, undone, editor, saving, addDraft, dialogs, away>>
  BY DEF SubmitAdd, Active, serverVars, formVars, histVars
<1> QED
  BY <1>1, PlainSendStep

LEMMA DialogStep ==
  ASSUME ScreenInv, NEW kind \in {"submit", "archive"},
         OpenDialog(kind) \/ CloseDialog(kind) \/ Confirm(kind)
  PROVE  ScreenInv'
<1>1. CASE OpenDialog(kind) \/ CloseDialog(kind)
  <2>1. /\ dialogs' \in {{kind}, dialogs \ {kind}}
        /\ UNCHANGED <<q, calls, editor, saving, addDraft, away, server, owed, undone>>
    BY <1>1 DEF OpenDialog, CloseDialog, serverVars, histVars
  <2>2. FormsTyped'
    BY <2>1 DEF ScreenInv, FormsTyped
  <2> QED
    BY <2>1, <2>2, FormStep
<1>2. CASE Confirm(kind)
  <2>1. /\ Shown /\ Send(NewCall(kind, "none"))
        /\ UNCHANGED <<server, q, owed, undone, editor, saving, addDraft, dialogs, away>>
    BY <1>2 DEF Confirm, serverVars, formVars, histVars
  <2> QED
    BY <2>1, PlainSendStep
<1> QED
  BY <1>1, <1>2

-----------------------------------------------------------------------------
(* The server and the rest of the household.                                *)

\* A step of the network that the screen does not see.
LEMMA UnseenStep ==
  ASSUME ScreenInv, UNCHANGED <<q, editor, saving, addDraft, dialogs, away, owed, undone>>,
         server' \in List, server' = server \/ server.ver < server'.ver,
         calls' \in Seq(Call), CallsFit', Len(calls') = Len(calls),
         Ticking => Ticking'
  PROVE  ScreenInv'
<1>1. StateTyped /\ FormsTyped /\ QueryFits
  BY DEF ScreenInv
<1>2. StateTyped' /\ FormsTyped'
  BY <1>1 DEF StateTyped, FormsTyped
<1>3. calls' # <<>> => q.data # NoData
  <2>1. calls' # <<>> => Len(calls') # 0
    OBVIOUS
  <2>2. Len(calls) # 0 => calls # <<>>
    OBVIOUS
  <2> QED
    BY <1>1, <2>1, <2>2 DEF QueryFits
<1>4. QueryFits'
  BY <1>1, <1>3, QueryKept
<1> QED
  BY <1>2, <1>4 DEF ScreenInv

LEMMA ServeStep ==
  ASSUME ScreenInv, NEW c \in DOMAIN calls, Serve(c) PROVE ScreenInv'
<1>1. StateTyped /\ CallsFit /\ server \in List /\ server.ver \in Nat
  BY ListIs DEF ScreenInv, StateTyped
<1>2. /\ calls[c].reply = "none" /\ calls[c] \in Call /\ CallFits(calls[c])
      /\ UNCHANGED <<q, editor, saving, addDraft, dialogs, away, owed, undone>>
  BY <1>1, CallsAre DEF CallsFit, Serve, formVars, histVars
<1>3. PICK call \in Call : call = calls[c]
  BY <1>2
<1>4. CASE server' = EffectOf(calls[c]) /\ Reply(c, "ok", server'.ver)
  <2>1. EffectOf(call) \in List /\ EffectOf(call).ver = server.ver + 1
    BY <1>1, <1>2, <1>3, EffectIs
  <2>2. server' \in List /\ server'.ver = server.ver + 1
    BY <1>3, <1>4, <2>1
  <2>3. PICK v \in Nat : v = server'.ver
    BY <1>1, <2>2
  <2>4. Reply(c, "ok", v)
    BY <1>4, <2>3
  <2>5. server.ver <= server'.ver /\ v <= server'.ver /\ server.ver < server'.ver
    BY <1>1, <2>2, <2>3
  <2>6. /\ calls' \in Seq(Call) /\ CallsFit' /\ Len(calls') = Len(calls)
        /\ Ticking => Ticking'
    BY <1>1, <1>2, <2>2, <2>4, <2>5, Replied
  <2> QED
    BY <1>2, <2>2, <2>5, <2>6, UnseenStep
<1>5. CASE /\ Reply(c, ClosedFor(calls[c]), 0) /\ UNCHANGED server
           /\ ClosedFor(calls[c]) # "no"
  <2>1. PICK reply \in {"ok", "inactive", "conflict", "failed"} : reply = ClosedFor(calls[c])
    BY <1>5 DEF ClosedFor
  <2>2. Reply(c, reply, 0) /\ server' \in List /\ server.ver <= server'.ver /\ 0 <= server'.ver
    BY <1>1, <1>5, <2>1
  <2>3. /\ calls' \in Seq(Call) /\ CallsFit' /\ Len(calls') = Len(calls)
        /\ Ticking => Ticking'
    BY <1>1, <1>2, <2>2, Replied
  <2> QED
    BY <1>2, <1>5, <2>2, <2>3, UnseenStep
<1> QED
  BY <1>4, <1>5 DEF Serve

LEMMA MissStep ==
  ASSUME ScreenInv, NEW c \in DOMAIN calls, Miss(c) PROVE ScreenInv'
<1>1. StateTyped /\ CallsFit /\ server \in List /\ server.ver \in Nat
  BY ListIs DEF ScreenInv, StateTyped
<1>2. /\ calls[c].reply # "done"
      /\ UNCHANGED <<server, q, editor, saving, addDraft, dialogs, away, owed, undone>>
  BY DEF Miss, formVars, histVars
<1>3. PICK reply \in {"ok", "inactive", "conflict", "failed"} : Reply(c, reply, 0)
  BY DEF Miss
<1>4. server' \in List /\ server.ver <= server'.ver /\ 0 <= server'.ver
  BY <1>1, <1>2
<1>5. /\ calls' \in Seq(Call) /\ CallsFit' /\ Len(calls') = Len(calls)
      /\ Ticking => Ticking'
  BY <1>1, <1>2, <1>3, <1>4, Replied
<1> QED
  BY <1>2, <1>4, <1>5, UnseenStep

LEMMA OthersActStep == ASSUME ScreenInv, OthersAct PROVE ScreenInv'
<1>1. StateTyped /\ CallsFit /\ server \in List /\ server.ver \in Nat
  BY ListIs DEF ScreenInv, StateTyped
<1>2. UNCHANGED <<calls, q, editor, saving, addDraft, dialogs, away, owed, undone>>
  BY DEF OthersAct, formVars, histVars
<1>3. PICK list \in List : list.ver = server.ver /\ server' = Bump(list)
  <2>1. CASE \E list \in OthersChange(server) : server' = Bump(list)
    BY <1>1, <2>1, OthersChangeIs
  <2>2. CASE server' = Bump([server EXCEPT !.status = "gone"])
    BY <1>1, <2>2, StatusChanged
  <2> QED
    BY <2>1, <2>2 DEF OthersAct
<1>4. server' \in List /\ server'.ver = server.ver + 1
  BY <1>3, BumpIs
<1>5. server.ver < server'.ver
  BY <1>1, <1>4
<1>6. ASSUME NEW c \in DOMAIN calls PROVE CallFits(calls[c])'
  <2>1. CallFits(calls[c]) /\ calls[c].ver \in Nat
    BY <1>1, CallsAre, CallIs DEF CallsFit
  <2> QED
    BY <1>1, <1>2, <1>4, <2>1 DEF CallFits
<1>7. CallsFit'
  BY <1>2, <1>6 DEF CallsFit
<1>8. calls' \in Seq(Call) /\ Len(calls') = Len(calls) /\ (Ticking => Ticking')
  BY <1>1, <1>2 DEF StateTyped, Ticking
<1> QED
  BY <1>2, <1>4, <1>5, <1>7, <1>8, UnseenStep

-----------------------------------------------------------------------------
(* Answers.                                                                 *)

\* An answer invalidates the list, or puts an old one back and says so, or is one that
\* nothing is owed for and that no tick waited for.
LEMMA AnswerIs ==
  ASSUME NEW c \in DOMAIN calls, Answer(c), calls[c].kind \in Kinds,
         addDraft \in BOOLEAN, dialogs \subseteq {"submit", "archive"}
  PROVE  /\ \/ q' = MarkStale(q, ~away) /\ UNCHANGED undone
            \/ /\ calls[c].kind = "tick" /\ calls[c].reply # "ok"
               /\ q' = Prime(q, calls[c].previous) /\ undone' = TRUE
            \/ /\ calls[c].kind # "tick" /\ calls[c].reply # "ok"
               /\ q' = q /\ UNCHANGED undone
         /\ editor' \in {editor, NoEditor} /\ addDraft' \in BOOLEAN
         /\ dialogs' \subseteq {"submit", "archive"}
<1>1. CASE calls[c].kind = "tick"
  BY <1>1 DEF Answer, TickAnswered
<1>2. CASE calls[c].kind = "edit"
  BY <1>2 DEF Answer, EditAnswered
<1>3. CASE calls[c].kind = "add"
  <2>1. AddAnswered(calls[c]) /\ UNCHANGED <<editor, dialogs, undone>>
    BY <1>3 DEF Answer
  <2>2. CASE calls[c].reply = "ok"
    <3>1. q' = MarkStale(q, ~away) /\ addDraft' = (addDraft /\ ~calls[c].here)
      BY <2>1, <2>2 DEF AddAnswered
    <3>2. addDraft' \in BOOLEAN
      BY <3>1
    <3> QED
      BY <2>1, <3>1, <3>2
  <2>3. CASE calls[c].reply # "ok"
    BY <1>3, <2>1, <2>3 DEF AddAnswered
  <2> QED
    BY <2>2, <2>3
<1>4. CASE calls[c].kind = "submit"
  BY <1>4 DEF Answer, SubmitAnswered
<1>5. CASE calls[c].kind = "archive"
  BY <1>5 DEF Answer, ArchiveAnswered
<1> QED
  BY <1>1, <1>2, <1>3, <1>4, <1>5 DEF Kinds

LEMMA AnswerStep ==
  ASSUME NoData \notin List, ScreenInv, NEW c \in DOMAIN calls, Answer(c) PROVE ScreenInv'
<1>1. StateTyped /\ FormsTyped /\ CallsFit /\ QueryFits
  BY DEF ScreenInv
<1>2. /\ calls[c].reply \notin {"none", "done"}
      /\ calls' = [calls EXCEPT ![c] = [NewCall(calls[c].kind, "none") EXCEPT !.reply = "done"]]
      /\ saving' = IF saving = c THEN 0 ELSE saving
      /\ owed' = IF calls[c].ver > owed /\ ~Missed(calls[c].ver) THEN calls[c].ver ELSE owed
      /\ UNCHANGED <<server, away>>
  BY DEF Answer, serverVars
<1>3. PICK call \in Call : call = calls[c]
  BY <1>1, CallsAre
<1>4. CallFits(call) /\ call.kind \in Kinds /\ call.ver \in Nat /\ call.reply # "done"
  BY <1>1, <1>2, <1>3, CallIs DEF CallsFit
<1>5. /\ \/ q' = MarkStale(q, ~away) /\ UNCHANGED undone
         \/ call.kind = "tick" /\ call.reply # "ok" /\ q' = Prime(q, call.previous) /\ undone' = TRUE
         \/ call.kind # "tick" /\ call.reply # "ok" /\ q' = q /\ UNCHANGED undone
      /\ editor' \in {editor, NoEditor} /\ addDraft' \in BOOLEAN
      /\ dialogs' \subseteq {"submit", "archive"}
  BY <1>1, <1>3, <1>4, AnswerIs DEF FormsTyped
<1>6. server \in List /\ server.ver \in Nat /\ owed \in Nat /\ IsQuery(q, List)
  BY <1>1, ListIs DEF StateTyped
<1>7. q.data \in List /\ q.data # NoData
  <2>1. calls # <<>>
    BY <1>1, CallsAre
  <2> QED
    BY <1>1, <1>6, <2>1, QueryIs DEF QueryFits
<1>8. /\ calls' \in Seq(Call) /\ CallsFit' /\ Len(calls') = Len(calls)
      /\ DOMAIN calls' = DOMAIN calls
      /\ \A d \in DOMAIN calls \ {c} : calls'[d] = calls[d]
  <2>1. PICK new : new = [NewCall(call.kind, "none") EXCEPT !.reply = "done"]
    OBVIOUS
  <2>2. new \in Call /\ new.ver = 0 /\ new.reply = "done"
    BY <1>4, <2>1, NewCallIs DEF Call
  <2>3. calls' = [calls EXCEPT ![c] = new]
    BY <1>2, <1>3, <2>1
  <2>4. CallFits(new)'
    BY <1>2, <1>6, <2>2 DEF CallFits
  <2>5. server' \in List /\ server.ver <= server'.ver
    BY <1>2, <1>6
  <2> QED
    BY <1>1, <2>2, <2>3, <2>4, <2>5, Replaced
<1>9. /\ owed' \in Nat /\ owed' <= server.ver
      /\ call.reply # "ok" => owed' = owed
  BY <1>1, <1>2, <1>3, <1>4, <1>6 DEF CallFits, QueryFits
<1>10. FormsTyped'
  <2>1. saving' \in 0 .. Len(calls')
    BY <1>2, <1>8, SavingIs
  <2>2. editor' = NoEditor \/ editor' \in [line : Lines, draft : Draft]
    BY <1>1, <1>5 DEF FormsTyped
  <2>3. away' \in BOOLEAN
    BY <1>1, <1>2 DEF FormsTyped
  <2> QED
    BY <1>5, <2>1, <2>2, <2>3 DEF FormsTyped
<1>11. CASE ~away /\ q' = Refetch(q) /\ UNCHANGED undone
  <2>1. /\ IsQuery(q', List) /\ q'.data = q.data /\ q'.phase # "idle" /\ q'.phase # "read"
    BY <1>6, <1>7, <1>11, RefetchIs
  <2>2. StateTyped'
    BY <1>1, <1>2, <1>8, <1>9, <1>11, <2>1 DEF StateTyped
  <2>3. QueryFits'
    BY <1>1, <1>2, <1>7, <1>9, <2>1, QueryAsked
  <2> QED
    BY <1>8, <1>10, <2>2, <2>3 DEF ScreenInv
<1>12. CASE call.kind = "tick" /\ call.reply # "ok" /\ q' = Prime(q, call.previous) /\ undone' = TRUE
  <2>1. call.previous \in List
    BY <1>4, <1>12 DEF CallFits
  <2>2. PICK e : e = q
    OBVIOUS
  <2>3. /\ IsQuery(Prime(e, call.previous), List) /\ Prime(e, call.previous).data = call.previous
        /\ Prime(e, call.previous).phase = e.phase /\ Prime(e, call.previous).snap = e.snap
    BY <1>6, <2>1, <2>2, PrimeIs
  <2>4. /\ IsQuery(q', List) /\ q'.data \in List /\ q'.phase = q.phase /\ q'.snap = q.snap
    BY <1>12, <2>1, <2>2, <2>3
  <2>5. StateTyped'
    BY <1>2, <1>6, <1>8, <1>9, <1>12, <2>4 DEF StateTyped
  <2>6. q'.data # NoData
    BY <2>4
  <2>7. q'.phase = "read" => q'.snap \in List /\ q'.snap.ver >= owed' /\ Clean(q'.snap)
    BY <1>1, <1>9, <1>12, <2>4 DEF QueryFits
  <2>8. QueryFits'
    BY <1>2, <1>9, <1>12, <2>6, <2>7 DEF QueryFits, Clean
  <2> QED
    BY <1>8, <1>10, <2>5, <2>8 DEF ScreenInv
<1>13. CASE call.kind # "tick" /\ call.reply # "ok" /\ q' = q /\ UNCHANGED undone
  <2>1. StateTyped'
    BY <1>1, <1>2, <1>8, <1>9, <1>13 DEF StateTyped
  <2>2. Ticking => Ticking'
    <3> SUFFICES ASSUME NEW d \in DOMAIN calls, calls[d].kind = "tick", calls[d].reply # "done"
                 PROVE  Ticking'
      BY DEF Ticking
    <3>1. d # c
      BY <1>3, <1>13
    <3>2. d \in DOMAIN calls' /\ calls'[d] = calls[d]
      BY <1>8, <3>1
    <3> QED
      BY <3>2 DEF Ticking
  <2>3. UNCHANGED <<q, away, owed, undone>> /\ server' \in List /\ server' = server
    BY <1>2, <1>6, <1>9, <1>13
  <2>4. QueryFits'
    BY <1>1, <1>7, <2>2, <2>3, QueryKept
  <2> QED
    BY <1>8, <1>10, <2>1, <2>4 DEF ScreenInv
<1>14. CASE away /\ UNCHANGED <<q, undone>>
  <2>1. StateTyped'
    BY <1>1, <1>2, <1>8, <1>9, <1>14 DEF StateTyped
  <2>2. q.phase = "read" => q.snap \in List /\ q.snap.ver >= owed' /\ Clean(q.snap)
    <3> SUFFICES ASSUME q.phase = "read" PROVE q.snap \in List /\ q.snap.ver >= owed' /\ Clean(q.snap)
      OBVIOUS
    <3>1. q.snap \in List /\ q.snap.ver >= owed /\ Clean(q.snap)
      BY <1>1 DEF QueryFits
    <3>2. ~Missed(call.ver) => q.snap.ver >= call.ver
      BY <1>4, <1>14, <3>1, ListIs DEF Missed
    <3> QED
      BY <1>2, <1>3, <3>1, <3>2
  <2>3. ~Shown'
    BY <1>2, <1>14 DEF Shown
  <2>4. QueryFits'
    BY <1>2, <1>7, <1>9, <1>14, <2>2, <2>3 DEF QueryFits, Clean
  <2> QED
    BY <1>8, <1>10, <2>1, <2>4 DEF ScreenInv
<1>15. CASE q' = MarkStale(q, ~away) /\ UNCHANGED undone
  <2>1. ~away => q' = Refetch(q)
    BY <1>15 DEF MarkStale
  <2>2. away => q' = q
    BY <1>15 DEF MarkStale
  <2> QED
    BY <1>11, <1>14, <1>15, <2>1, <2>2
<1> QED
  BY <1>5, <1>12, <1>13, <1>15

-----------------------------------------------------------------------------
(* Fetches.                                                                 *)

\* A step of the query that leaves calls and forms alone.
LEMMA FetchStep ==
  ASSUME ScreenInv, UNCHANGED <<server, calls, editor, saving, addDraft, dialogs, away, owed>>,
         IsQuery(q', List), undone' \in BOOLEAN, QueryFits'
  PROVE  ScreenInv'
<1>1. StateTyped' /\ FormsTyped'
  BY DEF ScreenInv, StateTyped, FormsTyped
<1>2. CallsFit'
  BY DEF ScreenInv, CallsFit, CallFits
<1> QED
  BY <1>1, <1>2 DEF ScreenInv

LEMMA ReadListStep == ASSUME NoData \notin List, ScreenInv, ReadList PROVE ScreenInv'
<1>1. StateTyped /\ QueryFits
  BY DEF ScreenInv
<1>2. /\ q.phase = "asked"
      /\ UNCHANGED <<server, calls, editor, saving, addDraft, dialogs, away, owed, undone>>
  BY DEF ReadList, serverVars, formVars, histVars
<1>3. IsQuery(q, List) /\ server \in List /\ owed \in Nat /\ server.ver \in Nat /\ undone \in BOOLEAN
  BY <1>1, ListIs DEF StateTyped
<1>4. CASE q' = Fail(q)
  <2>1. IsQuery(q', List) /\ q'.data = q.data /\ q'.phase = "idle" /\ q'.failed
    BY <1>3, <1>4, FailIs
  <2>2. QueryFits'
    BY <1>1, <1>2, <2>1 DEF QueryFits, Shown
  <2> QED
    BY <1>2, <1>3, <2>1, <2>2, FetchStep
<1>5. CASE q' = ReadAs(q, server)
  <2>1. IsQuery(q', List) /\ q'.data = q.data /\ q'.phase = "read" /\ q'.snap = server
    BY <1>3, <1>5 DEF IsQuery, ReadAs
  <2>2. server.ver >= owed /\ server.ver <= server.ver
    BY <1>1, <1>3 DEF QueryFits
  <2>3. QueryFits'
    BY <1>1, <1>2, <1>3, <2>1, <2>2 DEF QueryFits, Fetching, Clean
  <2> QED
    BY <1>2, <1>3, <2>1, <2>3, FetchStep
<1> QED
  BY <1>4, <1>5 DEF ReadList

LEMMA ListArrivesStep ==
  ASSUME NoData \notin List, ScreenInv, ListArrives PROVE ScreenInv'
<1>1. StateTyped /\ QueryFits
  BY DEF ScreenInv
<1>2. /\ q.phase = "read" /\ q' = Deliver(q) /\ undone' = FALSE
      /\ UNCHANGED <<server, calls, editor, saving, addDraft, dialogs, away, owed>>
  BY DEF ListArrives, serverVars, formVars
<1>3. q.snap \in List /\ q.snap.ver >= owed /\ Clean(q.snap)
  BY <1>1, <1>2 DEF QueryFits
<1>4. IsQuery(q', List) /\ q'.data = q.snap /\ q'.phase = "idle"
  BY <1>1, <1>2, <1>3 DEF StateTyped, IsQuery, Deliver, Cancel
<1>5. QueryFits'
  BY <1>1, <1>2, <1>3, <1>4 DEF QueryFits, Clean
<1> QED
  BY <1>2, <1>4, <1>5, FetchStep

LEMMA ListLostStep == ASSUME ScreenInv, ListLost PROVE ScreenInv'
<1>1. StateTyped /\ QueryFits
  BY DEF ScreenInv
<1>2. /\ q' = Fail(q)
      /\ UNCHANGED <<server, calls, editor, saving, addDraft, dialogs, away, owed, undone>>
  BY DEF ListLost, serverVars, formVars, histVars
<1>3. IsQuery(q', List) /\ q'.data = q.data /\ q'.phase = "idle" /\ q'.failed /\ undone' \in BOOLEAN
  BY <1>1, <1>2, FailIs DEF StateTyped
<1>4. QueryFits'
  BY <1>1, <1>2, <1>3 DEF QueryFits, Shown
<1> QED
  BY <1>2, <1>3, <1>4, FetchStep

LEMMA AskStep == ASSUME ScreenInv, Retry \/ Reconnect PROVE ScreenInv'
<1>1. StateTyped /\ QueryFits
  BY DEF ScreenInv
<1>2. /\ q' \in {Fetch(q), Refetch(q)}
      /\ UNCHANGED <<server, calls, editor, saving, addDraft, dialogs, away, owed, undone>>
  BY DEF Retry, Reconnect, serverVars, formVars, histVars
<1>3. /\ IsQuery(q', List) /\ q'.data = q.data /\ q'.phase # "idle"
      /\ q'.phase = "read" => q.phase = "read" /\ q'.snap = q.snap
  BY <1>1, <1>2, FetchIs, RefetchIs DEF StateTyped
<1>4. owed' \in Nat /\ owed' <= server.ver /\ owed' = owed /\ undone' \in BOOLEAN
      /\ (calls' # <<>> => q.data # NoData)
  BY <1>1, <1>2 DEF StateTyped, QueryFits
<1>5. QueryFits'
  BY <1>1, <1>2, <1>3, <1>4, QueryAsked
<1> QED
  BY <1>2, <1>3, <1>4, <1>5, FetchStep

LEMMA LeaveStep == ASSUME ScreenInv, Leave PROVE ScreenInv'
<1> DEFINE g == [c \in DOMAIN calls |-> [calls[c] EXCEPT !.here = @ /\ calls[c].reply = "done"]]
<1>1. /\ calls' = g /\ away' = TRUE
      /\ editor' = NoEditor /\ saving' = 0 /\ addDraft' = FALSE /\ dialogs' = {}
      /\ UNCHANGED <<server, q, owed, undone>>
  BY DEF Leave, serverVars, histVars
<1>2. StateTyped /\ CallsFit /\ QueryFits
  BY DEF ScreenInv
<1>3. PICK n \in Nat : n = Len(calls) /\ DOMAIN calls = 1 .. n
  BY <1>2, CallsAre
<1>4. ASSUME NEW c \in 1 .. n
      PROVE  g[c] \in Call /\ CallFits(g[c])
  <2>1. calls[c] \in Call /\ CallFits(calls[c])
    BY <1>2, <1>3, CallsAre DEF CallsFit
  <2>2. PICK b \in BOOLEAN : b = (calls[c].here /\ calls[c].reply = "done")
    OBVIOUS
  <2>3. g[c] = [calls[c] EXCEPT !.here = b]
    BY <1>3, <2>2
  <2> HIDE DEF g
  <2> QED
    BY <2>1, <2>3 DEF Call, CallFits
<1>5. DOMAIN g = 1 .. n
  BY <1>3
<1>6. \E f : f = g
  OBVIOUS
<1> HIDE DEF g
<1>7. PICK f : f = g
  BY <1>6
<1>8. f \in Seq(Call) /\ Len(f) = n /\ DOMAIN f = 1 .. n
  <2>1. f \in [1 .. n -> Call]
    <3>1. f = [c \in 1 .. n |-> f[c]]
      BY <1>5, <1>7 DEF g
    <3> QED
      BY <1>4, <1>7, <3>1
  <2> QED
    BY <2>1
<1>9. calls' \in Seq(Call) /\ Len(calls') = n /\ DOMAIN calls' = 1 .. n
  BY <1>1, <1>7, <1>8
<1>10. CallsFit'
  <2>1. \A c \in 1 .. n : CallFits(f[c])
    BY <1>4, <1>7
  <2>2. calls' = f
    BY <1>1, <1>7
  <2> QED
    BY <1>1, <1>9, <2>1, <2>2 DEF CallsFit, CallFits
<1>11. calls' # <<>> => q.data # NoData
  <2>1. calls' # <<>> => n # 0
    BY <1>9
  <2>2. n # 0 => calls # <<>>
    BY <1>3
  <2> QED
    BY <1>2, <2>1, <2>2 DEF QueryFits
<1>12. ~Shown'
  BY <1>1 DEF Shown
<1>13. QueryFits'
  BY <1>1, <1>2, <1>11, <1>12 DEF QueryFits, Clean
<1>14. StateTyped'
  BY <1>1, <1>2, <1>9 DEF StateTyped
<1>15. FormsTyped'
  <2>1. saving' = 0 /\ Len(calls') \in Nat
    BY <1>1, <1>9
  <2>2. saving' \in 0 .. Len(calls')
    BY <2>1
  <2>3. addDraft' \in BOOLEAN /\ away' \in BOOLEAN
    BY <1>1
  <2> QED
    BY <1>1, <2>2, <2>3 DEF FormsTyped
<1> QED
  BY <1>10, <1>13, <1>14, <1>15 DEF ScreenInv

\* The screen that opens waits for a list that has what is owed, or asks for one.
LEMMA VisitStep == ASSUME ScreenInv, Visit PROVE ScreenInv'
<1>1. StateTyped /\ FormsTyped /\ QueryFits
  BY DEF ScreenInv
<1>2. /\ q' = Fetch(q) /\ away' = FALSE
      /\ UNCHANGED <<server, calls, editor, saving, addDraft, dialogs, owed, undone>>
  BY DEF Visit, serverVars, histVars
<1>3. /\ IsQuery(q', List) /\ q'.data = q.data /\ q'.phase # "idle"
      /\ q'.phase = "read" => q.phase = "read" /\ q'.snap = q.snap
  BY <1>1, <1>2, FetchIs DEF StateTyped
<1>4. owed' \in Nat /\ owed' <= server.ver /\ owed' = owed /\ undone' \in BOOLEAN
      /\ (calls' # <<>> => q.data # NoData)
  BY <1>1, <1>2 DEF StateTyped, QueryFits
<1>5. QueryFits'
  BY <1>1, <1>2, <1>3, <1>4, QueryAsked
<1>6. FormsTyped'
  <2>1. away' \in BOOLEAN
    BY <1>2
  <2> QED
    BY <1>1, <1>2, <2>1 DEF FormsTyped
<1>7. StateTyped' /\ CallsFit'
  BY <1>1, <1>2, <1>3 DEF ScreenInv, StateTyped, CallsFit, CallFits
<1> QED
  BY <1>5, <1>6, <1>7 DEF ScreenInv

-----------------------------------------------------------------------------
(* The invariant, and what it shows.                                        *)

LEMMA ScreenInit == ASSUME Init PROVE ScreenInv
<1>1. /\ calls = <<>> /\ editor = NoEditor /\ saving = 0 /\ addDraft = FALSE
      /\ dialogs = {} /\ away = FALSE /\ owed = 0 /\ undone = FALSE /\ q = Fetch(NewQuery)
  BY DEF Init
<1>2. server \in List /\ server.ver = 0
  <2>1. PICK line : line = [item |-> "old", amount |-> "old", checked |-> FALSE, frozen |-> FALSE]
    OBVIOUS
  <2>2. line \in Line
    BY <2>1 DEF Line, Texts
  <2>3. server = [ver |-> 0, status |-> "active", added |-> 0, lines |-> [l \in Lines |-> line]]
    BY <2>1 DEF Init
  <2> QED
    BY <2>2, <2>3 DEF List
<1>3. IsQuery(q, List) /\ q.phase = "asked"
  BY <1>1 DEF Fetch, Fetching, NewQuery, IsQuery
<1>4. calls \in Seq(Call) /\ Len(calls) = 0 /\ DOMAIN calls = {}
  BY <1>1
<1>5. StateTyped
  BY <1>1, <1>2, <1>3, <1>4 DEF StateTyped
<1>6. FormsTyped
  <2>1. saving \in 0 .. Len(calls)
    BY <1>1, <1>4
  <2>2. addDraft \in BOOLEAN /\ away \in BOOLEAN
    BY <1>1
  <2> QED
    BY <1>1, <2>1, <2>2 DEF FormsTyped
<1>7. CallsFit
  BY <1>4 DEF CallsFit
<1>8. QueryFits
  BY <1>1, <1>2, <1>3 DEF QueryFits, Fetching
<1> QED
  BY <1>5, <1>6, <1>7, <1>8 DEF ScreenInv

LEMMA ScreenNext ==
  ASSUME NoData \notin List, ScreenInv, [Next]_vars PROVE ScreenInv'
<1>1. ASSUME NEW l \in Lines, Toggle(l) \/ StartEdit(l) PROVE ScreenInv'
  BY <1>1, ToggleStep, StartEditStep
<1>2. CASE CancelEdit
  BY <1>2, CancelEditStep
<1>3. CASE Save
  BY <1>3, SaveStep
<1>4. ASSUME NEW f \in Fields, NEW text \in Typed[f], Type(f, text) PROVE ScreenInv'
  BY <1>4, TypeStep
<1>5. CASE TypeAdd
  BY <1>5, TypeAddStep
<1>6. CASE SubmitAdd
  BY <1>6, SubmitAddStep
<1>7. ASSUME NEW kind \in {"submit", "archive"},
             OpenDialog(kind) \/ CloseDialog(kind) \/ Confirm(kind)
      PROVE  ScreenInv'
  BY <1>7, DialogStep
<1>8. CASE Network
  <2>1. ASSUME NEW c \in DOMAIN calls, Serve(c) \/ Miss(c) \/ Answer(c) PROVE ScreenInv'
    BY <2>1, ServeStep, MissStep, AnswerStep
  <2> QED
    BY <1>8, <2>1 DEF Network
<1>9. CASE Query
  BY <1>9, ReadListStep, ListArrivesStep, ListLostStep DEF Query
<1>10. CASE OthersAct
  BY <1>10, OthersActStep
<1>11. CASE Retry \/ Reconnect
  BY <1>11, AskStep
<1>12. CASE Leave \/ Visit
  BY <1>12, LeaveStep, VisitStep
<1>13. CASE UNCHANGED vars
  <2>1. UNCHANGED <<server, q, calls, owed, undone, editor, saving, addDraft, dialogs, away>>
    BY <1>13 DEF vars, serverVars, formVars, histVars
  <2>2. FormsTyped'
    BY <2>1 DEF ScreenInv, FormsTyped
  <2> QED
    BY <2>1, <2>2, FormStep
<1> QED
  BY <1>1, <1>2, <1>3, <1>4, <1>5, <1>6, <1>7, <1>8, <1>9, <1>10, <1>11, <1>12, <1>13 DEF Next

LEMMA ScreenHolds == ASSUME NoData \notin List PROVE Spec => []ScreenInv
<1>1. Init => ScreenInv
  BY ScreenInit
<1>2. ScreenInv /\ [Next]_vars => ScreenInv'
  BY ScreenNext
<1> QED
  BY <1>1, <1>2, PTL DEF Spec

\* For any lines, calls and changes by others: the list the server has, the list the
\* screen shows and the copies its ticks remember are lists, and every open editor is
\* about a line (the state of GroceryListDetail.tsx).
THEOREM ScreenTyped ==
  ASSUME NoData \notin List, MaxOthers \in Nat PROVE Spec => []TypeOK
<1> DEFINE OthersTyped == others \in 0 .. MaxOthers
<1>1. Init => OthersTyped
  BY DEF Init
<1>2. OthersTyped /\ [Next]_vars => OthersTyped'
  <2> SUFFICES ASSUME others \in 0 .. MaxOthers, [Next]_vars PROVE others' \in 0 .. MaxOthers
    OBVIOUS
  <2>1. CASE OthersAct
    <3>1. others < MaxOthers /\ others' = others + 1
      BY <2>1 DEF OthersAct
    <3> QED
      BY <3>1
  <2>2. CASE ~OthersAct
    <3>1. others' = others
      BY <2>2 DEF Next, Network, Query, vars, serverVars, Toggle, StartEdit, CancelEdit, Save,
                  Type, TypeAdd, SubmitAdd, OpenDialog, CloseDialog, Confirm, Serve, Miss, Answer,
                  ReadList, ListArrives, ListLost, Retry, Reconnect, Leave, Visit
    <3> QED
      BY <3>1
  <2> QED
    BY <2>1, <2>2
<1>3. ScreenInv /\ OthersTyped => TypeOK
  BY DEF ScreenInv, StateTyped, FormsTyped, TypeOK
<1> HIDE DEF OthersTyped
<1> QED
  BY <1>1, <1>2, <1>3, ScreenHolds, PTL DEF Spec

\* However ticks, edits, additions and submits overlap and cancel each other's refetches
\* (onMutate and the invalidations of GroceryListDetail.tsx), and however often the member
\* leaves it meanwhile, an open screen at rest shows every write it was told of and no tick
\* of its own making, unless the last thing that happened to it is a failed tick.  A write
\* that was Missed is none of them: the GET a visit joined had been read before it.
THEOREM RestTrue == ASSUME NoData \notin List PROVE Spec => []RestIsTrue
<1>1. ScreenInv => RestIsTrue
  <2> SUFFICES ASSUME ScreenInv, Quiet, ~undone
               PROVE  q.data.ver >= owed /\ (q.data.ver = server.ver => q.data = server)
    BY DEF RestIsTrue
  <2>1. ~Ticking
    BY DEF Quiet, Ticking
  <2> QED
    BY <2>1 DEF ScreenInv, QueryFits, Quiet, Clean
<1> QED
  BY <1>1, ScreenHolds, PTL
=============================================================================

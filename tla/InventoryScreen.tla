--------------------------- MODULE InventoryScreen ---------------------------
(***************************************************************************)
(* The inventory screen: the add form, one editor panel, the delete dialog *)
(* and the query behind the table.  Calls run side by side and are         *)
(* answered in any order or not at all, while the rest of the household    *)
(* adds and removes stock.  The server gives the id of a deleted last row  *)
(* out again.                                                              *)
(***************************************************************************)
EXTENDS QueryCache, Naturals, Sequences, FiniteSetsExt

CONSTANTS
  Names,      \* the match names; all rows are in one unit bucket
  Offered,    \* the operations the member at this screen uses
  Others,     \* the operations the rest of the household uses
  MaxCalls,   \* bound on the calls this screen makes
  MaxOthers   \* bound on the changes the others make

Kinds == {"add", "edit", "delete", "cook"}   \* cook: from a recipe's screen, before

ASSUME BoundsAssumption == MaxCalls \in Nat /\ MaxOthers \in Nat
ASSUME OfferAssumption  == Offered \subseteq Kinds /\ Others \subseteq Kinds
ASSUME CookAssumption   == "cook" \in Offered => MaxCalls > 0   \* that cook is one of them
ASSUME NamesAssumption  == Names # {}

VARIABLES
  server,    \* the stock as the server has it
  q,         \* the entry ["inventory"] of the query cache
  calls,     \* the mutations sent so far, in the order of their clicks
  addDraft,  \* the name in the add form, or ""
  editor,    \* pendingEdit with its draft, or NoEditor
  observed,  \* the edit call whose progress and error the panel shows, or 0
  dialog,    \* pendingDelete: the row the dialog names, or NoRow
  away,      \* the member is at another screen, and nobody observes the entry
  others,    \* how many changes the others have made
  owed       \* history: the newest version told of, but for those Missed

formVars == <<addDraft, editor, observed, dialog, away>>
vars     == <<server, q, calls, formVars, others, owed>>

Ids      == 1 .. (1 + MaxCalls + MaxOthers)
Typed    == 7                 \* the quantity this member types
Theirs   == 8                 \* the quantity somebody else sets
Amounts  == 0 .. (Theirs + MaxCalls + MaxOthers)
Row      == [name : Names, amount : Amounts]
Fields   == {"name", "amount"}   \* amount: quantity and unit, which travel together
NoEditor == [id |-> 0]
NoRow    == 0

IsStock(s) == s.ver \in Nat /\ DOMAIN s.rows \subseteq Ids /\ \A i \in DOMAIN s.rows : s.rows[i] \in Row
\* The set of them, which no NoData is in.
Stock      == [ver : Nat, rows : UNION {[S -> Row] : S \in SUBSET Ids}]

ASSUME NoDataAssumption == NoData \notin Stock

Call ==
  [kind : Kinds, id : Ids \cup {0}, name : Names \cup {""}, fields : SUBSET Fields,
   here : BOOLEAN, ver : Nat, times : Nat, settled : BOOLEAN,
   reply : {"none", "ok", "collision", "conflict", "invalid", "failed"}]

TypeOK ==
  /\ IsStock(server)
  /\ \A s \in {q.data, q.snap} : s = NoData \/ IsStock(s)
  /\ calls \in Seq(Call)
  /\ addDraft \in Names \cup {""}
  /\ editor = NoEditor \/ editor \in [id : Ids, was : Row, name : Names, amount : Amounts,
                                      typed : SUBSET Fields]
  /\ observed \in 0 .. Len(calls) /\ dialog \in Ids \cup {NoRow} /\ away \in BOOLEAN
  /\ others \in 0 .. MaxOthers /\ owed \in Nat

\* The table is shown: the list was fetched, and the last fetch did not fail.
ShownIds      == DOMAIN q.data.rows
Shown         == ~away /\ q.data # NoData /\ ~q.failed
Pending(kind) == \E c \in DOMAIN calls : calls[c].kind = kind /\ ~calls[c].settled /\ calls[c].here

-----------------------------------------------------------------------------
NewCall(kind) ==
  [kind |-> kind, id |-> 0, name |-> "", fields |-> {}, here |-> TRUE, ver |-> 0,
   times |-> 0, settled |-> FALSE, reply |-> "none"]

\* A cook of the first row that is still under way when this screen opens.
Cooking == [NewCall("cook") EXCEPT !.id = 1, !.here = FALSE]

Init ==
  /\ server = [ver |-> 0, rows |-> [i \in {1} |-> [name |-> CHOOSE n \in Names : TRUE,
                                                   amount |-> 0]]]
  /\ q = Fetch(NewQuery)
  /\ calls \in {<<>>} \cup (IF "cook" \in Offered THEN {<<Cooking>>} ELSE {})
  /\ addDraft = "" /\ editor = NoEditor /\ observed = 0 /\ dialog = NoRow
  /\ away = FALSE /\ others = 0 /\ owed = 0

Send(call) ==
  /\ Len(calls) < MaxCalls /\ call.kind \in Offered
  /\ calls' = Append(calls, call)

-----------------------------------------------------------------------------
(* The add form.                                                           *)

TypeAdd(name) ==
  /\ "add" \in Offered /\ ~away /\ addDraft = ""
  /\ addDraft' = name
  /\ UNCHANGED <<server, q, calls, editor, observed, dialog, away, others, owed>>

OnAdd ==
  /\ addDraft # "" /\ ~Pending("add")
  /\ Send([NewCall("add") EXCEPT !.name = addDraft])
  /\ UNCHANGED <<server, q, formVars, others, owed>>

\* A saved row empties the form and asks for the list, a conflict only asks; any
\* other error leaves the draft for the next try.
AddAnswered(call) ==
  /\ addDraft' = IF call.here /\ call.reply = "ok" THEN "" ELSE addDraft
  /\ q' = IF call.reply \in {"ok", "conflict"} THEN MarkStale(q, ~away) ELSE q
  /\ UNCHANGED <<editor, observed, dialog>>

-----------------------------------------------------------------------------
(* The editor panel.                                                       *)

\* Mutant: the panel keeps what it showed of its last call.
OpenEditAsLeft(i) ==
  /\ "edit" \in Offered /\ Shown /\ i \in ShownIds
  /\ editor' = [id |-> i, was |-> q.data.rows[i], name |-> q.data.rows[i].name,
                amount |-> q.data.rows[i].amount, typed |-> {}]
  /\ UNCHANGED <<server, q, calls, observed, addDraft, dialog, away, others, owed>>

\* openEdit: the panel forgets its last call, and keeps the row it was opened on.
OpenEdit(i) ==
  /\ "edit" \in Offered /\ Shown /\ i \in ShownIds
  /\ editor' = [id |-> i, was |-> q.data.rows[i], name |-> q.data.rows[i].name,
                amount |-> q.data.rows[i].amount, typed |-> {}]
  /\ observed' = 0
  /\ UNCHANGED <<server, q, calls, addDraft, dialog, away, others, owed>>

CloseEdit ==
  /\ editor # NoEditor
  /\ editor' = NoEditor
  /\ UNCHANGED <<server, q, calls, observed, addDraft, dialog, away, others, owed>>

Type(f, value) ==
  /\ editor # NoEditor /\ editor[f] # value
  /\ editor' = [editor EXCEPT ![f] = value, !.typed = @ \cup {f}]
  /\ UNCHANGED <<server, q, calls, observed, addDraft, dialog, away, others, owed>>

\* Mutant: the draft is compared with the row as the table shows it now.
MovedOffShown(e) ==
  {f \in Fields : e.id \in ShownIds => e[f] # q.data.rows[e.id][f]}

\* diffEditDraft: the draft against the row the panel was opened on.
Moved(e) == {f \in Fields : e[f] # e.was[f]}

SubmitEdit ==
  /\ editor # NoEditor
  /\ observed # 0 => calls[observed].settled
  /\ IF Moved(editor) = {}
     THEN editor' = NoEditor /\ UNCHANGED <<calls, observed>>
     ELSE /\ Send([NewCall("edit") EXCEPT !.id = editor.id, !.name = editor.name,
                                          !.fields = Moved(editor)])
          /\ observed' = Len(calls')
          /\ UNCHANGED editor
  /\ UNCHANGED <<server, q, addDraft, dialog, away, others, owed>>

\* A saved edit, or a conflict over stock, closes whatever editor is open and asks
\* for the list; a name collision and a 422 are shown in the panel.
EditAnswered(call) ==
  /\ editor' = IF call.here /\ call.reply \in {"ok", "conflict"} THEN NoEditor ELSE editor
  /\ q' = IF call.reply \in {"ok", "conflict"} THEN MarkStale(q, ~away) ELSE q
  /\ UNCHANGED <<addDraft, observed, dialog>>

\* What the panel shows of a call: the collision at the name, or a 422.
PanelError == IF observed = 0 THEN "none"
              ELSE IF calls[observed].settled THEN calls[observed].reply ELSE "none"

-----------------------------------------------------------------------------
(* The delete dialog.                                                      *)

OpenDialog(i) ==
  /\ "delete" \in Offered /\ Shown /\ i \in ShownIds /\ dialog = NoRow
  /\ dialog' = i
  /\ UNCHANGED <<server, q, calls, addDraft, editor, observed, away, others, owed>>

CloseDialog ==
  /\ dialog # NoRow /\ dialog' = NoRow
  /\ UNCHANGED <<server, q, calls, addDraft, editor, observed, away, others, owed>>

Confirm ==
  /\ dialog # NoRow /\ ~Pending("delete")
  /\ Send([NewCall("delete") EXCEPT !.id = dialog])
  /\ UNCHANGED <<server, q, formVars, others, owed>>

\* Mutant: the dialog closes, and the table stays as it was.
DeleteCloses(call) ==
  /\ dialog' = IF call.here THEN NoRow ELSE dialog
  /\ UNCHANGED <<q, addDraft, editor, observed>>

\* The dialog closes whatever the answer; after an error the list is not asked for.
DeleteAnswered(call) ==
  /\ dialog' = IF call.here THEN NoRow ELSE dialog
  /\ q' = IF call.reply = "ok" THEN MarkStale(q, ~away) ELSE q
  /\ UNCHANGED <<addDraft, editor, observed>>

\* invalidateStockViews, on the recipe's screen.
CookAnswered(call) ==
  /\ q' = IF call.reply \in {"ok", "conflict"} THEN MarkStale(q, ~away) ELSE q
  /\ UNCHANGED <<addDraft, editor, observed, dialog>>

-----------------------------------------------------------------------------
(* The server and the rest of the household.                               *)

NextId(rows) == IF DOMAIN rows = {} THEN 1 ELSE 1 + Max(DOMAIN rows)
Holders(rows, name) == {i \in DOMAIN rows : rows[i].name = name}

\* The additive upsert on the match name.
Upsert(s, name) ==
  [ver |-> s.ver + 1,
   rows |-> IF Holders(s.rows, name) # {}
            THEN [i \in DOMAIN s.rows |-> IF s.rows[i].name = name
                                          THEN [s.rows[i] EXCEPT !.amount = @ + 1] ELSE s.rows[i]]
            ELSE [i \in DOMAIN s.rows \cup {NextId(s.rows)} |->
                    IF i \in DOMAIN s.rows THEN s.rows[i]
                    ELSE [name |-> name, amount |-> 1]]]

Without(s, id) ==
  [ver |-> s.ver + 1, rows |-> [i \in DOMAIN s.rows \ {id} |-> s.rows[i]]]

Patched(s, id, fields, name, amount) ==
  [ver |-> s.ver + 1,
   rows |-> [s.rows EXCEPT ![id].name = IF "name" \in fields THEN name ELSE @,
                           ![id].amount = IF "amount" \in fields THEN amount ELSE @]]

\* What a cook takes, no more than there is.
Used(s, id) ==
  [ver |-> s.ver + 1,
   rows |-> [i \in DOMAIN s.rows |-> IF i = id /\ s.rows[i].amount > 0
                                     THEN [s.rows[i] EXCEPT !.amount = @ - 1] ELSE s.rows[i]]]

Refused(call) ==
  IF call.kind \in {"edit", "delete"} /\ call.id \notin DOMAIN server.rows THEN "failed"
  ELSE IF /\ call.kind = "edit" /\ "name" \in call.fields
          /\ Holders(server.rows, call.name) \ {call.id} # {} THEN "collision"
  ELSE "no"

EffectOf(call) ==
  CASE call.kind = "add"    -> Upsert(server, call.name)
    [] call.kind = "edit"   -> Patched(server, call.id, call.fields, call.name, Typed)
    [] call.kind = "delete" -> Without(server, call.id)
    [] call.kind = "cook"   -> Used(server, call.id)

Serve(c) ==
  /\ calls[c].reply = "none"
  /\ IF Refused(calls[c]) = "no"
     THEN /\ server' = EffectOf(calls[c])
          /\ calls' = [calls EXCEPT ![c].reply = "ok", ![c].ver = server'.ver, ![c].times = @ + 1]
     ELSE calls' = [calls EXCEPT ![c].reply = Refused(calls[c])] /\ UNCHANGED server
  /\ UNCHANGED <<q, formVars, others, owed>>

\* A busy database answers 409 "conflict", and a 422 is for the server to find.
Busy(c) ==
  /\ calls[c].reply = "none" /\ calls[c].kind # "delete"
  /\ \E r \in {"conflict", "invalid"} : calls' = [calls EXCEPT ![c].reply = r]
  /\ UNCHANGED <<server, q, formVars, others, owed>>

\* Mutant: a write that got no answer is sent again, as a query is.
RetryAsQuery(call) == call.times < 2

RetryMutation(call) == FALSE

\* A call, or its answer, is lost; no write is sent again by itself.
Lose(c) ==
  /\ calls[c].reply \in {"none", "ok"} /\ ~calls[c].settled
  /\ calls' = [calls EXCEPT ![c].reply = IF RetryMutation(calls[c]) THEN "none" ELSE "failed"]
  /\ UNCHANGED <<server, q, formVars, others, owed>>

OthersAct ==
  /\ others < MaxOthers /\ others' = others + 1
  /\ \/ "add" \in Others /\ \E name \in Names : server' = Upsert(server, name)
     \/ "delete" \in Others /\ \E i \in DOMAIN server.rows : server' = Without(server, i)
     \/ /\ "edit" \in Others
        /\ \E i \in DOMAIN server.rows : server' = Patched(server, i, {"amount"}, "", Theirs)
  /\ UNCHANGED <<q, calls, formVars, owed>>

-----------------------------------------------------------------------------
(* Answers, and the query.                                                 *)

\* A write told when a GET is under way that was read before it and that nothing
\* drops: nobody observes the entry, or the GET is the first one.
Missed(ver) == q.phase = "read" /\ q.snap.ver < ver /\ (away \/ q.data = NoData)

Answer(c) ==
  LET call == calls[c]
  IN /\ call.reply # "none" /\ ~call.settled
     /\ calls' = [calls EXCEPT ![c].settled = TRUE]
     /\ owed' = IF call.reply = "ok" /\ call.ver > owed /\ ~Missed(call.ver) THEN call.ver ELSE owed
     /\ \/ call.kind = "add" /\ AddAnswered(call)
        \/ call.kind = "edit" /\ EditAnswered(call)
        \/ call.kind = "delete" /\ DeleteAnswered(call)
        \/ call.kind = "cook" /\ CookAnswered(call)
     /\ UNCHANGED <<server, away, others>>

ReadList ==
  /\ q.phase = "asked" /\ q' = ReadAs(q, server)
  /\ UNCHANGED <<server, calls, formVars, others, owed>>

ListArrives ==
  /\ q.phase = "read" /\ q' = Deliver(q)
  /\ UNCHANGED <<server, calls, formVars, others, owed>>

ListLost ==
  /\ Fetching(q) /\ q' = Fail(q)
  /\ UNCHANGED <<server, calls, formVars, others, owed>>

\* The Retry button, or the screen is back online.
Retry ==
  /\ ~away /\ ~Fetching(q) /\ q' = Fetch(q)
  /\ UNCHANGED <<server, calls, formVars, others, owed>>

\* The screen is unmounted: its forms are gone, its calls and the GET go on.
Leave ==
  /\ ~away /\ away' = TRUE
  /\ calls' = [c \in DOMAIN calls |-> [calls[c] EXCEPT !.here = FALSE]]
  /\ addDraft' = "" /\ editor' = NoEditor /\ observed' = 0 /\ dialog' = NoRow
  /\ UNCHANGED <<server, q, others, owed>>

\* Mutant: a list that was fetched before is fresh enough.
VisitUnasked ==
  /\ away /\ away' = FALSE
  /\ q' = IF q.data = NoData THEN Fetch(q) ELSE q
  /\ UNCHANGED <<server, calls, addDraft, editor, observed, dialog, others, owed>>

\* It is opened again, and asks for the stock unless a GET is still under way.
Visit ==
  /\ away /\ away' = FALSE
  /\ q' = Fetch(q)
  /\ UNCHANGED <<server, calls, addDraft, editor, observed, dialog, others, owed>>

-----------------------------------------------------------------------------
Next ==
  \/ \E name \in Names : TypeAdd(name) \/ Type("name", name)
  \/ OnAdd \/ CloseEdit \/ SubmitEdit \/ Type("amount", Typed)
  \/ \E i \in Ids : OpenEdit(i) \/ OpenDialog(i)
  \/ CloseDialog \/ Confirm
  \/ \E c \in DOMAIN calls : Serve(c) \/ Busy(c) \/ Lose(c) \/ Answer(c)
  \/ ReadList \/ ListArrives \/ ListLost \/ Retry \/ Leave \/ Visit \/ OthersAct

Spec == Init /\ [][Next]_vars

-----------------------------------------------------------------------------
(* Properties.                                                             *)

AtRest == Shown /\ ~Fetching(q) /\ \A c \in DOMAIN calls : calls[c].settled

\* Whatever order the answers come in, and whether the member stays or leaves, a
\* screen at rest shows every write it was told of, but for those Missed.
RestShowsTold == AtRest => q.data.ver >= owed

\* queryClient.ts: a write is never sent again by itself, so that no click adds or
\* removes twice, however often answers are lost.
AppliedOnce == \A c \in DOMAIN calls : calls[c].times <= 1

\* The panel never shows one row's collision or refusal on the form of another.
ErrorIsOwn ==
  editor # NoEditor /\ PanelError \in {"collision", "invalid"} => calls[observed].id = editor.id

\* However stale the row the panel was opened on, a PATCH carries only fields this
\* member typed into: what a housemate changed since stays.
OnlyTypedSent ==
  [][Len(calls') > Len(calls) /\ calls'[Len(calls')].kind = "edit" =>
       calls'[Len(calls')].fields \subseteq editor.typed]_vars
=============================================================================

---------------------------- MODULE GroceryScreen ----------------------------
(***************************************************************************)
(* The screen of one grocery list, on a phone in the store: optimistic     *)
(* ticks, the line editor, the add form, submit and archive.  Its calls    *)
(* run side by side and are answered in any order, or not at all; other    *)
(* members of the household change the list at the same time.              *)
(***************************************************************************)
EXTENDS QueryCache, Naturals, Sequences, SequencesExt, FiniteSets

CONSTANTS
  Lines,      \* the lines of the list
  Offered,    \* the operations the member at this screen uses
  Others,     \* the operations the rest of the household uses
  MaxCalls,   \* bound on the calls this screen makes
  MaxOthers   \* bound on the changes the others make

Kinds == {"tick", "edit", "add", "submit", "archive"}

VARIABLES
  server,    \* the list as the server has it
  q,         \* the screen's entry of the query cache
  calls,     \* the mutations sent so far, in the order of their clicks
  editor,    \* the line being edited with its draft, or NoEditor
  saving,    \* the edit call the Save button waits for, or 0
  addDraft,  \* whether the add form has text
  dialogs,   \* the confirmation dialogs that are open
  away,      \* the member is at another screen, and nobody observes the list
  others,    \* how many changes the others have made
  owed,      \* history: the newest version a call was told of, but for those Missed
  undone     \* history: a failed tick rewrote the list after the last fetch

serverVars == <<server, others>>
formVars   == <<editor, saving, addDraft, dialogs, away>>
histVars   == <<owed, undone>>
vars       == <<server, q, calls, formVars, others, histVars>>

\* A field of a line holds the text of the list's start, or what this member or
\* somebody else put there; "bad" is a draft the form refuses.
Texts    == {"old", "mine", "theirs"}
Fields   == {"item", "amount"}    \* amount: the pair of quantity and unit
Line     == [item : Texts, amount : Texts, checked : BOOLEAN, frozen : BOOLEAN]
List     == [ver : Nat, status : {"active", "archived", "gone"},
             lines : [Lines -> Line], added : Nat]
NoEditor == [line |-> "none"]
Typed    == [f \in Fields |-> IF f = "item" THEN {"mine", "bad"} ELSE {"mine"}]
Draft    == [Fields -> Texts \cup {"bad"}]
Same     == "same"                \* a field the PATCH leaves out
Patch    == [Fields -> Texts \cup {Same}]

Call ==
  [kind : Kinds, line : Lines \cup {"none"}, checked : BOOLEAN, body : Patch,
   previous : List \cup {NoData}, here : BOOLEAN, ver : Nat,
   reply : {"none", "ok", "inactive", "conflict", "failed", "done"}]

TypeOK ==
  /\ server \in List
  /\ IsQuery(q, List)
  /\ calls \in Seq(Call)
  /\ editor \in {NoEditor} \cup [line : Lines, draft : Draft]
  /\ saving \in 0 .. Len(calls)
  /\ addDraft \in BOOLEAN /\ away \in BOOLEAN
  /\ dialogs \subseteq {"submit", "archive"}
  /\ others \in 0 .. MaxOthers /\ owed \in Nat /\ undone \in BOOLEAN

\* The screen that was opened again waits for its own calls alone.
Pending(kind) ==
  \E c \in DOMAIN calls : calls[c].kind = kind /\ calls[c].here /\ calls[c].reply # "done"

\* The list is rendered: it was fetched, and the last fetch did not fail.
Shown  == ~away /\ q.data # NoData /\ ~q.failed
Active == Shown /\ q.data.status = "active"

-----------------------------------------------------------------------------
Init ==
  /\ server = [ver |-> 0, status |-> "active", added |-> 0,
               lines |-> [l \in Lines |-> [item |-> "old", amount |-> "old",
                                           checked |-> FALSE, frozen |-> FALSE]]]
  /\ q = Fetch(NewQuery)
  /\ calls = <<>> /\ editor = NoEditor /\ saving = 0 /\ addDraft = FALSE
  /\ dialogs = {} /\ away = FALSE /\ others = 0 /\ owed = 0 /\ undone = FALSE

NewCall(kind, line) ==
  [kind |-> kind, line |-> line, checked |-> FALSE, previous |-> NoData, here |-> TRUE,
   body |-> [f \in Fields |-> Same], ver |-> 0, reply |-> "none"]

Send(call) ==
  /\ Len(calls) < MaxCalls /\ call.kind \in Offered
  /\ calls' = Append(calls, call)

-----------------------------------------------------------------------------
(* Ticks.                                                                  *)

Flipped(list, l) == [list EXCEPT !.lines[l].checked = ~@]

\* toggle and onMutate: cancel the refetch under way, remember the whole list,
\* flip the line on the screen.
Toggle(l) ==
  /\ Active /\ ~q.data.lines[l].frozen
  /\ Send([NewCall("tick", l) EXCEPT !.checked = ~q.data.lines[l].checked,
                                     !.previous = q.data])
  /\ q' = Prime(Cancel(q), Flipped(q.data, l))
  /\ UNCHANGED <<serverVars, formVars, histVars>>

\* Mutant: a tick that was saved does not ask for the list again.
TickSettles(call) ==
  IF call.reply = "ok" THEN UNCHANGED <<q, undone>>
  ELSE q' = Prime(q, call.previous) /\ undone' = TRUE

\* onSuccess, or onError: the remembered list comes back as a whole.
TickAnswered(call) ==
  IF call.reply = "ok" THEN q' = MarkStale(q, ~away) /\ UNCHANGED undone
  ELSE q' = Prime(q, call.previous) /\ undone' = TRUE

-----------------------------------------------------------------------------
(* The line editor.                                                        *)

\* One line edits at a time; opening it takes the editor away from another line
\* and forgets the call the Save button waited for.
StartEdit(l) ==
  /\ "edit" \in Offered
  /\ Active /\ ~q.data.lines[l].frozen
  /\ editor.line # l
  /\ editor' = [line |-> l, draft |-> [f \in Fields |-> q.data.lines[l][f]]]
  /\ saving' = 0
  /\ UNCHANGED <<q, calls, addDraft, dialogs, away, serverVars, histVars>>

CancelEdit ==
  /\ Shown /\ editor # NoEditor
  /\ editor' = NoEditor /\ saving' = 0
  /\ UNCHANGED <<q, calls, addDraft, dialogs, away, serverVars, histVars>>

Type(f, text) ==
  /\ Shown /\ editor # NoEditor /\ editor.draft[f] # text
  /\ editor' = [editor EXCEPT !.draft[f] = text]
  /\ UNCHANGED <<q, calls, saving, addDraft, dialogs, away, serverVars, histVars>>

\* buildEditPatch: the draft against the line as the screen shows it now.
PatchOf(line, draft) == [f \in Fields |-> IF draft[f] = line[f] THEN Same ELSE draft[f]]

IsEmpty(patch) == \A f \in Fields : patch[f] = Same

\* Mutant: the draft is sent as it was typed.
ValidAnyway(draft) == draft \in Draft

Valid(draft) == \A f \in Fields : draft[f] # "bad"

\* submitEdit: an invalid draft goes nowhere, an unchanged one closes the editor.
Save ==
  /\ Shown /\ editor # NoEditor /\ saving = 0 /\ Valid(editor.draft)
  /\ LET patch == PatchOf(q.data.lines[editor.line], editor.draft)
     IN IF IsEmpty(patch)
        THEN editor' = NoEditor /\ UNCHANGED <<calls, saving>>
        ELSE /\ Send([NewCall("edit", editor.line) EXCEPT !.body = patch])
             /\ saving' = Len(calls')
             /\ UNCHANGED editor
  /\ UNCHANGED <<q, addDraft, dialogs, away, serverVars, histVars>>

\* A saved edit, and both 409s, close whatever editor is open and ask for the list
\* again; any other error is shown, and the editor stays.
EditAnswered(call) ==
  IF call.reply \in {"ok", "inactive", "conflict"}
  THEN /\ q' = MarkStale(q, ~away)
       /\ editor' = IF call.here THEN NoEditor ELSE editor
  ELSE UNCHANGED <<q, editor>>

-----------------------------------------------------------------------------
(* The add form, submit and archive.                                       *)

TypeAdd ==
  /\ "add" \in Offered /\ Active /\ ~addDraft
  /\ addDraft' = TRUE
  /\ UNCHANGED <<q, calls, editor, saving, dialogs, away, serverVars, histVars>>

SubmitAdd ==
  /\ Active /\ addDraft /\ ~Pending("add")
  /\ Send(NewCall("add", "none"))
  /\ UNCHANGED <<q, formVars, serverVars, histVars>>

\* Mutant: a line that was added is not asked for.
AddClears(call) == UNCHANGED q /\ addDraft' = (addDraft /\ ~(call.here /\ call.reply = "ok"))

AddAnswered(call) ==
  IF call.reply = "ok"
  THEN q' = MarkStale(q, ~away) /\ addDraft' = (addDraft /\ ~call.here)
  ELSE UNCHANGED <<q, addDraft>>

OpenDialog(kind) ==
  /\ Active /\ kind \in Offered \cap {"submit", "archive"} /\ dialogs = {}
  /\ dialogs' = {kind}
  /\ UNCHANGED <<q, calls, editor, saving, addDraft, away, serverVars, histVars>>

CloseDialog(kind) ==
  /\ Shown /\ kind \in dialogs
  /\ dialogs' = dialogs \ {kind}
  /\ UNCHANGED <<q, calls, editor, saving, addDraft, away, serverVars, histVars>>

\* The dialog's own button, disabled while its call is under way.
Confirm(kind) ==
  /\ Shown /\ kind \in dialogs /\ ~Pending(kind)
  /\ Send(NewCall(kind, "none"))
  /\ UNCHANGED <<q, formVars, serverVars, histVars>>

\* Both close their dialog whatever the answer; only submit takes every 409 for a
\* reason to ask for the list again.
SubmitAnswered(call) ==
  /\ dialogs' = IF call.here THEN dialogs \ {"submit"} ELSE dialogs
  /\ q' = IF call.reply \in {"ok", "inactive", "conflict"} THEN MarkStale(q, ~away) ELSE q

ArchiveAnswered(call) ==
  /\ dialogs' = IF call.here THEN dialogs \ {"archive"} ELSE dialogs
  /\ q' = IF call.reply \in {"ok", "inactive"} THEN MarkStale(q, ~away) ELSE q

-----------------------------------------------------------------------------
(* The server and the rest of the household.                               *)

Bump(list) == [list EXCEPT !.ver = @ + 1]

\* A line of an archived list is refused in the words for a frozen one.
ClosedFor(call) ==
  IF server.status = "gone" THEN "failed"
  ELSE IF call.kind \in {"tick", "edit"}
       THEN IF server.status = "archived" \/ server.lines[call.line].frozen THEN "conflict" ELSE "no"
  ELSE IF server.status = "archived" THEN "inactive" ELSE "no"

Ticked(list, l, v) == [list EXCEPT !.lines[l].checked = v]
Edited(list, l, patch) ==
  [list EXCEPT !.lines[l].item = IF patch.item = Same THEN @ ELSE patch.item,
               !.lines[l].amount = IF patch.amount = Same THEN @ ELSE patch.amount]
Bought(list) ==
  [list EXCEPT !.lines = [l \in Lines |-> [list.lines[l] EXCEPT !.frozen = @ \/ list.lines[l].checked]]]

EffectOf(call) ==
  Bump(CASE call.kind = "tick"    -> Ticked(server, call.line, call.checked)
         [] call.kind = "edit"    -> Edited(server, call.line, call.body)
         [] call.kind = "add"     -> [server EXCEPT !.added = @ + 1]
         [] call.kind = "submit"  -> Bought(server)
         [] call.kind = "archive" -> [server EXCEPT !.status = "archived"])

Reply(c, reply, ver) ==
  calls' = [calls EXCEPT ![c].reply = reply, ![c].ver = ver]

Serve(c) ==
  /\ calls[c].reply = "none"
  /\ IF ClosedFor(calls[c]) = "no"
     THEN server' = EffectOf(calls[c]) /\ Reply(c, "ok", server'.ver)
     ELSE Reply(c, ClosedFor(calls[c]), 0) /\ UNCHANGED server
  /\ UNCHANGED <<q, formVars, others, histVars>>

\* The 409 of a busy database, which a submit and an edit tell from other errors; any
\* other error: a call that never got there, a validation error, a 5xx, or the lost
\* answer of a call that took effect.
Miss(c) ==
  /\ \/ calls[c].reply = "none" /\ calls[c].kind \in {"submit", "edit"} /\ Reply(c, "conflict", 0)
     \/ calls[c].reply \in {"none", "ok"} /\ Reply(c, "failed", 0)
  /\ UNCHANGED <<server, q, formVars, others, histVars>>

\* Somebody else's ticks, corrections, submit, archive or deletion of the list.
OthersChange(list) ==
  {Ticked(list, l, ~list.lines[l].checked) : l \in {m \in Lines : "tick" \in Others /\ ~list.lines[m].frozen}}
  \cup {Edited(list, l, [item |-> Same, amount |-> "theirs"]) :
          l \in {m \in Lines : "edit" \in Others /\ ~list.lines[m].frozen}}
  \cup (IF "submit" \in Others THEN {Bought(list)} ELSE {})
  \cup (IF "archive" \in Others THEN {[list EXCEPT !.status = "archived"]} ELSE {})

OthersAct ==
  /\ others < MaxOthers /\ others' = others + 1
  /\ \/ server.status = "active" /\ \E list \in OthersChange(server) : server' = Bump(list)
     \/ /\ "delete" \in Others /\ server.status # "gone"
        /\ server' = Bump([server EXCEPT !.status = "gone"])
  /\ UNCHANGED <<q, calls, formVars, histVars>>

-----------------------------------------------------------------------------
(* Answers, and the query.                                                 *)

\* A write told while nobody observes the list, and a GET is under way that was read
\* before it: nothing drops that GET, and the screen that opens again joins it.
Missed(ver) == away /\ q.phase = "read" /\ q.snap.ver < ver

Answer(c) ==
  LET call == calls[c]
  IN /\ call.reply \notin {"none", "done"}
     /\ calls' = [calls EXCEPT ![c] = [NewCall(call.kind, "none") EXCEPT !.reply = "done"]]
     /\ saving' = IF saving = c THEN 0 ELSE saving
     /\ owed' = IF call.ver > owed /\ ~Missed(call.ver) THEN call.ver ELSE owed
     /\ \/ call.kind = "tick" /\ TickAnswered(call) /\ UNCHANGED <<editor, addDraft, dialogs>>
        \/ call.kind = "edit" /\ EditAnswered(call) /\ UNCHANGED <<addDraft, dialogs, undone>>
        \/ call.kind = "add" /\ AddAnswered(call) /\ UNCHANGED <<editor, dialogs, undone>>
        \/ call.kind = "submit" /\ SubmitAnswered(call) /\ UNCHANGED <<editor, addDraft, undone>>
        \/ call.kind = "archive" /\ ArchiveAnswered(call) /\ UNCHANGED <<editor, addDraft, undone>>
     /\ UNCHANGED <<away, serverVars>>

ReadList ==
  /\ q.phase = "asked"
  /\ q' = IF server.status = "gone" THEN Fail(q) ELSE ReadAs(q, server)
  /\ UNCHANGED <<calls, formVars, serverVars, histVars>>

ListArrives ==
  /\ q.phase = "read"
  /\ q' = Deliver(q) /\ undone' = FALSE
  /\ UNCHANGED <<calls, formVars, serverVars, owed>>

ListLost ==
  /\ Fetching(q)
  /\ q' = Fail(q)
  /\ UNCHANGED <<calls, formVars, serverVars, histVars>>

\* The Retry button of the error panel; the phone is online again.
Retry ==
  /\ ~away /\ ~Shown /\ ~Fetching(q)
  /\ q' = Refetch(q)
  /\ UNCHANGED <<calls, formVars, serverVars, histVars>>

Reconnect ==
  /\ ~away /\ ~Fetching(q)
  /\ q' = Fetch(q)
  /\ UNCHANGED <<calls, formVars, serverVars, histVars>>

\* The screen is unmounted: its forms are gone, its calls and the GET go on.
Leave ==
  /\ ~away /\ away' = TRUE
  /\ calls' = [c \in DOMAIN calls |-> [calls[c] EXCEPT !.here = @ /\ calls[c].reply = "done"]]
  /\ editor' = NoEditor /\ saving' = 0 /\ addDraft' = FALSE /\ dialogs' = {}
  /\ UNCHANGED <<q, serverVars, histVars>>

\* Mutant: a list that was fetched before is fresh enough.
VisitUnasked ==
  /\ away /\ away' = FALSE
  /\ q' = IF q.data = NoData THEN Fetch(q) ELSE q
  /\ UNCHANGED <<calls, editor, saving, addDraft, dialogs, serverVars, histVars>>

\* It is opened again, and asks for the list unless a GET is still under way.
Visit ==
  /\ away /\ away' = FALSE
  /\ q' = Fetch(q)
  /\ UNCHANGED <<calls, editor, saving, addDraft, dialogs, serverVars, histVars>>

-----------------------------------------------------------------------------
Network == \E c \in DOMAIN calls : Serve(c) \/ Miss(c) \/ Answer(c)
Query   == ReadList \/ ListArrives \/ ListLost

Next ==
  \/ \E l \in Lines : Toggle(l) \/ StartEdit(l)
  \/ CancelEdit \/ Save
  \/ \E f \in Fields : \E text \in Typed[f] : Type(f, text)
  \/ TypeAdd \/ SubmitAdd
  \/ \E kind \in {"submit", "archive"} : OpenDialog(kind) \/ CloseDialog(kind) \/ Confirm(kind)
  \/ Network \/ Query \/ OthersAct
  \/ Retry \/ Reconnect \/ Leave \/ Visit

Spec == Init /\ [][Next]_vars

\* Requests settle and the query's fetches come to an end.
FairSpec == Spec /\ WF_vars(Network) /\ WF_vars(Query)

-----------------------------------------------------------------------------
(* Properties.                                                             *)

Quiet == Shown /\ ~Fetching(q) /\ \A c \in DOMAIN calls : calls[c].reply = "done"

\* However ticks, edits, additions and submits overlap and cancel each other's
\* refetches, and whether the member stays or leaves, a screen at rest shows every
\* write it was told of (but for those Missed) and no tick of its own making, unless
\* the last thing that happened to it is a failed tick.
RestIsTrue ==
  Quiet /\ ~undone =>
    /\ q.data.ver >= owed
    /\ q.data.ver = server.ver => q.data = server

\* A write the screen was told of comes to be seen while it is open, or the error
\* panel says that the list could not be fetched: a cancelled refetch is made up for,
\* and so is an invalidation while the member was away, unless it was Missed.
WritesComeToBeSeen ==
  (q.data # NoData /\ q.data.ver < owed) ~> (~Shown \/ q.data.ver >= owed \/ undone)
=============================================================================

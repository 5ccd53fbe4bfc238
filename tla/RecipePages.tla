---------------------------- MODULE RecipePages ----------------------------
(***************************************************************************)
(* The pages of one recipe: its detail page, its editor, and the list they *)
(* return to.  Both pages show one entry of the query cache; a save primes *)
(* it with the answer, and a background fetch may be under way meanwhile.  *)
(* Saves and deletions outlive the page they were clicked on: the member   *)
(* may go elsewhere, or open the same page again, before the answer.       *)
(*                                                                         *)
(* A text of the recipe is the set of the edits it contains; a save        *)
(* replaces the whole text.                                                *)
(***************************************************************************)
EXTENDS QueryCache, Naturals, Sequences

CONSTANTS MaxCalls, MaxOthers, MaxFaults, MaxVisits
  \* bounds on the saves and deletions, on the edits of others, on the failures, and on
  \* the pages opened

ASSUME BoundsAssumption ==
  MaxCalls \in Nat /\ MaxOthers \in Nat /\ MaxFaults \in Nat /\ MaxVisits \in Nat \ {0}

VARIABLES
  server,   \* the stored recipe, its version and its text, or NoData once deleted
  q,        \* the entry ["recipe", id]
  missing,  \* the last fetch was answered 404
  page,     \* the page shown: "list", "detail" or "edit"
  editor,   \* the draft of the editor, or NoEditor while none is rendered
  dialog,   \* the delete dialog is open
  calls,    \* the saves and deletions clicked so far
  edits,    \* the edits typed by anybody
  visits,   \* the number of the page shown, counted as they are opened
  others, faults,
  told, raced  \* history: the version of the last save answered, and whether a fetch
               \* was under way at an answer

pageVars == <<page, editor, dialog, visits>>
vars     == <<server, q, missing, pageVars, calls, edits, others, faults, told, raced>>

Versions == 1 .. (1 + MaxCalls + MaxOthers)
Edits    == 1 .. (MaxCalls + MaxOthers + MaxVisits)
Stored   == [ver : Versions, text : SUBSET Edits]
NoEditor == [visit |-> 0]

ASSUME NoDataAssumption == NoData \notin Stored

TypeOK ==
  /\ server \in Stored \cup {NoData} /\ IsQuery(q, Stored)
  /\ missing \in BOOLEAN /\ (missing => q.failed)
  /\ page \in {"list", "detail", "edit"} /\ dialog \in BOOLEAN /\ (dialog => page = "detail")
  /\ editor = NoEditor \/ (page = "edit" /\ editor.visit = visits /\ editor.text \subseteq Edits)
  /\ \A c \in DOMAIN calls : calls[c].phase \in {"asked", "answered", "settled"}
  /\ \A c, d \in DOMAIN calls :    \* the button is disabled while its call is pending
       calls[c].visit = calls[d].visit /\ calls[c].phase # "settled" /\ calls[d].phase # "settled"
         => c = d
  /\ edits \in Edits \cup {0} /\ visits \in 1 .. MaxVisits
  /\ told \in Versions \cup {0} /\ raced \in BOOLEAN

-----------------------------------------------------------------------------
(* What is rendered.                                                       *)

\* A failed fetch takes the page's place, also when there is data; loading is shown
\* before the first answer only.
Loaded(entry) == entry.data # NoData /\ ~entry.failed

\* Mutant: the button is free as soon as the server has answered.
PendingAsked(visit) == \E c \in DOMAIN calls : calls[c].visit = visit /\ calls[c].phase = "asked"

Pending(visit) == \E c \in DOMAIN calls : calls[c].visit = visit /\ calls[c].phase # "settled"

\* Mutant: the editor is seeded from every answer.
SeededAnew(to, visit, entry) ==
  IF to # "edit" \/ ~Loaded(entry) THEN NoEditor
  ELSE [visit |-> visit, text |-> entry.data.text]

\* The editor is seeded when it is first rendered and keeps its draft from then on.
Seeded(to, visit, entry) ==
  IF to # "edit" \/ ~Loaded(entry) THEN NoEditor
  ELSE IF editor # NoEditor /\ editor.visit = visit THEN editor
  ELSE [visit |-> visit, text |-> entry.data.text]

Rerendered(entry) == q' = entry /\ editor' = Seeded(page, visits, entry)

Init ==
  /\ server = [ver |-> 1, text |-> {}]
  /\ q = Fetch(NewQuery) /\ missing = FALSE
  /\ page \in {"detail", "edit"} /\ editor = NoEditor /\ dialog = FALSE
  /\ calls = <<>> /\ edits = 0 /\ visits = 1 /\ others = 0 /\ faults = 0
  /\ told = 0 /\ raced = FALSE

\* A page of the recipe is opened with the entry it finds, and fetches it.
Opened(to, entry) ==
  /\ page' = to /\ visits' = visits + 1 /\ dialog' = FALSE
  /\ q' = IF to = "list" THEN entry ELSE Fetch(entry)
  /\ editor' = Seeded(to, visits + 1, entry)

Visit(to) ==
  /\ visits < MaxVisits /\ to # page
  /\ Opened(to, q)
  /\ UNCHANGED <<server, missing, calls, edits, others, faults, told, raced>>

Retry ==
  /\ page # "list" /\ q.failed /\ ~missing
  /\ Rerendered(Refetch(q))
  /\ UNCHANGED <<server, missing, page, dialog, visits, calls, edits, others, faults, told, raced>>

-----------------------------------------------------------------------------
(* The member's edits, saves and deletions.                                *)

Type ==
  /\ editor # NoEditor /\ edits + 1 \in Edits
  /\ edits' = edits + 1
  /\ editor' = [editor EXCEPT !.text = @ \cup {edits + 1}]
  /\ UNCHANGED <<server, q, missing, page, dialog, visits, calls, others, faults, told, raced>>

Send(kind, text) ==
  /\ ~Pending(visits) /\ Len(calls) < MaxCalls
  /\ calls' = Append(calls, [kind |-> kind, text |-> text, visit |-> visits, phase |-> "asked",
                             ok |-> FALSE, ver |-> 0])
  /\ UNCHANGED <<server, q, missing, pageVars, edits, others, faults, told, raced>>

Save   == editor # NoEditor /\ Send("save", editor.text)
Delete == dialog /\ page = "detail" /\ Loaded(q) /\ Send("delete", {})

SetDialog ==
  /\ page = "detail" /\ Loaded(q)
  /\ dialog' = ~dialog
  /\ UNCHANGED <<server, q, missing, page, editor, visits, calls, edits, others, faults, told, raced>>

-----------------------------------------------------------------------------
(* The server.                                                             *)

\* update_recipe replaces the text, delete_recipe removes the recipe: a 404 without it.
Serve(c) ==
  /\ calls[c].phase = "asked"
  /\ server' = IF server = NoData \/ calls[c].kind = "delete" THEN NoData
               ELSE [ver |-> server.ver + 1, text |-> calls[c].text]
  /\ calls' = [calls EXCEPT ![c].phase = "answered", ![c].ok = server # NoData,
                            ![c].ver = IF server' = NoData THEN 0 ELSE server'.ver]
  /\ UNCHANGED <<q, missing, pageVars, edits, others, faults, told, raced>>

Lost(c) ==
  /\ calls[c].phase = "asked" \/ (calls[c].phase = "answered" /\ calls[c].ok)
  /\ faults < MaxFaults /\ faults' = faults + 1
  /\ calls' = [calls EXCEPT ![c].phase = "answered", ![c].ok = FALSE]
  /\ UNCHANGED <<server, q, missing, pageVars, edits, others, told, raced>>

OthersAct ==
  /\ server # NoData /\ others < MaxOthers /\ others' = others + 1
  /\ \/ /\ edits + 1 \in Edits /\ edits' = edits + 1
        /\ server' = [ver |-> server.ver + 1, text |-> server.text \cup {edits + 1}]
     \/ server' = NoData /\ UNCHANGED edits
  /\ UNCHANGED <<q, missing, pageVars, calls, faults, told, raced>>

Read ==
  /\ q.phase = "asked" /\ server # NoData
  /\ q' = ReadAs(q, server)
  /\ UNCHANGED <<server, missing, pageVars, calls, edits, others, faults, told, raced>>

Arrives ==
  /\ q.phase = "read"
  /\ Rerendered(Deliver(q)) /\ missing' = FALSE
  /\ UNCHANGED <<server, page, dialog, visits, calls, edits, others, faults, told, raced>>

\* A 404, or a failure after the last retry.
Fails ==
  /\ \/ q.phase = "asked" /\ server = NoData /\ missing' = TRUE /\ UNCHANGED faults
     \/ Fetching(q) /\ faults < MaxFaults /\ faults' = faults + 1 /\ missing' = FALSE
  /\ Rerendered(Fail(q))
  /\ UNCHANGED <<server, page, dialog, visits, calls, edits, others, told, raced>>

-----------------------------------------------------------------------------
(* The answers, wherever the member is by then.                            *)

Settle(c) == calls' = [calls EXCEPT ![c].phase = "settled"]

\* Mutant: the answer of a save is not kept.
Unprimed(c) == q

\* onSuccess: the answer is the recipe.
Primed(c) == Prime(q, [ver |-> calls[c].ver, text |-> calls[c].text])

\* A save that is answered leads to the recipe, a deletion to the list.
Done(c) ==
  /\ calls[c].phase = "answered" /\ calls[c].ok
  /\ Settle(c)
  /\ IF calls[c].kind = "save"
     THEN /\ missing' = FALSE
          /\ told' = calls[c].ver /\ raced' = (raced \/ Fetching(q))
          /\ IF page = "detail" THEN q' = Primed(c) /\ UNCHANGED pageVars
             ELSE visits < MaxVisits /\ Opened("detail", Primed(c))
     ELSE /\ IF page = "list" THEN UNCHANGED <<q, pageVars>>
             ELSE visits < MaxVisits /\ Opened("list", q)
          /\ UNCHANGED <<missing, told, raced>>
  /\ UNCHANGED <<server, edits, others, faults>>

\* A refusal or a failure is told, and the page stays; the dialog of its click closes.
Failed(c) ==
  /\ calls[c].phase = "answered" /\ ~calls[c].ok
  /\ Settle(c)
  /\ dialog' = (dialog /\ ~(calls[c].kind = "delete" /\ calls[c].visit = visits))
  /\ UNCHANGED <<server, q, missing, page, editor, visits, edits, others, faults, told, raced>>

Next ==
  \/ \E to \in {"list", "detail", "edit"} : Visit(to)
  \/ Retry \/ Type \/ Save \/ Delete \/ SetDialog
  \/ \E c \in DOMAIN calls : Serve(c) \/ Lost(c) \/ Done(c) \/ Failed(c)
  \/ OthersAct \/ Read \/ Arrives \/ Fails

Spec == Init /\ [][Next]_vars

-----------------------------------------------------------------------------
(* Properties.                                                             *)

\* While the editor of a visit is open its draft grows by what is typed, and by nothing
\* a fetch, another save or another member brings.
DraftIsTheMembers ==
  [][editor # NoEditor /\ editor'.visit = editor.visit /\ editor' # editor
       => \E e \in Edits : editor'.text = editor.text \cup {e} /\ edits' = e]_vars

\* What the pages show, and what an editor opened from then on starts with, is the last
\* save answered or something newer, unless a fetch was under way at an answer.
SavedIsShown == (~raced /\ q.data # NoData) => q.data.ver >= told

\* RecipeForm.tsx:816-822: "writing it straight into `extraKey` (rather than invalidating
\* and racing an in-flight GET) means re-opening the edit route reseeds from the
\* post-save state and can't resurrect removed rows".
ReopensOnSaved == q.data # NoData => q.data.ver >= told
=============================================================================

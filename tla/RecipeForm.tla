----------------------------- MODULE RecipeForm -----------------------------
(***************************************************************************)
(* The recipe editor: rows of cells that are typed, pasted, moved and      *)
(* removed, a tag field, the save as one POST or PUT that replaces the     *)
(* whole recipe, and the way a refusal finds its row again.  The form can  *)
(* be changed while its save is under way.                                 *)
(*                                                                         *)
(* Cells hold texts.  Of the cells of a row the model keeps quantity and   *)
(* item; unit and note differ from them only in having no rule of their    *)
(* own but a length.                                                       *)
(***************************************************************************)
EXTENDS Naturals, SequencesExt, Functions

CONSTANTS
  Quantities,  \* the texts typed into a quantity cell, "" among them
  Items,       \* the texts typed into an item cell, "" among them
  Lines,       \* the lines that can be pasted
  CellsOf,     \* [Lines -> [quantity, item]]: how such a line is parsed
  TagTexts,    \* the texts typed into the tag field
  Start,       \* the recipe the editor is opened on, as its stored rows; <<>> to create
  MaxRows, MaxEdits, MaxSaves   \* bounds on the rows, the edits and the saves

TooLong == "too long"     \* a text over the length the server allows

\* What is assumed of the constants; the instances are checked for it.
TextsFit ==
  /\ "" \in Quantities \cap Items /\ "" \notin TagTexts
  /\ DOMAIN CellsOf = Lines /\ \A l \in Lines : CellsOf[l].item # ""
  /\ MaxRows \in Nat \ {0} /\ MaxEdits \in Nat /\ MaxSaves \in Nat

NoLine == "no line"

VARIABLES
  rows,      \* state.ingredients
  tags,      \* state.tags
  tagDraft,  \* what is typed into the tag field, or ""
  blocked,   \* clientErrors.rows: the uids of the rows without an item
  uids,      \* submittedUidsRef: the rows of the last save, in order
  save,      \* the last save
  error,     \* its rejection, as splitFormErrors sees it
  stored,    \* the rows the server stores
  storedTags,
  shown,     \* history: the rows and tags as the form showed them at the last save
  seq,       \* uids given out
  edits, saves

draftVars == <<rows, tags, tagDraft, seq>>
saveVars  == <<blocked, uids, save, error, shown>>
vars      == <<draftVars, saveVars, stored, storedTags, edits, saves>>

-----------------------------------------------------------------------------
(* Drafts.  A row that is pristine came from a pasted line.                *)

BlankIngredient(uid) ==
  [uid |-> uid, quantity |-> "", item |-> "", raw |-> NoLine, pristine |-> FALSE]

PastedIngredient(uid, line) ==
  [uid |-> uid, quantity |-> CellsOf[line].quantity, item |-> CellsOf[line].item,
   raw |-> line, pristine |-> TRUE]

IngredientReadToDraft(uid, row) ==
  [uid |-> uid, quantity |-> row.quantity, item |-> row.item,
   raw |-> row.raw, pristine |-> row.raw # NoLine]

IngredientHasContent(row) == row.quantity # "" \/ row.item # ""

IngredientRowsToSubmit(list) == SelectSeq(list, IngredientHasContent)

\* Number of a cell: what it writes is sent, and null for what is no numeral.
Numerals    == {"2", "3", "-2"}
NumberOf(q) == IF q \in Numerals THEN q ELSE ""

\* An untouched pasted row is sent as its line, any other one as its cells.
ToIngredientElement(row) ==
  IF row.pristine THEN [line |-> row.raw]
  ELSE [quantity |-> NumberOf(row.quantity), item |-> row.item]

IsLine(element) == "line" \in DOMAIN element

BuildRecipeCreate(list, tagList) ==
  [ingredients |-> [i \in DOMAIN IngredientRowsToSubmit(list) |->
                      ToIngredientElement(IngredientRowsToSubmit(list)[i])],
   tags |-> tagList]

-----------------------------------------------------------------------------
(* The server.                                                             *)

\* A losing branch of the union complains of every element that is refused.
IssuesOf(body) ==
  LET bad(i, field) == ~IsLine(body.ingredients[i])
                       /\ \/ field = "quantity" /\ body.ingredients[i].quantity = "-2"
                          \/ field = "item" /\ body.ingredients[i].item = TooLong
      fields == {at \in (DOMAIN body.ingredients) \X {"quantity", "item"} : bad(at[1], at[2])}
  IN fields \cup {<<at[1], "str">> : at \in fields}

TagIssuesOf(body) == {i \in DOMAIN body.tags : body.tags[i] = TooLong}

StoredOf(element) ==
  IF IsLine(element) THEN [quantity |-> CellsOf[element.line].quantity,
                           item |-> CellsOf[element.line].item, raw |-> element.line]
  ELSE [quantity |-> element.quantity, item |-> element.item, raw |-> NoLine]

-----------------------------------------------------------------------------
(* What a refusal shows.                                                   *)

NoError    == [issues |-> {}, tagIssues |-> {}, toast |-> FALSE]
\* isUnionBranchNoise: the complaint of the branch the element was not meant for.
FieldErrors == {at \in error.issues : at[2] # "str"}

RowIndex(uid) == {i \in DOMAIN uids : uids[i] = uid}

\* rowError, the messages of the server: the form asks for those of the item cell only.
ServerError(row) == \E i \in RowIndex(row.uid) : <<i, "item">> \in FieldErrors

IsText(t)  == t \in Items \cup {CellsOf[l].item : l \in Lines} \cup {Start[i].item : i \in DOMAIN Start}
IsQty(q)   == q \in Quantities \cup {CellsOf[l].quantity : l \in Lines}
                               \cup {Start[i].quantity : i \in DOMAIN Start}
IsStored(r) == IsQty(r.quantity) /\ IsText(r.item) /\ r.raw \in Lines \cup {NoLine}

TypeOK ==
  /\ Len(rows) \in 1 .. MaxRows
  /\ \A r \in Range(rows) : r.uid \in 1 .. seq /\ IsStored(r) /\ r.pristine \in BOOLEAN
  /\ \A i, j \in DOMAIN rows : rows[i].uid = rows[j].uid => i = j
  /\ \A i, j \in DOMAIN tags : tags[i] = tags[j] => i = j
  /\ Range(tags) \subseteq TagTexts /\ tagDraft \in TagTexts \cup {""}
  /\ blocked \subseteq 1 .. seq /\ Range(uids) \subseteq 1 .. seq
  /\ save.phase \in {"none", "asked", "answered", "done"}
  /\ \A i \in DOMAIN stored : IsStored(stored[i])
  /\ Range(storedTags) \subseteq TagTexts

-----------------------------------------------------------------------------
NoSave == [phase |-> "none", body |-> <<>>, reply |-> NoError, ok |-> FALSE]

Init ==
  /\ seq = Max({1, Len(Start)})
  /\ rows = IF Start = <<>> THEN <<BlankIngredient(1)>>
            ELSE [i \in DOMAIN Start |-> IngredientReadToDraft(i, Start[i])]
  /\ tags = <<>> /\ tagDraft = ""
  /\ blocked = {} /\ uids = <<>> /\ save = NoSave /\ error = NoError
  /\ shown = [rows |-> <<>>, tags |-> {}, refused |-> {}]
  /\ stored = Start /\ storedTags = <<>>
  /\ edits = 0 /\ saves = 0

Open    == save.phase # "done"
Pending == save.phase \in {"asked", "answered"}

Edit(newRows, newSeq) ==
  /\ Open /\ edits < MaxEdits
  /\ rows' = newRows /\ seq' = newSeq /\ edits' = edits + 1
  /\ UNCHANGED <<tags, tagDraft, saveVars, stored, storedTags, saves>>

\* Mutant: an edited row stays the pasted line it was.
SetRowPristine(i, cell, text) == Edit([rows EXCEPT ![i][cell] = text], seq)

\* setRow: an edited row is no longer the pasted line it was.
SetRow(i, cell, text) ==
  Edit([rows EXCEPT ![i] = [[@ EXCEPT !.pristine = FALSE] EXCEPT ![cell] = text]], seq)

AddRow == Len(rows) < MaxRows /\ Edit(Append(rows, BlankIngredient(seq + 1)), seq + 1)

\* Mutant: the last row can be taken out.
RemoveRowPlain(i) == Edit(RemoveAt(rows, i), seq)

RemoveRow(i) ==
  IF Len(rows) = 1 THEN Edit(<<BlankIngredient(seq + 1)>>, seq + 1)
  ELSE Edit(RemoveAt(rows, i), seq)

\* move: up is the same as moving the row above down.
MoveRow(i) ==
  i < Len(rows) /\ Edit([rows EXCEPT ![i] = rows[i + 1], ![i + 1] = rows[i]], seq)

ConfirmPaste(line) ==
  Len(rows) < MaxRows /\ Edit(Append(rows, PastedIngredient(seq + 1, line)), seq + 1)

-----------------------------------------------------------------------------
(* Tags.                                                                   *)

TagStep(newTags, newDraft) ==
  /\ Open /\ edits < MaxEdits
  /\ tags' = newTags /\ tagDraft' = newDraft /\ edits' = edits + 1
  /\ UNCHANGED <<rows, seq, saveVars, stored, storedTags, saves>>

WithTag == IF tagDraft = "" \/ tagDraft \in Range(tags) THEN tags ELSE Append(tags, tagDraft)

TypeTag(text) == TagStep(tags, text)
CommitTag     == tagDraft # "" /\ TagStep(WithTag, "")
RemoveTag(i)  == TagStep(RemoveAt(tags, i), tagDraft)
BackspaceTag  == tagDraft = "" /\ tags # <<>> /\ TagStep(Front(tags), "")

-----------------------------------------------------------------------------
(* The save.                                                               *)

WithoutItem == {r.uid : r \in {s \in Range(IngredientRowsToSubmit(rows)) : s.item = ""}}

\* The form as the member sees it: the rows with something in them, and every tag.
Showing ==
  [rows |-> [i \in DOMAIN IngredientRowsToSubmit(rows) |->
               [quantity |-> IngredientRowsToSubmit(rows)[i].quantity,
                item |-> IngredientRowsToSubmit(rows)[i].item]],
   tags |-> Range(tags) \cup ({tagDraft} \ {""}),
   refused |-> {r.uid : r \in {s \in Range(rows) : s.item = TooLong}}]

\* Mutant: the rows are counted as they are in the table.
UidsOfTable(list) == [i \in DOMAIN list |-> list[i].uid]

UidsOf(list) ==
  [i \in DOMAIN IngredientRowsToSubmit(list) |-> IngredientRowsToSubmit(list)[i].uid]

\* onSubmit: fold a half-typed tag in, check, remember the rows and send.
OnSubmit ==
  /\ Open /\ ~Pending /\ saves < MaxSaves
  /\ tags' = WithTag /\ tagDraft' = ""
  /\ blocked' = WithoutItem
  /\ saves' = saves + 1
  /\ IF WithoutItem # {} THEN UNCHANGED <<uids, save, error, shown>>
     ELSE /\ uids' = UidsOf(rows) /\ shown' = Showing /\ error' = NoError
          /\ save' = [phase |-> "asked", body |-> BuildRecipeCreate(rows, WithTag),
                      reply |-> NoError, ok |-> FALSE]
  /\ UNCHANGED <<rows, seq, stored, storedTags, edits>>

Refused(body) == IssuesOf(body) # {} \/ TagIssuesOf(body) # {}

Serve ==
  /\ save.phase = "asked"
  /\ IF Refused(save.body)
     THEN /\ save' = [save EXCEPT !.phase = "answered",
                        !.reply = [issues |-> IssuesOf(save.body), tagIssues |-> TagIssuesOf(save.body),
                                   toast |-> FALSE]]
          /\ UNCHANGED <<stored, storedTags>>
     ELSE /\ stored' = [i \in DOMAIN save.body.ingredients |-> StoredOf(save.body.ingredients[i])]
          /\ storedTags' = save.body.tags
          \* the answer comes, or is lost
          /\ save' \in {[save EXCEPT !.phase = "answered", !.ok = TRUE],
                        [save EXCEPT !.phase = "answered", !.reply.toast = TRUE]}
  /\ UNCHANGED <<draftVars, blocked, uids, error, shown, edits, saves>>

\* The request is lost, or the server fails: hasInlineFormError is false.
Lose ==
  /\ save.phase = "asked"
  /\ save' = [save EXCEPT !.phase = "answered", !.reply.toast = TRUE]
  /\ UNCHANGED <<draftVars, blocked, uids, error, shown, stored, storedTags, edits, saves>>

\* Saved: on to the recipe.  Refused: the form stays as it is, with the errors.
Answer ==
  /\ save.phase = "answered"
  /\ save' = [save EXCEPT !.phase = IF save.ok THEN "done" ELSE "none"]
  /\ error' = save.reply
  /\ UNCHANGED <<draftVars, blocked, uids, shown, stored, storedTags, edits, saves>>

Next ==
  \/ \E i \in DOMAIN rows :
       \/ \E q \in Quantities : SetRow(i, "quantity", q)
       \/ \E t \in Items : SetRow(i, "item", t)
       \/ RemoveRow(i) \/ MoveRow(i)
  \/ AddRow \/ \E l \in Lines : ConfirmPaste(l)
  \/ (\E t \in TagTexts : TypeTag(t)) \/ CommitTag \/ (\E i \in DOMAIN tags : RemoveTag(i)) \/ BackspaceTag
  \/ OnSubmit \/ Serve \/ Lose \/ Answer

Spec == Init /\ [][Next]_vars

-----------------------------------------------------------------------------
(* Properties.                                                             *)

\* A refusal of a cell is shown at the row that was sent with that text, and at no
\* other, however the rows were edited, moved and removed since the click.
ErrorIsOfItsRow ==
  \A r \in Range(rows) :
    (ServerError(r) <=> r.uid \in shown.refused /\ FieldErrors # {})

\* What is stored is what the form showed at the click: the rows with something in
\* them in their order, the pasted ones as their cells say, a quantity that is no
\* numeral as none, and every tag, also a half-typed one; whatever was edited between
\* the click and the answer.
StoresTheForm ==
  [][\/ UNCHANGED <<stored, storedTags>>
     \/ /\ Range(storedTags') = shown.tags
        /\ [i \in DOMAIN stored' |-> [quantity |-> stored'[i].quantity, item |-> stored'[i].item]]
           = [i \in DOMAIN shown.rows |-> [shown.rows[i] EXCEPT !.quantity = NumberOf(@)]]]_vars
=============================================================================

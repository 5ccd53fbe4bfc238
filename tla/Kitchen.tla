------------------------------- MODULE Kitchen -------------------------------
(***************************************************************************)
(* The API server: requests of the household, each run as one BEGIN        *)
(* IMMEDIATE transaction over the database file.                           *)
(*                                                                         *)
(* A request waits for the write lock, works on a private copy of the      *)
(* database (its uncommitted transaction), and publishes it when           *)
(* TransactionRoute commits, before the response leaves.  Every refusal    *)
(* rolls back.  An online backup may hold the shared lock of a reader,     *)
(* which makes a commit fail; the process may die at any moment.           *)
(***************************************************************************)
EXTENDS KitchenDb

CONSTANTS
  Ops,      \* the requests the household may send
  Seeds,    \* databases earlier use may have left
  Free      \* the write lock is free

OpType ==
  [kind : {"none", "read"}]
  \cup [kind : {"add_inventory"}, match : Items, unit : Units, amount : Nat]
  \cup [kind : {"update_inventory"}, id : Ids, null : BOOLEAN,
        fields : SUBSET {"item", "match_name", "quantity", "unit"},
        match : Items, unit : Units, amount : Nat]
  \cup [kind : {"delete_inventory"}, id : Ids]
  \cup [kind : {"create_list"}, first : Ids, second : Ids \cup {NoRecipe},
        times : Ids \X Ids, stray : BOOLEAN]
  \cup [kind : {"add_line"}, list : Ids, item : Items, unit : Units,
        amount : Nat \cup {NoQty}]
  \cup [kind : {"update_line"}, list : Ids, id : Ids, null : BOOLEAN,
        fields : SUBSET {"item", "quantity", "unit", "checked"},
        item : Items, unit : Units, amount : Nat \cup {NoQty}, checked : BOOLEAN]
  \cup [kind : {"delete_line"}, list : Ids, id : Ids]
  \cup [kind : {"submit", "archive", "delete_list"}, list : Ids]
  \cup [kind : {"cook"}, recipe : Ids, times : Ids, deduct : BOOLEAN]
  \cup [kind : {"create_recipe"}, recipe : Recipe, bad : BOOLEAN]
  \cup [kind : {"update_recipe"}, id : Ids, recipe : Recipe, bad : BOOLEAN]
  \cup [kind : {"delete_recipe"}, id : Ids]

NoOp == [kind |-> "none"]

ASSUME OpsAssumption  == Ops \subseteq OpType \ {NoOp}
ASSUME SeedAssumption ==
  \A db \in Seeds : IsDb(db) /\ UniqueKeys(db.stock) /\ ForeignKeys(db)
ASSUME FreeAssumption == Free \notin Requests

VARIABLES
  disk,       \* the committed database
  lock,       \* the request whose transaction holds the write lock, or Free
  reading,    \* an online backup holds the shared lock
  pc,         \* where each request is
  op,         \* what each request asks for
  work,       \* the uncommitted database of each open transaction
  todo,       \* the loop of a handler: the rows it has still to visit
  claim,      \* what the response will tell the client about stock amounts
  bought,     \* the grocery lines this transaction put into stock
  answer,     \* the status each client saw
  committed,  \* history: the requests whose transaction committed
  book,       \* history: the claims of the committed requests, added up
  paid        \* history: how many committed submits put a line into stock

txVars   == <<pc, op, work, todo, claim, bought>>
histVars == <<committed, book, paid>>
vars == <<disk, lock, reading, txVars, answer, histVars>>

Refusals == {"401", "404", "409", "422"}

-----------------------------------------------------------------------------
(* Claims: how a response accounts for the amount of a stock row.  "by" is *)
(* an addition or a draw, "to" an absolute correction, "gone" a deletion.  *)

Amounts(stock)   == [i \in DOMAIN stock |-> stock[i].qty]
NoClaim          == [i \in {} |-> i]
Claim(i, how, n) == [j \in {i} |-> [how |-> how, n |-> n]]
Said(c, i)       == IF i \in DOMAIN c THEN c[i].n ELSE 0
More(c, i, n)    == Put(c, i, [how |-> "by", n |-> Said(c, i) + n])

Charge(b, c) ==
  [i \in {j \in DOMAIN b \cup DOMAIN c : j \in DOMAIN c => c[j].how # "gone"} |->
     IF i \notin DOMAIN c THEN b[i]
     ELSE IF c[i].how = "by" THEN (IF i \in DOMAIN b THEN b[i] ELSE 0) + c[i].n
     ELSE c[i].n]

-----------------------------------------------------------------------------
(* The transaction.                                                        *)

\* A log is filed under the request that cooked: one of a seed was answered long ago.
Init ==
  /\ disk \in Seeds
  /\ lock = Free
  /\ reading = FALSE
  /\ pc = [r \in Requests |-> IF r \in DOMAIN disk.logs THEN "answered" ELSE "idle"]
  /\ op = [r \in Requests |-> NoOp]
  /\ work = [r \in Requests |-> EmptyDb]
  /\ todo = [r \in Requests |-> {}]
  /\ claim = [r \in Requests |-> NoClaim]
  /\ bought = [r \in Requests |-> {}]
  /\ answer = [r \in Requests |-> IF r \in DOMAIN disk.logs THEN "ok" ELSE "none"]
  /\ committed = DOMAIN disk.logs
  /\ book = Amounts(disk.stock)
  /\ paid = [i \in DOMAIN disk.lines |-> IF disk.lines[i].frozen THEN 1 ELSE 0]

\* A client sends a request.
Send(r) ==
  /\ pc[r] = "idle"
  /\ \E p \in Ops : op' = [op EXCEPT ![r] = p]
  /\ pc' = [pc EXCEPT ![r] = "waiting"]
  /\ UNCHANGED <<disk, lock, reading, work, todo, claim, bought, answer, histVars>>

\* Mutant: a deferred BEGIN, which does not wait for the write lock.
BeginDeferred(r) ==
  /\ pc[r] = "waiting"
  /\ lock' = r
  /\ work' = [work EXCEPT ![r] = disk]
  /\ pc' = [pc EXCEPT ![r] = "open"]
  /\ UNCHANGED <<disk, reading, op, todo, claim, bought, answer, histVars>>

\* The first statement of the request, the session lookup of the token, emits
\* BEGIN IMMEDIATE.  Reads take the write lock too.
Begin(r) ==
  /\ pc[r] = "waiting"
  /\ lock = Free
  /\ lock' = r
  /\ work' = [work EXCEPT ![r] = disk]
  /\ pc' = [pc EXCEPT ![r] = "open"]
  /\ UNCHANGED <<disk, reading, op, todo, claim, bought, answer, histVars>>

\* busy_timeout expires while another request holds the lock.
BusyTimeout(r) ==
  /\ pc[r] = "waiting"
  /\ lock # Free
  /\ pc' = [pc EXCEPT ![r] = "answered"]
  /\ answer' = [answer EXCEPT ![r] = "409"]
  /\ UNCHANGED <<disk, lock, reading, op, work, todo, claim, bought, histVars>>

\* Mutant: the error path forgets to close the session.
RefuseUnclosed(r, status) ==
  /\ pc' = [pc EXCEPT ![r] = "answered"]
  /\ answer' = [answer EXCEPT ![r] = status]
  /\ UNCHANGED <<disk, lock, reading, op, work, todo, claim, bought, histVars>>

\* An error leaves the handler or COMMIT: get_db rolls back and closes.
Refuse(r, status) ==
  /\ pc' = [pc EXCEPT ![r] = "answered"]
  /\ answer' = [answer EXCEPT ![r] = status]
  /\ lock' = Free
  /\ work' = [work EXCEPT ![r] = EmptyDb]
  /\ todo' = [todo EXCEPT ![r] = {}]
  /\ claim' = [claim EXCEPT ![r] = NoClaim]
  /\ bought' = [bought EXCEPT ![r] = {}]
  /\ UNCHANGED <<disk, reading, op, histVars>>

\* get_current_user finds no live session for the token.
Unauthenticated(r) == pc[r] = "open" /\ Refuse(r, "401")

\* TransactionRoute commits; a backup that is reading makes COMMIT fail busy.
Commit(r) ==
  /\ pc[r] = "handled"
  /\ ~reading
  /\ disk' = work[r]
  /\ lock' = Free
  /\ work' = [work EXCEPT ![r] = EmptyDb]
  /\ claim' = [claim EXCEPT ![r] = NoClaim]
  /\ bought' = [bought EXCEPT ![r] = {}]
  /\ pc' = [pc EXCEPT ![r] = "committed"]
  /\ committed' = committed \cup {r}
  /\ book' = Charge(book, claim[r])
  /\ paid' = [i \in DOMAIN work[r].lines |->
                (IF i \in DOMAIN paid THEN paid[i] ELSE 0)
                + (IF i \in bought[r] THEN 1 ELSE 0)]
  /\ UNCHANGED <<reading, op, todo, answer>>

\* Mutants: the commit runs after the response was produced; the connection has
\* no busy timeout.
CommitTooLate(r) == pc[r] = "handled" /\ reading /\ Refuse(r, "ok")
CommitPatient(r) == pc[r] = "handled" /\ reading /\ FALSE

CommitBusy(r) == pc[r] = "handled" /\ reading /\ Refuse(r, "409")

\* The response reaches the client, or the connection breaks after the commit.
Respond(r) ==
  /\ pc[r] = "committed"
  /\ pc' = [pc EXCEPT ![r] = "answered"]
  /\ \E status \in {"ok", "lost"} : answer' = [answer EXCEPT ![r] = status]
  /\ UNCHANGED <<disk, lock, reading, op, work, todo, claim, bought, histVars>>

\* The server process dies and is started again: every connection breaks and
\* SQLite rolls the open transaction back.
Crash ==
  LET hit == {r \in Requests : pc[r] \notin {"idle", "answered"}}
  IN  /\ hit # {}
      /\ pc' = [r \in Requests |-> IF r \in hit THEN "answered" ELSE pc[r]]
      /\ answer' = [r \in Requests |-> IF r \in hit THEN "lost" ELSE answer[r]]
      /\ lock' = Free
      /\ work' = [r \in Requests |-> EmptyDb]
      /\ todo' = [r \in Requests |-> {}]
      /\ claim' = [r \in Requests |-> NoClaim]
      /\ bought' = [r \in Requests |-> {}]
      /\ UNCHANGED <<disk, reading, op, histVars>>

\* backup.py: Connection.backup copies every page under one shared lock.
BackupStart == ~reading /\ reading' = TRUE
               /\ UNCHANGED <<disk, lock, txVars, answer, histVars>>
BackupEnd   == reading /\ reading' = FALSE
               /\ UNCHANGED <<disk, lock, txVars, answer, histVars>>

-----------------------------------------------------------------------------
(* Handlers.  Each runs inside the open transaction of its request.        *)

Running(r, kind) == pc[r] = "open" /\ op[r].kind = kind

\* The handler returned: db is what COMMIT would publish.
Handled(r, db, c) ==
  /\ pc' = [pc EXCEPT ![r] = "handled"]
  /\ work' = [work EXCEPT ![r] = db]
  /\ claim' = [claim EXCEPT ![r] = c]
  /\ UNCHANGED <<disk, lock, reading, op, todo, bought, answer, histVars>>

\* The handler enters its loop over the set rest.
Looping(r, db, rest) ==
  /\ pc' = [pc EXCEPT ![r] = "looping"]
  /\ work' = [work EXCEPT ![r] = db]
  /\ todo' = [todo EXCEPT ![r] = rest]
  /\ UNCHANGED <<disk, lock, reading, op, claim, bought, answer, histVars>>

InLoop(r, kind) == pc[r] = "looping" /\ op[r].kind = kind

LoopDone(r) ==
  /\ pc[r] = "looping"
  /\ todo[r] = {}
  /\ pc' = [pc EXCEPT ![r] = "handled"]
  /\ UNCHANGED <<disk, lock, reading, op, work, todo, claim, bought, answer, histVars>>

\* Every GET: the transaction holds the lock and writes nothing of interest.
Read(r) == Running(r, "read") /\ Handled(r, work[r], NoClaim)

\* POST /api/inventory: additive upsert on (match_name, unit_bucket).
AddInventory(r) ==
  LET p   == op[r]
      db  == work[r]
      k   == AddKey(p.match, p.unit)
      add == AddBase(p.amount, p.unit)
      i   == UpsertId(db.stock, k)
  IN  /\ Running(r, "add_inventory")
      /\ \/ k[1] = Blank /\ Refuse(r, "422")
         \/ k[1] # Blank /\ ~Storable(QtyOf(db.stock, k) + add) /\ Refuse(r, "409")
         \/ /\ k[1] # Blank
            /\ Storable(QtyOf(db.stock, k) + add)
            /\ Handled(r, [db EXCEPT !.stock = Upsert(@, k, add)], Claim(i, "by", add))

\* PATCH /api/inventory/{id}: the checks in the order of the code.
PatchInvalid(p, row) ==
  \/ p.fields \cap {"item", "match_name", "quantity"} # {} /\ p.null
  \/ "quantity" \in p.fields /\ "unit" \notin p.fields
  \/ "unit" \in p.fields /\ BucketOf[p.unit] # row.bucket
  \/ "match_name" \in p.fields /\ Norm[p.match] = Blank

\* Mutant: nothing looks for the row that already has the key.
PatchUnchecked(p, stock) == FALSE

PatchClash(p, stock) ==
  /\ "match_name" \in p.fields
  /\ \E j \in DOMAIN stock \ {p.id} :
       KeyOf(stock[j]) = <<Norm[p.match], stock[p.id].bucket>>

PatchedRow(p, row) ==
  [name   |-> IF "match_name" \in p.fields THEN Norm[p.match] ELSE row.name,
   bucket |-> row.bucket,
   qty    |-> IF "quantity" \in p.fields THEN AddBase(p.amount, p.unit) ELSE row.qty]

UpdateInventory(r) ==
  LET p  == op[r]
      db == work[r]
      row == PatchedRow(p, db.stock[p.id])
  IN  /\ Running(r, "update_inventory")
      /\ \/ p.id \notin DOMAIN db.stock /\ Refuse(r, "404")
         \/ /\ p.id \in DOMAIN db.stock
            /\ \/ PatchInvalid(p, db.stock[p.id]) /\ Refuse(r, "422")
               \/ /\ ~PatchInvalid(p, db.stock[p.id])
                  /\ PatchClash(p, db.stock) \/ ~Storable(row.qty)
                  /\ Refuse(r, "409")
               \/ /\ ~PatchInvalid(p, db.stock[p.id])
                  /\ ~PatchClash(p, db.stock)
                  /\ Storable(row.qty)
                  /\ Handled(r, [db EXCEPT !.stock = Put(@, p.id, row)],
                             IF "quantity" \in p.fields
                             THEN Claim(p.id, "to", row.qty) ELSE NoClaim)

\* DELETE /api/inventory/{id}.
DeleteInventory(r) ==
  LET i  == op[r].id
      db == work[r]
  IN  /\ Running(r, "delete_inventory")
      /\ \/ i \notin DOMAIN db.stock /\ Refuse(r, "404")
         \/ /\ i \in DOMAIN db.stock
            /\ Handled(r, [db EXCEPT !.stock = Drop(@, {i})], Claim(i, "gone", 0))

\* POST /api/grocery: one or two recipes, each with its multiplier.
BadSelection(p, db) ==
  \/ p.first = p.second
  \/ ~({p.first, p.second} \ {NoRecipe} \subseteq DOMAIN db.recipes)
  \/ p.stray

TotalNeed(p, db) ==
  [k \in Keys |-> db.recipes[p.first].need[k] * p.times[1]
     + (IF p.second = NoRecipe THEN 0 ELSE db.recipes[p.second].need[k] * p.times[2])]

TotalTaste(p, db) ==
  db.recipes[p.first].taste
  \cup (IF p.second = NoRecipe THEN {} ELSE db.recipes[p.second].taste)

CreateList(r) ==
  LET p  == op[r]
      db == work[r]
      l  == NextId(db.lists)
  IN  /\ Running(r, "create_list")
      /\ \/ BadSelection(p, db) /\ Refuse(r, "422")
         \/ /\ ~BadSelection(p, db)
            /\ Looping(r, [db EXCEPT !.lists = Put(@, l, [status |-> "active"])],
                       GeneratedLines(l, TotalNeed(p, db), TotalTaste(p, db), db.stock))

\* The flush inserts the generated lines one by one.
InsertLine(r) ==
  /\ InLoop(r, "create_list")
  /\ todo[r] # {}
  /\ LET line == CHOOSE x \in todo[r] : TRUE
         db   == work[r]
     IN  Looping(r, [db EXCEPT !.lines = Put(@, NextId(@), line)], todo[r] \ {line})

\* POST /api/grocery/{id}/items: a manual line, as typed.
AddLine(r) ==
  LET p  == op[r]
      db == work[r]
  IN  /\ Running(r, "add_line")
      /\ \/ p.list \notin DOMAIN db.lists /\ Refuse(r, "404")
         \/ /\ p.list \in DOMAIN db.lists
            /\ \/ db.lists[p.list].status = "archived" /\ Refuse(r, "409")
               \/ /\ db.lists[p.list].status # "archived"
                  /\ Handled(r,
                       [db EXCEPT !.lines =
                          Put(@, NextId(@), NewLine(p.list, p.item, p.unit, p.amount,
                                                    "manual", TRUE))],
                       NoClaim)

\* _get_item_or_404 and _check_line_mutable.
LineMissing(db, l, i) == l \notin DOMAIN db.lists \/ i \notin LinesOf(db, l)
\* Mutant: only the list is looked at.
LineOfArchived(db, l, i) == db.lists[l].status = "archived"

LineClosed(db, l, i)  == db.lines[i].frozen \/ db.lists[l].status = "archived"

\* PATCH /api/grocery/{id}/items/{item_id}.
EditInvalid(p) ==
  \/ ("quantity" \in p.fields) # ("unit" \in p.fields)
  \/ "item" \in p.fields /\ p.null

EditedLine(p, line) ==
  LET amount == "quantity" \in p.fields
      human  == p.fields \cap {"item", "quantity", "unit"} # {}
  IN  [line EXCEPT !.qty      = IF amount THEN p.amount ELSE @,
                   !.unit     = IF amount THEN p.unit ELSE @,
                   !.item     = IF "item" \in p.fields THEN p.item ELSE @,
                   !.checked  = IF "checked" \in p.fields THEN p.checked ELSE @,
                   !.source   = IF human THEN "manual" ELSE @,
                   !.nettable = IF human THEN TRUE ELSE @]

UpdateLine(r) ==
  LET p  == op[r]
      db == work[r]
  IN  /\ Running(r, "update_line")
      /\ \/ LineMissing(db, p.list, p.id) /\ Refuse(r, "404")
         \/ /\ ~LineMissing(db, p.list, p.id)
            /\ \/ LineClosed(db, p.list, p.id) /\ Refuse(r, "409")
               \/ ~LineClosed(db, p.list, p.id) /\ EditInvalid(p) /\ Refuse(r, "422")
               \/ /\ ~LineClosed(db, p.list, p.id)
                  /\ ~EditInvalid(p)
                  /\ Handled(r, [db EXCEPT !.lines =
                                   Put(@, p.id, EditedLine(p, db.lines[p.id]))],
                             NoClaim)

\* DELETE /api/grocery/{id}/items/{item_id}.
DeleteLine(r) ==
  LET p  == op[r]
      db == work[r]
  IN  /\ Running(r, "delete_line")
      /\ \/ LineMissing(db, p.list, p.id) /\ Refuse(r, "404")
         \/ /\ ~LineMissing(db, p.list, p.id)
            /\ \/ LineClosed(db, p.list, p.id) /\ Refuse(r, "409")
               \/ /\ ~LineClosed(db, p.list, p.id)
                  /\ Handled(r, [db EXCEPT !.lines = Drop(@, {p.id})], NoClaim)

\* POST /api/grocery/{id}/submit: visit the lines of the list in id order.
Submit(r) ==
  LET l  == op[r].list
      db == work[r]
  IN  /\ Running(r, "submit")
      /\ \/ l \notin DOMAIN db.lists /\ Refuse(r, "404")
         \/ /\ l \in DOMAIN db.lists
            /\ \/ db.lists[l].status # "active" /\ Refuse(r, "409")
               \/ db.lists[l].status = "active" /\ Looping(r, db, LinesOf(db, l))

\* The CHECK constraint fails on a line: no line of this submit is bought.
\* Mutant: the lines before it are.
OverflowBreaks(r) == Looping(r, work[r], {})
LineOverflows(r)  == Refuse(r, "409")

\* One turn of the submit loop.  The item is normalized here and once more by
\* add_to_inventory_calc.
SubmitLine(r) ==
  LET db   == work[r]
      i    == Min(todo[r])
      line == db.lines[i]
      k    == AddKey(Norm[line.item], line.unit)
      add  == AddBase(line.qty, line.unit)
      row  == UpsertId(db.stock, k)
  IN  /\ InLoop(r, "submit")
      /\ todo[r] # {}
      /\ \/ ~Eligible(line) /\ Looping(r, db, todo[r] \ {i})
         \/ /\ Eligible(line)
            /\ ~Storable(QtyOf(db.stock, k) + add)
            /\ LineOverflows(r)
         \/ /\ Eligible(line)
            /\ Storable(QtyOf(db.stock, k) + add)
            /\ work' = [work EXCEPT ![r] =
                 [db EXCEPT !.stock = Upsert(@, k, add),
                            !.lines = Put(@, i, [line EXCEPT !.frozen = TRUE,
                                                             !.applied = add])]]
            /\ claim' = [claim EXCEPT ![r] = More(@, row, add)]
            /\ bought' = [bought EXCEPT ![r] = @ \cup {i}]
            /\ todo' = [todo EXCEPT ![r] = @ \ {i}]
            /\ UNCHANGED <<disk, lock, reading, pc, op, answer, histVars>>

\* POST /api/grocery/{id}/archive.
Archive(r) ==
  LET l  == op[r].list
      db == work[r]
  IN  /\ Running(r, "archive")
      /\ \/ l \notin DOMAIN db.lists /\ Refuse(r, "404")
         \/ /\ l \in DOMAIN db.lists
            /\ \/ db.lists[l].status # "active" /\ Refuse(r, "409")
               \/ /\ db.lists[l].status = "active"
                  /\ Handled(r, [db EXCEPT !.lists =
                                   Put(@, l, [status |-> "archived"])], NoClaim)

\* DELETE /api/grocery/{id}: in any status, its lines go with it.
DeleteList(r) ==
  LET l  == op[r].list
      db == work[r]
  IN  /\ Running(r, "delete_list")
      /\ \/ l \notin DOMAIN db.lists /\ Refuse(r, "404")
         \/ /\ l \in DOMAIN db.lists
            /\ Handled(r, [db EXCEPT !.lists = Drop(@, {l}),
                                     !.lines = Drop(@, LinesOf(db, l))], NoClaim)

\* POST /api/recipes/{id}/cook: deduct_calc reads the whole stock and proposes
\* absolute amounts, then one UPDATE per proposed row applies them.
Cook(r) ==
  LET p     == op[r]
      db    == work[r]
      need  == [k \in Keys |-> db.recipes[p.recipe].need[k] * p.times]
      drawn == IF p.deduct THEN Draws(need, db.stock) ELSE NoRows
  IN  /\ Running(r, "cook")
      /\ \/ p.recipe \notin DOMAIN db.recipes /\ Refuse(r, "404")
         \/ /\ p.recipe \in DOMAIN db.recipes
            /\ Looping(r, [db EXCEPT !.logs =
                             Put(@, r, [recipe |-> p.recipe, drawn |-> drawn])],
                       DOMAIN drawn)

\* Mutant: the UPDATE finds its row by name alone.
TargetByName(stock, k) == CHOOSE i \in DOMAIN stock : stock[i].name = k[1]
TargetOf(stock, k)     == IdOf(stock, k)

CookRow(r) ==
  /\ InLoop(r, "cook")
  /\ todo[r] # {}
  /\ LET k    == CHOOSE x \in todo[r] : TRUE
         db   == work[r]
         draw == db.logs[r].drawn[k]
         i    == TargetOf(db.stock, k)
     IN  /\ work' = [work EXCEPT ![r] =
              [db EXCEPT !.stock = Put(@, i, [@[i] EXCEPT !.qty = draw.after])]]
         /\ claim' = [claim EXCEPT ![r] = More(@, i, draw.after - draw.before)]
         /\ todo' = [todo EXCEPT ![r] = @ \ {k}]
         /\ UNCHANGED <<disk, lock, reading, pc, op, bought, answer, histVars>>

\* POST, PUT and DELETE /api/recipes.
CreateRecipe(r) ==
  LET p  == op[r]
      db == work[r]
  IN  /\ Running(r, "create_recipe")
      /\ \/ p.bad /\ Refuse(r, "422")
         \/ /\ ~p.bad
            /\ Handled(r, [db EXCEPT !.recipes = Put(@, NextId(@), p.recipe)], NoClaim)

UpdateRecipe(r) ==
  LET p  == op[r]
      db == work[r]
  IN  /\ Running(r, "update_recipe")
      /\ \/ p.id \notin DOMAIN db.recipes /\ Refuse(r, "404")
         \/ p.id \in DOMAIN db.recipes /\ p.bad /\ Refuse(r, "422")
         \/ /\ p.id \in DOMAIN db.recipes
            /\ ~p.bad
            /\ Handled(r, [db EXCEPT !.recipes = Put(@, p.id, p.recipe)], NoClaim)

\* Mutant: the logs go with their recipe.
Cascaded(logs, id) == Restrict(logs, {r \in DOMAIN logs : logs[r].recipe # id})

\* The cook logs of a deleted recipe stay, detached from it.
Detached(logs, id) ==
  [r \in DOMAIN logs |->
     IF logs[r].recipe = id THEN [logs[r] EXCEPT !.recipe = NoRecipe] ELSE logs[r]]

DeleteRecipe(r) ==
  LET i  == op[r].id
      db == work[r]
  IN  /\ Running(r, "delete_recipe")
      /\ \/ i \notin DOMAIN db.recipes /\ Refuse(r, "404")
         \/ /\ i \in DOMAIN db.recipes
            /\ Handled(r, [db EXCEPT !.recipes = Drop(@, {i}),
                                     !.logs = Detached(@, i)], NoClaim)

-----------------------------------------------------------------------------
Handler(r) ==
  \/ Unauthenticated(r) \/ Read(r)
  \/ AddInventory(r) \/ UpdateInventory(r) \/ DeleteInventory(r)
  \/ CreateList(r) \/ InsertLine(r) \/ DeleteList(r)
  \/ AddLine(r) \/ UpdateLine(r) \/ DeleteLine(r)
  \/ Submit(r) \/ SubmitLine(r) \/ Archive(r)
  \/ Cook(r) \/ CookRow(r)
  \/ CreateRecipe(r) \/ UpdateRecipe(r) \/ DeleteRecipe(r)
  \/ LoopDone(r)

\* What the server does for a request, without the client's help.
Serve(r) ==
  \/ Begin(r) \/ BusyTimeout(r)
  \/ Handler(r)
  \/ Commit(r) \/ CommitBusy(r)
  \/ Respond(r)

Next ==
  \/ \E r \in Requests : Send(r) \/ Serve(r)
  \/ Crash
  \/ BackupStart \/ BackupEnd

Spec == Init /\ [][Next]_vars

\* A server thread runs its request to the end, and a waiting one is woken by
\* the free lock or by its busy timeout.  Clients, crashes and backups are free.
Fairness == \A r \in Requests : WF_vars(Serve(r))
FairSpec == Spec /\ Fairness

-----------------------------------------------------------------------------
(* Properties.                                                             *)

IsClaim(c) ==
  /\ DOMAIN c \subseteq Ids
  /\ c \in [DOMAIN c -> [how : {"by", "to", "gone"}, n : Int]]

\* Every variable has its type, and the committed database its schema: the
\* amounts pass the CHECK constraint (models.py).
TypeOK ==
  /\ IsDb(disk)
  /\ lock \in Requests \cup {Free}
  /\ reading \in BOOLEAN
  /\ pc \in [Requests -> {"idle", "waiting", "open", "looping", "handled",
                          "committed", "answered"}]
  /\ op \in [Requests -> OpType]
  /\ DOMAIN work = Requests /\ \A r \in Requests : IsDb(work[r])
  /\ DOMAIN todo = Requests
  /\ DOMAIN claim = Requests /\ \A r \in Requests : IsClaim(claim[r])
  /\ bought \in [Requests -> SUBSET Ids]
  /\ answer \in [Requests -> {"none", "ok", "lost"} \cup Refusals]
  /\ committed \subseteq Requests
  /\ DOMAIN book \subseteq Ids /\ book \in [DOMAIN book -> Int]
  /\ DOMAIN paid \subseteq Ids /\ paid \in [DOMAIN paid -> Nat]

\* What a handler in its loop may rely on: the rows it has still to visit are
\* there, and a cook still finds the amounts it proposed to draw from.
LoopBounds(r, kind, db, rest) ==
  /\ kind \in {"create_list", "submit", "cook"}
  /\ kind = "create_list" => rest \subseteq GroceryLine
  /\ kind = "submit" => rest \subseteq DOMAIN db.lines
  /\ kind = "cook" =>
       /\ r \in DOMAIN db.logs
       /\ rest \subseteq DOMAIN db.logs[r].drawn
       /\ \A k \in rest : HasKey(db.stock, k) /\ db.logs[r].drawn[k].after <= MaxBase

LoopsInBounds ==
  \A r \in Requests :
    pc[r] = "looping" => LoopBounds(r, op[r].kind, work[r], todo[r])

\* "Lost updates are impossible everywhere" (database.py): the stock is at every
\* moment what the committed requests told their clients, added up in commit
\* order - additions, submitted lines, draws, corrections and deletions.
NoLostUpdate == Amounts(disk.stock) = book

\* A grocery line enters the stock once, however many submits race, repeat or
\* are retried after a lost answer; a frozen line has entered it (grocery.py).
PaidOnce ==
  /\ DOMAIN paid = DOMAIN disk.lines
  /\ \A i \in DOMAIN paid : paid[i] = IF disk.lines[i].frozen THEN 1 ELSE 0

\* A 2xx means the write is on disk, any other status that it is not
\* (TransactionRoute commits before the response leaves, and rolls back on errors).
AnswersAreTrue ==
  \A r \in Requests :
    /\ answer[r] = "ok" => r \in committed
    /\ answer[r] \in Refusals => r \notin committed

\* The constraints of the schema survive every handler: no line without its
\* list, no log naming a recipe that is gone, one stock row per key.
Constraints == ForeignKeys(disk) /\ UniqueKeys(disk.stock)

\* A cook log tells the amounts it really found and left: before is the amount
\* on disk when the cook commits, after the amount the commit puts there.
LogsAreHonest(old, new) ==
  \A r \in DOMAIN new.logs \ DOMAIN old.logs :
    \A k \in DOMAIN new.logs[r].drawn :
      /\ QtyOf(old.stock, k) = new.logs[r].drawn[k].before
      /\ QtyOf(new.stock, k) = new.logs[r].drawn[k].after

HonestCookLog == [][LogsAreHonest(disk, disk')]_vars

\* Made-history is never rewritten: a log stays, and at most loses the link to
\* a deleted recipe - never to be linked again, not even to a recipe that gets
\* the deleted one's id.
LogsStay(old, new) ==
  \A r \in DOMAIN old.logs :
    /\ r \in DOMAIN new.logs
    /\ new.logs[r].drawn = old.logs[r].drawn
    /\ new.logs[r].recipe \in {old.logs[r].recipe, NoRecipe}

HistoryStays == [][LogsStay(disk, disk')]_vars

\* What is closed stays closed: a frozen line is never edited, unfrozen or
\* removed, and an archived list neither gains, loses nor changes a line nor
\* opens again, until somebody deletes the whole list.
SameLine(old, new, i) == i \in DOMAIN new.lines /\ new.lines[i] = old.lines[i]

ClosedStays(old, new) ==
  \A l \in DOMAIN old.lists \cap DOMAIN new.lists :
    /\ \A i \in LinesOf(old, l) : old.lines[i].frozen => SameLine(old, new, i)
    /\ old.lists[l].status = "archived" =>
         /\ new.lists[l].status = "archived"
         /\ LinesOf(new, l) = LinesOf(old, l)
         /\ \A i \in LinesOf(old, l) : SameLine(old, new, i)

ClosedStaysClosed == [][ClosedStays(disk, disk')]_vars

\* A new grocery list is exact on the stock it is committed with: for every
\* need of the recipes the stock and the list together hold the need, and
\* nothing is listed that the stock covers (generate_lines).
ListCovers(p, old, new) ==
  LET l == CHOOSE l \in DOMAIN new.lists : l \notin DOMAIN old.lists
      need == TotalNeed(p, old)
      listed(k) == {i \in LinesOf(new, l) : /\ new.lines[i].qty # NoQty
                                            /\ new.lines[i].item = Author[k[1]]
                                            /\ BucketOf[new.lines[i].unit] = k[2]}
  IN  \A k \in Keys :
        IF need[k] <= QtyOf(new.stock, k) THEN listed(k) = {}
        ELSE \E i \in listed(k) :
               /\ listed(k) = {i}
               /\ AddBase(new.lines[i].qty, new.lines[i].unit) + QtyOf(new.stock, k) = need[k]

ListCoversNeed ==
  [][\A r \in committed' \ committed :
       op[r].kind = "create_list" => ListCovers(op[r], disk, disk')]_vars

\* "Callers normalize source text once" (.scratch/backend-v1/spec.md): what a
\* submit buys is in stock under the normal form of the text on the line, where
\* a recipe that asks for the same text finds it.
BoughtUnderItsName ==
  [][\A i \in DOMAIN disk.lines \cap DOMAIN disk'.lines :
       LET line == disk'.lines[i]
       IN  line.frozen /\ ~disk.lines[i].frozen =>
             HasKey(disk'.stock, <<Norm[line.item], BucketOf[line.unit]>>)]_vars

\* "every value (default or supplied) is normalize_named before store; '' after
\* normalize -> 422 (N5)" (models.py): no stock row has the empty match name.
NoBlankName == \A i \in DOMAIN disk.stock : disk.stock[i].name # Blank

\* Every request a client sends is answered, or its connection breaks.
EveryRequestAnswered ==
  \A r \in Requests : (pc[r] = "waiting") ~> (pc[r] = "answered")

\* The write lock always comes free again, whatever the request that holds it
\* runs into.
LockComesFree == (lock # Free) ~> (lock = Free)
=============================================================================

---------------------------- MODULE KitchenLedger ----------------------------
(***************************************************************************)
(* What the API promises its clients: every request either takes effect as *)
(* a whole, at one moment, or not at all.  There is no lock, no transaction *)
(* and no loop here; an effect relates the database before to the one after, *)
(* in closed form.                                                         *)
(***************************************************************************)
EXTENDS KitchenDb

CONSTANTS Ops, Seeds

VARIABLES
  db,       \* the database everybody sees
  asked,    \* what each request asks for
  verdict   \* "pending", "done", "lost" before it took effect, or a refusal

vars == <<db, asked, verdict>>

Unasked == [kind |-> "none"]

-----------------------------------------------------------------------------
(* When a request is refused, whatever the database.                       *)

\* 404: it names a row that is not there.
Missing(p, d) ==
  \/ p.kind \in {"update_inventory", "delete_inventory"} /\ p.id \notin DOMAIN d.stock
  \/ p.kind \in {"add_line", "submit", "archive", "delete_list"} /\ p.list \notin DOMAIN d.lists
  \/ p.kind \in {"update_line", "delete_line"} /\ p.id \notin LinesOf(d, p.list)
  \/ p.kind \in {"update_recipe", "delete_recipe"} /\ p.id \notin DOMAIN d.recipes
  \/ p.kind = "cook" /\ p.recipe \notin DOMAIN d.recipes

\* 422: it makes no sense, alone or for the row it names.
Senseless(p, d) ==
  \/ p.kind = "add_inventory" /\ Norm[p.match] = Blank
  \/ /\ p.kind = "update_inventory"
     /\ \/ p.null /\ p.fields \cap {"item", "match_name", "quantity"} # {}
        \/ p.fields \cap {"quantity", "unit"} = {"quantity"}
        \/ "unit" \in p.fields /\ BucketOf[p.unit] # d.stock[p.id].bucket
        \/ "match_name" \in p.fields /\ Norm[p.match] = Blank
  \/ /\ p.kind = "update_line"
     /\ \/ Cardinality(p.fields \cap {"quantity", "unit"}) = 1
        \/ p.null /\ "item" \in p.fields
  \/ /\ p.kind = "create_list"
     /\ \/ p.first = p.second \/ p.stray
        \/ \E i \in {p.first, p.second} : i \notin DOMAIN d.recipes \cup {NoRecipe}
  \/ p.kind \in {"create_recipe", "update_recipe"} /\ p.bad

\* 409: what it would change is closed.
Closed(p, d) ==
  \/ /\ p.kind \in {"add_line", "update_line", "delete_line", "submit", "archive"}
     /\ d.lists[p.list].status = "archived"
  \/ p.kind \in {"update_line", "delete_line"} /\ d.lines[p.id].frozen

-----------------------------------------------------------------------------
(* What a request that is not refused does.                                *)

Need(p, d) ==
  CASE p.kind = "cook" -> [k \in Keys |-> d.recipes[p.recipe].need[k] * p.times]
    [] p.kind = "create_list" /\ p.second = NoRecipe ->
         [k \in Keys |-> d.recipes[p.first].need[k] * p.times[1]]
    [] OTHER ->
         [k \in Keys |-> d.recipes[p.first].need[k] * p.times[1]
                           + d.recipes[p.second].need[k] * p.times[2]]

Least(a, b) == IF a < b THEN a ELSE b

\* What submitting a list buys: its ticked, quantified lines not yet bought,
\* added up by the key they go to.
Bought(p, d) == {i \in LinesOf(d, p.list) : Eligible(d.lines[i])}
LineKey(line) == AddKey(Norm[line.item], line.unit)
LineBase(line) == AddBase(line.qty, line.unit)

\* What these lines add up to, in the order of their ids.
SumOf(lines, S) ==
  LET upTo[n \in Nat] ==
        IF n = 0 THEN 0 ELSE upTo[n - 1] + (IF n \in S THEN LineBase(lines[n]) ELSE 0)
  IN  upTo[NextId(lines)]

\* The keys a request adds to or draws from, and by how much.
Touched(p, d) ==
  CASE p.kind = "add_inventory" -> {AddKey(p.match, p.unit)}
    [] p.kind = "submit" -> {LineKey(d.lines[i]) : i \in Bought(p, d)}
    [] p.kind = "cook" -> {k \in Keys : p.deduct /\ HasKey(d.stock, k)}
    [] OTHER -> {}

Change(p, d, k) ==
  CASE p.kind = "add_inventory" -> AddBase(p.amount, p.unit)
    [] p.kind = "submit" ->
         SumOf(d.lines, {i \in Bought(p, d) : LineKey(d.lines[i]) = k})
    [] OTHER -> 0 - Least(Need(p, d)[k], QtyOf(d.stock, k))

\* The stock moves by these amounts and by nothing else: no row changes its
\* key, and only a key that had no row gets one.
StockMoves(p, d, e) ==
  /\ UniqueKeys(e.stock)
  /\ \A i \in DOMAIN d.stock :
       i \in DOMAIN e.stock /\ KeyOf(e.stock[i]) = KeyOf(d.stock[i])
  /\ \A k \in Keys :
       /\ HasKey(e.stock, k) <=> HasKey(d.stock, k) \/ k \in Touched(p, d)
       /\ QtyOf(e.stock, k) =
            QtyOf(d.stock, k) + (IF k \in Touched(p, d) THEN Change(p, d, k) ELSE 0)

StockIsCorrected(p, d, e) ==
  /\ DOMAIN e.stock = DOMAIN d.stock
  /\ UniqueKeys(e.stock)
  /\ \A i \in DOMAIN d.stock \ {p.id} : e.stock[i] = d.stock[i]
  /\ LET old == d.stock[p.id]
         new == e.stock[p.id]
     IN  /\ new.bucket = old.bucket
         /\ IF "match_name" \in p.fields THEN new.name = Norm[p.match]
                                         ELSE new.name = old.name
         /\ IF "quantity" \in p.fields THEN new.qty = p.amount * Scale[p.unit]
                                       ELSE new.qty = old.qty

StockEffect(p, d, e) ==
  CASE p.kind = "update_inventory" -> StockIsCorrected(p, d, e)
    [] p.kind = "delete_inventory" -> e.stock = Drop(d.stock, {p.id})
    [] OTHER -> StockMoves(p, d, e)

\* A generated list holds what the stock of this moment leaves to buy, one line
\* for each short key, and a line without amount for a name wanted to taste only.
ListIsGenerated(p, d, e) ==
  \E l \in DOMAIN e.lists \ DOMAIN d.lists :
    LET new   == LinesOf(e, l)
        short == {k \in Keys : Need(p, d)[k] > QtyOf(d.stock, k)}
        loose == (UNION {d.recipes[i].taste : i \in {p.first, p.second} \ {NoRecipe}})
                   \ {k[1] : k \in short}
        open(line) == ~line.checked /\ ~line.frozen /\ line.source = "generated"
    IN  /\ e.lists = Put(d.lists, l, [status |-> "active"])
        /\ DOMAIN e.lines = DOMAIN d.lines \cup new
        /\ DOMAIN d.lines \cap new = {}
        /\ \A i \in DOMAIN d.lines : e.lines[i] = d.lines[i]
        /\ Cardinality(new) = Cardinality(short) + Cardinality(loose)
        /\ \A k \in short : \E i \in new :
             /\ open(e.lines[i])
             /\ <<e.lines[i].item, e.lines[i].unit>> = <<Author[k[1]], CanonUnit[k[2]]>>
             /\ e.lines[i].qty + QtyOf(d.stock, k) = Need(p, d)[k]
             /\ e.lines[i].nettable <=> ~Incompatible(d.stock, k)
        /\ \A n \in loose : \E i \in new :
             open(e.lines[i]) /\ e.lines[i].item = Author[n] /\ e.lines[i].qty = NoQty

\* An edit touches one line, and leaves it open and on its list.
LineIsEdited(p, d, e) ==
  /\ DOMAIN e.lines = DOMAIN d.lines
  /\ \A i \in DOMAIN d.lines \ {p.id} : e.lines[i] = d.lines[i]
  /\ LET old == d.lines[p.id]
         new == e.lines[p.id]
     IN  /\ ~new.frozen /\ new.list = old.list
         /\ new.checked = IF "checked" \in p.fields THEN p.checked ELSE old.checked
         /\ p.fields \subseteq {"checked"} => new = [old EXCEPT !.checked = new.checked]
         /\ ~(p.fields \subseteq {"checked"}) => new.source = "manual" /\ new.nettable
         /\ "quantity" \in p.fields => new.qty = p.amount /\ new.unit = p.unit
         /\ "item" \in p.fields => new.item = p.item

GroceryEffect(p, d, e) ==
  CASE p.kind = "create_list" -> ListIsGenerated(p, d, e)
    [] p.kind = "add_line" ->
         /\ e.lists = d.lists
         /\ \E i \in Ids \cap DOMAIN e.lines :
              /\ i \notin DOMAIN d.lines
              /\ e.lines = Put(d.lines, i, NewLine(p.list, p.item, p.unit, p.amount,
                                                   "manual", TRUE))
    [] p.kind = "update_line" -> e.lists = d.lists /\ LineIsEdited(p, d, e)
    [] p.kind = "delete_line" -> e.lists = d.lists /\ e.lines = Drop(d.lines, {p.id})
    [] p.kind = "delete_list" ->
         e.lists = Drop(d.lists, {p.list}) /\ e.lines = Drop(d.lines, LinesOf(d, p.list))
    [] p.kind = "archive" ->
         e.lines = d.lines /\ e.lists = Put(d.lists, p.list, [status |-> "archived"])
    [] p.kind = "submit" ->
         /\ e.lists = d.lists
         /\ e.lines = [i \in DOMAIN d.lines |->
              IF i \in Bought(p, d)
              THEN [d.lines[i] EXCEPT !.frozen = TRUE, !.applied = LineBase(d.lines[i])]
              ELSE d.lines[i]]
    [] OTHER -> e.lists = d.lists /\ e.lines = d.lines

RecipeEffect(p, d, e) ==
  CASE p.kind = "create_recipe" ->
         \E i \in DOMAIN e.recipes \ DOMAIN d.recipes : e.recipes = Put(d.recipes, i, p.recipe)
    [] p.kind = "update_recipe" -> e.recipes = Put(d.recipes, p.id, p.recipe)
    [] p.kind = "delete_recipe" -> e.recipes = Drop(d.recipes, {p.id})
    [] OTHER -> e.recipes = d.recipes

\* A cook adds one log, which says what was drawn and of how much.
LogEffect(r, p, d, e) ==
  CASE p.kind = "cook" ->
         /\ DOMAIN e.logs = DOMAIN d.logs \cup {r}
         /\ \A s \in DOMAIN d.logs : e.logs[s] = d.logs[s]
         /\ e.logs[r].recipe = p.recipe
         /\ \A k \in DOMAIN e.logs[r].drawn :
              /\ e.logs[r].drawn[k].before = QtyOf(d.stock, k)
              /\ e.logs[r].drawn[k].after  = QtyOf(e.stock, k)
         /\ \A k \in Keys :
              QtyOf(d.stock, k) # QtyOf(e.stock, k) => k \in DOMAIN e.logs[r].drawn
    [] p.kind = "delete_recipe" ->
         /\ DOMAIN e.logs = DOMAIN d.logs
         /\ \A s \in DOMAIN d.logs :
              /\ e.logs[s].drawn = d.logs[s].drawn
              /\ e.logs[s].recipe =
                   IF d.logs[s].recipe = p.id THEN NoRecipe ELSE d.logs[s].recipe
    [] OTHER -> e.logs = d.logs

Effect(r, p, d, e) ==
  /\ StockEffect(p, d, e)
  /\ GroceryEffect(p, d, e)
  /\ RecipeEffect(p, d, e)
  /\ LogEffect(r, p, d, e)

-----------------------------------------------------------------------------
Init ==
  /\ db \in Seeds
  /\ asked = [r \in Requests |-> Unasked]
  /\ verdict = [r \in Requests |-> IF r \in DOMAIN db.logs THEN "done" ELSE "pending"]

Ask(r) ==
  /\ asked[r] = Unasked /\ verdict[r] = "pending"
  /\ \E p \in Ops : asked' = [asked EXCEPT ![r] = p]
  /\ UNCHANGED <<db, verdict>>

Pending(r) == asked[r] # Unasked /\ verdict[r] = "pending"

Settle(r, v) == verdict' = [verdict EXCEPT ![r] = v] /\ UNCHANGED asked

\* The request takes effect.
TakeEffect(r) ==
  /\ Pending(r)
  /\ ~Missing(asked[r], db) /\ ~Closed(asked[r], db) /\ ~Senseless(asked[r], db)
  /\ Effect(r, asked[r], db, db')
  /\ Settle(r, "done")

\* A refusal changes nothing, and 404 and 422 have their reason.  401 and 409
\* are open to every request: the session may be gone, the database busy.
Refuse(r) ==
  /\ Pending(r)
  /\ \/ Settle(r, "401") \/ Settle(r, "409")
     \/ Missing(asked[r], db) /\ Settle(r, "404")
     \/ ~Missing(asked[r], db) /\ Senseless(asked[r], db) /\ Settle(r, "422")
  /\ UNCHANGED db

\* The server dies before it served some of the pending requests.
LoseSome ==
  /\ \E S \in SUBSET {r \in Requests : Pending(r)} :
       verdict' = [r \in Requests |-> IF r \in S THEN "lost" ELSE verdict[r]]
  /\ UNCHANGED <<db, asked>>

Next == LoseSome \/ \E r \in Requests : Ask(r) \/ TakeEffect(r) \/ Refuse(r)

Spec == Init /\ [][Next]_vars
=============================================================================

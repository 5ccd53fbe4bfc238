------------------------------ MODULE MCKitchen ------------------------------
(* Instances of Kitchen for TLC.  One name in two buckets is enough for     *)
(* compatible and incompatible stock, and two units of a bucket for scaled  *)
(* amounts.  "blank" stands for the text of which normalization leaves      *)
(* nothing, "eggs" for a text whose normal form "egg" is stable.            *)
EXTENDS Kitchen, TLC

McItems     == {"eggs", "egg", "milk", "blank"}
McNorm      == ("eggs" :> "egg") @@ ("egg" :> "egg") @@ ("milk" :> "milk") @@ ("blank" :> "blank")
McAuthor    == ("egg" :> "eggs") @@ ("milk" :> "milk") @@ ("blank" :> "blank")
McUnits     == {"unit", "pair", "g"}
McBucketOf  == ("unit" :> "count") @@ ("pair" :> "count") @@ ("g" :> "mass")
McScale     == ("unit" :> 1) @@ ("pair" :> 2) @@ ("g" :> 1)
McCanonUnit == ("count" :> "unit") @@ ("mass" :> "g")

Count == <<"egg", "count">>
Mass  == <<"egg", "mass">>

Egg(b, q) == [name |-> "egg", bucket |-> b, qty |-> q]
Want(c, m) == [k \in Keys |-> IF k = Count THEN c ELSE IF k = Mass THEN m ELSE 0]

Line(l, unit, q, checked, frozen) ==
  [NewLine(l, "eggs", unit, q, "manual", TRUE)
     EXCEPT !.checked = checked, !.frozen = frozen, !.applied = IF frozen THEN q ELSE NoQty]

\* Three eggs in stock, an omelette that takes two of them and five grams, and
\* a list with two ticked lines of the same key, a bought and an unticked one.
Kitchen1 ==
  [stock   |-> 1 :> Egg("count", 3),
   lists   |-> 1 :> [status |-> "active"],
   lines   |-> 1 :> Line(1, "pair", 1, TRUE, FALSE) @@ 2 :> Line(1, "unit", 1, TRUE, TRUE)
               @@ 3 :> Line(1, "g", 2, FALSE, FALSE) @@ 4 :> Line(1, "unit", 1, TRUE, FALSE),
   recipes |-> 1 :> [need |-> Want(2, 1), taste |-> {"egg"}],
   logs    |-> NoRows]

\* The same with stock in both buckets and no list.
Kitchen2 == [Kitchen1 EXCEPT !.stock = @ @@ 2 :> Egg("mass", 1),
                             !.lists = NoRows, !.lines = NoRows]

AddIn(m, unit, n) == [kind |-> "add_inventory", match |-> m, unit |-> unit, amount |-> n]
Patch(i, fields, m, unit, n, null) ==
  [kind |-> "update_inventory", id |-> i, fields |-> fields, match |-> m,
   unit |-> unit, amount |-> n, null |-> null]
CookIn(id, times, deduct) ==
  [kind |-> "cook", recipe |-> id, times |-> times, deduct |-> deduct]
OnList(kind, l) == [kind |-> kind, list |-> l]
OnLine(l, i, fields, unit, n, checked) ==
  [kind |-> "update_line", list |-> l, id |-> i, fields |-> fields, item |-> "eggs",
   unit |-> unit, amount |-> n, checked |-> checked, null |-> FALSE]
Generate(a, b, stray) ==
  [kind |-> "create_list", first |-> a, second |-> b, times |-> <<2, 1>>, stray |-> stray]

\* Stock under concurrent additions, corrections, deletions and cooks.
StockOps ==
  {AddIn("eggs", "pair", 1), AddIn("egg", "g", 1), AddIn("milk", "unit", 2),
   AddIn("blank", "unit", 1), [kind |-> "read"],
   Patch(1, {"quantity", "unit"}, "egg", "pair", 3, FALSE),
   Patch(1, {"quantity", "unit"}, "egg", "pair", 4, FALSE),
   Patch(1, {"quantity"}, "egg", "unit", 1, FALSE), Patch(1, {"item"}, "egg", "unit", 1, TRUE),
   Patch(1, {"match_name"}, "milk", "unit", 1, FALSE),
   [kind |-> "delete_inventory", id |-> 1],
   CookIn(1, 1, TRUE), CookIn(1, 2, TRUE), CookIn(2, 1, TRUE)}

\* A grocery list from generation to archive.
GroceryOps ==
  {OnList("submit", 1), OnList("archive", 1), OnList("delete_list", 1),
   OnList("submit", 2), Generate(1, NoRecipe, FALSE),
   OnLine(1, 1, {"quantity", "unit"}, "g", 3, FALSE),
   OnLine(1, 3, {"checked"}, "g", 1, TRUE),
   OnLine(1, 1, {"unit"}, "g", 1, FALSE),
   OnLine(1, 2, {"item"}, "g", 1, FALSE),
   [kind |-> "delete_line", list |-> 1, id |-> 1],
   [kind |-> "add_line", list |-> 1, item |-> "egg", unit |-> "unit", amount |-> NoQty],
   AddIn("egg", "unit", 1)}

\* Recipes changing under cooks and generated lists.
RecipeOps ==
  {CookIn(1, 1, TRUE), CookIn(1, 1, FALSE), CookIn(2, 1, TRUE),
   Generate(1, NoRecipe, FALSE), Generate(1, 2, FALSE), Generate(1, 1, FALSE),
   Generate(1, NoRecipe, TRUE),
   [kind |-> "create_recipe", recipe |-> [need |-> Want(1, 2), taste |-> {}], bad |-> FALSE],
   [kind |-> "create_recipe", recipe |-> [need |-> Want(1, 2), taste |-> {}], bad |-> TRUE],
   [kind |-> "update_recipe", id |-> 1, bad |-> FALSE,
    recipe |-> [need |-> Want(0, 3), taste |-> {"egg"}]],
   [kind |-> "update_recipe", id |-> 1, bad |-> TRUE,
    recipe |-> [need |-> Want(0, 3), taste |-> {}]],
   [kind |-> "delete_recipe", id |-> 1], AddIn("egg", "g", 2)}

Seed1 == {Kitchen1}
Seed2 == {Kitchen2}
Symmetry == Permutations(Requests)
=============================================================================

--------------------------- MODULE MCKitchenLedger ---------------------------
(* The refinement and liveness on the instance of MCKitchen, with a request  *)
(* of each shape of transaction: read, refusal, one write, loop.             *)
EXTENDS KitchenRefinement, MCKitchen

LedgerOps ==
  {[kind |-> "read"], AddIn("eggs", "pair", 1), AddIn("blank", "unit", 1),
   Patch(1, {"quantity", "unit"}, "egg", "pair", 4, FALSE),
   Patch(1, {"match_name"}, "milk", "unit", 1, FALSE),
   [kind |-> "delete_inventory", id |-> 1],
   CookIn(1, 1, TRUE), CookIn(1, 1, FALSE), CookIn(2, 1, TRUE),
   OnList("submit", 1), OnList("archive", 1), OnList("delete_list", 1),
   OnLine(1, 1, {"quantity", "unit"}, "g", 3, FALSE), OnLine(1, 2, {"item"}, "g", 1, FALSE),
   [kind |-> "delete_line", list |-> 1, id |-> 1],
   [kind |-> "add_line", list |-> 1, item |-> "egg", unit |-> "unit", amount |-> NoQty],
   Generate(1, NoRecipe, FALSE), Generate(1, NoRecipe, TRUE),
   [kind |-> "create_recipe", recipe |-> [need |-> Want(1, 2), taste |-> {}], bad |-> FALSE],
   [kind |-> "update_recipe", id |-> 1, bad |-> FALSE,
    recipe |-> [need |-> Want(0, 3), taste |-> {"egg"}]],
   [kind |-> "delete_recipe", id |-> 1]}

LedgerSeeds == Seed1 \cup Seed2
=============================================================================

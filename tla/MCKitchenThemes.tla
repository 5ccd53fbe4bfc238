--------------------------- MODULE MCKitchenThemes ---------------------------
(* The server under requests that are about one thing: the stock, a grocery *)
(* list from generation to archive, or recipes under cooks and lists.       *)
EXTENDS MCKitchen

VARIABLE theme   \* what the requests of the behaviour are about

OpsOf ==
  [stock |-> StockOps, lists |-> GroceryOps, recipes |-> RecipeOps]

ThemeOps   == UNION {OpsOf[t] : t \in DOMAIN OpsOf}
ThemeSeeds == Seed1 \cup Seed2

ThemesInit ==
  /\ theme \in DOMAIN OpsOf /\ Init
  /\ disk = IF theme = "lists" THEN Kitchen1 ELSE Kitchen2

ThemesNext ==
  /\ Next /\ theme' = theme
  /\ \A r \in Requests : op'[r] \in OpsOf[theme] \cup {NoOp}

ThemesSpec == ThemesInit /\ [][ThemesNext]_<<theme, vars>>
=============================================================================

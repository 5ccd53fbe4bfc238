---------------------------- MODULE MCKitchenText ----------------------------
(* Kitchen with the texts on which normalize_name is not idempotent ("buses" *)
(* is "bus", "bus" is "bu") or leaves nothing ("!!!").                        *)
EXTENDS Kitchen, TLC

TextItems  == {"buses", "bus", "bu", "!!!", ""}
TextNorm   == ("buses" :> "bus") @@ ("bus" :> "bu") @@ ("bu" :> "bu")
              @@ ("!!!" :> "") @@ ("" :> "")
TextAuthor == ("bus" :> "buses") @@ ("bu" :> "bus") @@ ("" :> "!!!")
TextUnits  == {"unit"}
TextBucket == "unit" :> "count"
TextScale  == "unit" :> 1
TextCanon  == "count" :> "unit"

OneBus == [need |-> [k \in Keys |-> IF k[1] = "bus" THEN 1 ELSE 0], taste |-> {}]

\* A recipe for one bus, an empty pantry and an empty list.
TextSeeds ==
  {[EmptyDb EXCEPT !.recipes = 1 :> OneBus, !.lists = 1 :> [status |-> "active"]]}

Generate == [kind |-> "create_list", first |-> 1, second |-> NoRecipe,
             times |-> <<1, 1>>, stray |-> FALSE]
Tick(l)  == [kind |-> "update_line", list |-> l, id |-> 1, fields |-> {"checked"},
             item |-> "bu", unit |-> "unit", amount |-> NoQty, checked |-> TRUE,
             null |-> FALSE]
Type(item) == [kind |-> "add_line", list |-> 1, item |-> item, unit |-> "unit",
               amount |-> 1]
TextOps == {Generate, Tick(1), Tick(2), Type("bu"), Type("!!!")}
           \cup {[kind |-> "submit", list |-> l] : l \in {1, 2}}
=============================================================================

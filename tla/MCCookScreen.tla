---------------------------- MODULE MCCookScreen ----------------------------
(* A recipe's screen: cooks from it, in one visit, in two, or with a        *)
(* housemate who cooks too; and what it says of the stock.                  *)
EXTENDS CookScreen, TLC

CONSTANT NoQty   \* the NULL of a quantity, for Availability

VARIABLES
  setting,             \* what the behaviour is about
  reqs, pantry, used   \* the variables of Availability

tableVars == <<reqs, pantry, used>>

Cooks     == INSTANCE CookScreen WITH MaxOthers <- 0, MaxVisits <- 1
Visits    == INSTANCE CookScreen WITH MaxCooks <- 1, MaxOthers <- 0
Household == INSTANCE CookScreen WITH MaxCooks <- 1, MaxVisits <- 1

\* The recipe and its stock: eggs by the piece, by the pair and by weight.
McNorm  == [i \in {"egg", "milk"} |-> i]
McUnits == {"unit", "pair", "g"}

Dish ==
  INSTANCE Availability
    WITH Requests <- {}, Items <- {"egg", "milk"}, Blank <- "milk", Norm <- McNorm,
         Author <- McNorm, Units <- McUnits,
         BucketOf <- [u \in McUnits |-> IF u = "g" THEN "mass" ELSE "count"],
         Scale <- [u \in McUnits |-> IF u = "pair" THEN 2 ELSE 1],
         CanonUnit <- [b \in {"count", "mass"} |-> IF b = "mass" THEN "g" ELSE "unit"],
         NoUnit <- "unit", MaxBase <- 6, NoQty <- NoQty,
         Amounts <- {1, 2}, MaxLines <- 2, Held <- {0, 1, 3}, Multipliers <- {1, 2},
         stock <- pantry, log <- used

McInit ==
  /\ setting \in {"cooks", "visits", "household", "table"}
  /\ Init
  /\ IF setting = "table" THEN Dish!Init ELSE reqs = <<>> /\ pantry = <<>> /\ used = <<>>

McNext ==
  \/ setting = "cooks" /\ Cooks!Next /\ UNCHANGED <<setting, tableVars>>
  \/ setting = "visits" /\ Visits!Next /\ UNCHANGED <<setting, tableVars>>
  \/ setting = "household" /\ Household!Next /\ UNCHANGED <<setting, tableVars>>
  \/ setting = "table" /\ Dish!Next /\ UNCHANGED <<setting, vars>>

McSpec == McInit /\ [][McNext]_<<setting, vars, tableVars>>

-----------------------------------------------------------------------------
(* Properties; RestKnowsCooks keeps its name.                            *)

\* Every ingredient is in one row of the table of the recipe's screen, the banner
\* counts its gaps, and a grocery list made now has the same ones.
TableIsTrue == setting = "table" => Dish!ListAgreesWithTable /\ Dish!TableHidesNothing

\* The history of a cook tells of no gap if and only if the screen told of none.
CookKeepsPromise == Dish!CookKeepsPromise
=============================================================================

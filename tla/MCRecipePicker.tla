--------------------------- MODULE MCRecipePicker ---------------------------
(* The list of recipes and its grocery dialog while the household deletes   *)
(* recipes: with a search and an amount, or with attempts that fail.        *)
EXTENDS RecipePicker, TLC

VARIABLE setting   \* what is done on the screen

McFirst   == <<"pie", "ramen">>
McCuisine == ("pie" :> "") @@ ("ramen" :> "asian")
McTags    == ("pie" :> {"sweet"}) @@ ("ramen" :> {"quick"})

\* Two attempts to make the list, of recipes that are gone by then.
Gone == INSTANCE RecipePicker WITH Controls <- {"cuisine"}, MaxPosts <- 2

McInit == Init /\ setting \in {"search", "gone"}

McNext ==
  \/ setting = "search" /\ Next /\ UNCHANGED setting
  \/ setting = "gone" /\ Gone!Next /\ UNCHANGED setting

McSpec == McInit /\ [][McNext]_<<setting, vars>>
=============================================================================

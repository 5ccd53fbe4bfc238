--------------------------- MODULE MCGroceryScreen ---------------------------
(* The screen of a grocery list: with ticks and submits that overlap, with  *)
(* a line that is edited and ticked, and with an editor open while the      *)
(* household changes the list.                                              *)
EXTENDS GroceryScreen

\* The lines of a list differ in nothing but their names.
LinesAlike == Permutations(Lines)

VARIABLE setting   \* what is done on the screen

Household == {"archive", "edit", "tick"}

Corrections == INSTANCE GroceryScreen WITH Offered <- {"edit", "tick"}, Others <- {}

\* One edit while others change the list.
Shared == INSTANCE GroceryScreen WITH Offered <- {"edit"}, Others <- Household, MaxCalls <- 1

McInit == Init /\ setting \in {"ticks", "corrections", "shared"}

McNext ==
  /\ \/ setting = "ticks" /\ Next
     \/ setting = "corrections" /\ Corrections!Next
     \/ setting = "shared" /\ Shared!Next
  /\ UNCHANGED setting

McSpec == McInit /\ [][McNext]_<<setting, vars>>
=============================================================================

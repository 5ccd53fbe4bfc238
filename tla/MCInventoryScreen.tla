------------------------- MODULE MCInventoryScreen -------------------------
(* The store cupboard's screen: with calls that overlap, with the editor    *)
(* open while the household changes the stock, and one edit from the text   *)
(* typed to the row stored.  A behaviour is about one of them.              *)
EXTENDS InventoryScreen

VARIABLES
  setting,                               \* what is done on the screen
  stockRow, stockDraft, patch, outcome   \* the variables of StockEdit

editVars == <<stockRow, stockDraft, patch, outcome>>

\* The editor, while two changes of others come in.
Panel ==
  INSTANCE InventoryScreen
    WITH Offered <- {"edit"}, Others <- {"edit", "add", "delete"}, MaxCalls <- 1, MaxOthers <- 2

\* Known units, plurals, and words of which the two sides see different singulars.
Unit(stem, ending) == [stem |-> stem, ending |-> ending, dot |-> FALSE]
McUnitWords ==
  {Unit("kg", ""), Unit("g", ""), Unit("cup", "s"), Unit("dozen", ""), Unit("bo", "xes"),
   Unit("bo", "x"), Unit("lo", "aves"), Unit("lo", "af"), Unit("bu", "ses"),
   Unit("pat", "ie"), Unit("pat", "ies"), [stem |-> "", ending |-> "", dot |-> TRUE]}

Edit ==
  INSTANCE StockEdit WITH Words <- McUnitWords, Digits <- {2, 4, 6}, Grain <- 2,
                          row <- stockRow, draft <- stockDraft, body <- patch

McInit ==
  /\ setting \in {"stock", "panel", "edit"}
  /\ IF setting = "panel" THEN Panel!Init ELSE Init
  /\ IF setting = "edit"
     THEN Edit!Init
     ELSE /\ stockRow = Edit!Stocked(4, Unit("g", "")) /\ stockDraft = Edit!NoDraft
          /\ patch = Edit!NoBody /\ outcome = "none"

McNext ==
  \/ setting = "stock" /\ Next /\ UNCHANGED <<setting, editVars>>
  \/ setting = "panel" /\ Panel!Next /\ UNCHANGED <<setting, editVars>>
  \/ setting = "edit" /\ Edit!Next /\ UNCHANGED <<setting, vars>>

McSpec == McInit /\ [][McNext]_<<setting, vars, editVars>>

-----------------------------------------------------------------------------
(* Properties; those of InventoryScreen keep their names.                   *)

\* The screen and its calls are of their types, and the edited row is one the server
\* can hold.
StockTypeOK ==
  /\ setting = "stock" => TypeOK
  /\ setting = "panel" => Panel!TypeOK
  /\ setting = "edit" => Edit!TypeOK

\* An edit that goes through stores what the form showed, and nothing it rounded; no
\* quantity is sent without its unit.
StoresWhatWasTyped == Edit!StoresWhatWasTyped
=============================================================================

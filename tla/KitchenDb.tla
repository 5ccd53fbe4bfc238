------------------------------ MODULE KitchenDb ------------------------------
(***************************************************************************)
(* The household database: the tables a request reads and writes, and what *)
(* one SQL statement or one loop body of a handler does to them.           *)
(*                                                                         *)
(* A table is a partial function from primary keys to rows.  Amounts are   *)
(* integers standing for the floats of the code; MaxBase is the largest    *)
(* amount the CHECK constraint of inventory_items accepts (a finite one).  *)
(* Timestamps, attribution and display text are left out.                  *)
(***************************************************************************)
EXTENDS Integers, FiniteSets, Sequences, FiniteSetsExt, Functions

CONSTANTS
  Requests,   \* the HTTP requests of a behaviour
  Items,      \* ingredient texts, as a household member types them
  Blank,      \* the normal form of a text of which nothing is left ("")
  Norm,       \* normalize_name: [Items -> Items]
  Author,     \* the text the recipes use for a normal form: [Names -> Items]
  Units,      \* unit tokens
  BucketOf,   \* bucket_of: [Units -> buckets]
  Scale,      \* factor_to_base: [Units -> Nat \ {0}]
  CanonUnit,  \* canon_unit: [buckets -> Units]
  NoUnit,     \* the NULL of a unit column, a bare count
  MaxBase,    \* the largest quantity_base the database stores
  NoQty       \* the NULL of a quantity column ("to taste")

Names   == Range(Norm)
Buckets == Range(BucketOf)
Keys    == Names \X Buckets
Ids     == Nat \ {0}

NoRecipe == 0   \* cook_logs.recipe_id IS NULL

ASSUME TextAssumption ==
  /\ Blank \in Items
  /\ Norm \in [Items -> Items]
  /\ Norm[Blank] = Blank
  /\ Author \in [Names -> Items]
  /\ \A n \in Names : Norm[Author[n]] = n

ASSUME UnitAssumption ==
  /\ DOMAIN BucketOf = Units
  /\ NoUnit \in Units
  /\ Scale \in [Units -> Nat \ {0}]
  /\ CanonUnit \in [Buckets -> Units]
  /\ \A b \in Buckets : BucketOf[CanonUnit[b]] = b /\ Scale[CanonUnit[b]] = 1

ASSUME AmountAssumption == MaxBase \in Nat /\ NoQty \notin Nat

-----------------------------------------------------------------------------
(* Rows and tables.                                                        *)

StockRow == [name : Names, bucket : Buckets, qty : Nat]

GroceryList == [status : {"active", "archived"}]

GroceryLine ==
  [list : Ids, item : Items, unit : Units, qty : Nat \cup {NoQty},
   checked : BOOLEAN, frozen : BOOLEAN, applied : Nat \cup {NoQty},
   source : {"generated", "manual"}, nettable : BOOLEAN]

\* What aggregate() makes of the ingredients of a recipe: the quantified need
\* of each (normalized_name, bucket) group, and the names it lists to taste.
Recipe == [need : [Keys -> Nat], taste : SUBSET Names]

\* One draw of a cook log: the row's amount before and after.
Draw == [before : Nat, after : Nat]

IsTable(t, Row) ==
  /\ DOMAIN t \subseteq Ids
  /\ IsFiniteSet(DOMAIN t)
  /\ t \in [DOMAIN t -> Row]

IsLog(log) ==
  /\ log = [recipe |-> log.recipe, drawn |-> log.drawn]
  /\ log.recipe \in Nat
  /\ DOMAIN log.drawn \subseteq Keys
  /\ log.drawn \in [DOMAIN log.drawn -> Draw]

IsDb(db) ==
  /\ db = [stock |-> db.stock, lists |-> db.lists, lines |-> db.lines,
           recipes |-> db.recipes, logs |-> db.logs]
  /\ IsTable(db.stock, StockRow)
  /\ \A i \in DOMAIN db.stock : db.stock[i].qty <= MaxBase
  /\ IsTable(db.lists, GroceryList)
  /\ IsTable(db.lines, GroceryLine)
  /\ IsTable(db.recipes, Recipe)
  /\ DOMAIN db.logs \subseteq Requests
  /\ \A r \in DOMAIN db.logs : IsLog(db.logs[r])

\* UNIQUE (match_name, unit_bucket).
KeyOf(row) == <<row.name, row.bucket>>
UniqueKeys(stock) ==
  \A i, j \in DOMAIN stock : KeyOf(stock[i]) = KeyOf(stock[j]) => i = j

\* The foreign keys: a line belongs to a list, a log names a recipe or none.
ForeignKeys(db) ==
  /\ \A i \in DOMAIN db.lines : db.lines[i].list \in DOMAIN db.lists
  /\ \A r \in DOMAIN db.logs :
       db.logs[r].recipe \in DOMAIN db.recipes \cup {NoRecipe}

NoRows  == [i \in {} |-> i]
EmptyDb == [stock |-> NoRows, lists |-> NoRows, lines |-> NoRows,
            recipes |-> NoRows, logs |-> NoRows]

-----------------------------------------------------------------------------
(* SQL statements.                                                         *)

\* An INTEGER PRIMARY KEY without AUTOINCREMENT: the id of a deleted last row
\* is given out again.
NextId(t) == IF DOMAIN t = {} THEN 1 ELSE Max(DOMAIN t) + 1

Put(t, i, row) == [j \in DOMAIN t \cup {i} |-> IF j = i THEN row ELSE t[j]]
Drop(t, S)     == Restrict(t, DOMAIN t \ S)

HasKey(stock, k) == \E i \in DOMAIN stock : KeyOf(stock[i]) = k
IdOf(stock, k)   == CHOOSE i \in DOMAIN stock : KeyOf(stock[i]) = k
QtyOf(stock, k)  == IF HasKey(stock, k) THEN stock[IdOf(stock, k)].qty ELSE 0

\* INSERT ... ON CONFLICT (match_name, unit_bucket) DO UPDATE.
UpsertId(stock, k) == IF HasKey(stock, k) THEN IdOf(stock, k) ELSE NextId(stock)
Upsert(stock, k, add) ==
  Put(stock, UpsertId(stock, k),
      [name |-> k[1], bucket |-> k[2], qty |-> QtyOf(stock, k) + add])

\* Mutant: a bound one too high.
StorableOver(qty) == qty <= MaxBase + 1

\* CHECK (quantity_base >= 0 AND quantity_base < 9e999).
Storable(qty) == qty <= MaxBase

LinesOf(db, l) == {i \in DOMAIN db.lines : db.lines[i].list = l}

\* add_to_inventory_calc: the key and the canonical amount of an addition.  It
\* normalizes the match name it is given, whoever the caller is.
AddKey(matchName, unit) == <<Norm[matchName], BucketOf[unit]>>
AddBase(amount, unit)   == amount * Scale[unit]

-----------------------------------------------------------------------------
(* Grocery generation and cooking, one recipe group at a time.             *)

\* Positive stock of a name in another bucket: it makes a shortfall uncertain.
Incompatible(stock, k) ==
  \E i \in DOMAIN stock : /\ stock[i].name = k[1]
                          /\ stock[i].bucket # k[2]
                          /\ stock[i].qty > 0

\* Mutant: the list ignores the stock.
Wants(need, stock) == {k \in Keys : need[k] > 0}

\* generate_lines for the total need of the selected recipes: the lines to
\* insert, without the list they go to.
Shortfalls(need, stock) == {k \in Keys : need[k] > QtyOf(stock, k)}

NewLine(list, item, unit, qty, source, nettable) ==
  [list |-> list, item |-> item, unit |-> unit, qty |-> qty,
   checked |-> FALSE, frozen |-> FALSE, applied |-> NoQty,
   source |-> source, nettable |-> nettable]

GeneratedLines(list, need, taste, stock) ==
  {NewLine(list, Author[k[1]], CanonUnit[k[2]], need[k] - QtyOf(stock, k),
           "generated", ~Incompatible(stock, k)) : k \in Shortfalls(need, stock)}
  \cup
  {NewLine(list, Author[n], NoUnit, NoQty, "generated", FALSE) :
     n \in {m \in taste : \A k \in Shortfalls(need, stock) : k[1] # m}}

\* deduct_calc: the draws of a cook, clamped at what the row holds.
Draws(need, stock) ==
  [k \in {k \in Keys : need[k] > 0 /\ QtyOf(stock, k) > 0} |->
     LET have == QtyOf(stock, k)
     IN  [before |-> have,
          after  |-> IF need[k] < have THEN have - need[k] ELSE 0]]

\* A line that a submit buys.  Mutant: a bought line is bought again.
EligibleAgain(line) == line.checked /\ line.qty # NoQty
Eligible(line) == line.checked /\ ~line.frozen /\ line.qty # NoQty
=============================================================================

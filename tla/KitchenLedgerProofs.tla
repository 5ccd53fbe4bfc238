------------------------- MODULE KitchenLedgerProofs --------------------------
(* The server implements the ledger (HandledIsGranted, Refines).              *)
(* A transaction that was handled has made of the committed database what the *)
(* ledger makes of it in one step, and no other request commits in between.   *)
(* Inside a loop the invariant says which part of that is done.  Each handler *)
(* has a lemma, in the order of Kitchen; the steps are mapped at the end.     *)
EXTENDS KitchenRefinement, KitchenProofs

-----------------------------------------------------------------------------
(* Running totals.                                                          *)

LEMMA LeastExists ==
  ASSUME NEW S \in SUBSET Nat, S # {}
  PROVE  \E m \in S : \A x \in S : m =< x
<1>1. PICK a \in S : TRUE
  OBVIOUS
<1> DEFINE T == {x \in S : x =< a}
<1>2. T \in SUBSET (0 .. a) /\ a \in T
  <2>1. a \in Nat
    BY <1>1
  <2>2. \A x \in T : x \in Nat /\ x =< a
    OBVIOUS
  <2>3. \A x \in T : x \in 0 .. a
    BY <2>1, <2>2
  <2>4. a =< a
    BY <2>1
  <2> QED
    BY <1>1, <2>3, <2>4
<1>3. IsFiniteSet(T)
  <2>1. 0 \in Int /\ a \in Int
    BY <1>1
  <2>2. IsFiniteSet(0 .. a)
    BY <2>1, FS_Interval
  <2> QED
    BY <1>2, <2>2, FS_Subset
<1>4. \E m \in T : \A x \in T : m =< x
  <2>1. T \in SUBSET Nat /\ T # {}
    BY <1>2
  <2> HIDE DEF T
  <2> QED
    BY <1>3, <2>1, ExtremaExist
<1>6. PICK m \in T : \A x \in T : m =< x
  BY <1>4
<1>5. \A x \in S : m =< x
  BY <1>1, <1>6
<1> QED
  BY <1>5, <1>6

\* The totals of a sequence of amounts.
Totals(u, c) == u = [n \in Nat |-> IF n = 0 THEN 0 ELSE u[n - 1] + c[n]]

LEMMA TotalsStep ==
  ASSUME NEW u, NEW c, Totals(u, c)
  PROVE  u[0] = 0 /\ \A n \in Nat \ {0} : u[n] = u[n - 1] + c[n]
<1> DEFINE e == [n \in Nat |-> IF n = 0 THEN 0 ELSE u[n - 1] + c[n]]
<1>1. e[0] = 0 /\ \A n \in Nat \ {0} : e[n] = u[n - 1] + c[n]
  OBVIOUS
<1>2. u = e
  BY DEF Totals
<1> HIDE DEF e
<1> QED
  BY <1>1, <1>2

LEMMA TotalsExist ==
  ASSUME NEW c \in [Nat -> Nat]
  PROVE  \E u : Totals(u, c)
<1> DEFINE Run(n, g) == /\ g \in [0 .. n -> Nat] /\ g[0] = 0
                        /\ \A i \in 1 .. n : g[i] = g[i - 1] + c[i]
<1>1. \A n \in Nat : \E g : Run(n, g)
  <2> DEFINE Bad == {n \in Nat : ~\E g : Run(n, g)}
  <2>1. SUFFICES ASSUME Bad # {} PROVE FALSE
    OBVIOUS
  <2>2. PICK n \in Bad : \A m \in Bad : n =< m
    BY <2>1, LeastExists
  <2>3. n \in Nat /\ ~\E g : Run(n, g)
    OBVIOUS
  <2>4. CASE n = 0
    <3>1. Run(0, [i \in 0 .. 0 |-> 0])
      OBVIOUS
    <3> QED
      BY <2>3, <2>4, <3>1
  <2>5. CASE n # 0
    <3>1. n - 1 \in Nat /\ n - 1 \notin Bad
      <4>1. n - 1 \in Nat /\ ~(n =< n - 1)
        BY <2>3, <2>5
      <4> HIDE DEF Bad
      <4> QED
        BY <2>2, <4>1
    <3>2. PICK g : Run(n - 1, g)
      BY <3>1
    <3> DEFINE h == [i \in 0 .. n |-> IF i = n THEN g[n - 1] + c[n] ELSE g[i]]
    <3>3. h \in [0 .. n -> Nat]
      BY <2>3, <2>5, <3>2
    <3>4. h[0] = 0
      BY <2>3, <2>5, <3>2
    <3>5. ASSUME NEW i \in 1 .. n PROVE h[i] = h[i - 1] + c[i]
      <4>1. i \in Nat /\ i - 1 \in 0 .. (n - 1) /\ i - 1 # n /\ i \in 0 .. n /\ i - 1 \in 0 .. n
        BY <2>3, <2>5, <3>5
      <4>2. h[i - 1] = g[i - 1] /\ h[i] = IF i = n THEN g[n - 1] + c[n] ELSE g[i]
        BY <4>1
      <4>3. i # n => i \in 1 .. (n - 1)
        BY <2>3, <3>5, <4>1
      <4>4. i # n => g[i] = g[i - 1] + c[i]
        BY <3>2, <4>3
      <4> QED
        BY <4>2, <4>4
    <3>6. Run(n, h)
      BY <3>3, <3>4, <3>5
    <3> QED
      BY <2>3, <3>6
  <2> QED
    BY <2>4, <2>5
<1>2. ASSUME NEW n \in Nat, NEW g, Run(n, g), NEW h, Run(n + 1, h)
      PROVE  \A i \in 0 .. n : g[i] = h[i]
  <2> DEFINE Bad == {i \in 0 .. n : g[i] # h[i]}
  <2>1. SUFFICES ASSUME Bad # {} PROVE FALSE
    OBVIOUS
  <2>2. PICK i \in Bad : \A j \in Bad : i =< j
    <3>1. Bad \in SUBSET Nat
      BY <1>2
    <3> HIDE DEF Bad
    <3> QED
      BY <2>1, <3>1, LeastExists
  <2>3. i \in 0 .. n /\ g[i] # h[i]
    OBVIOUS
  <2>4. i # 0
    BY <1>2, <2>3
  <2>5. i \in 1 .. n /\ i - 1 \in 0 .. n /\ i \in 1 .. (n + 1)
    BY <1>2, <2>3, <2>4
  <2>6. i - 1 \notin Bad
    BY <2>2, <2>5
  <2>7. g[i - 1] = h[i - 1]
    BY <2>5, <2>6
  <2>8. g[i] = g[i - 1] + c[i] /\ h[i] = h[i - 1] + c[i]
    BY <1>2, <2>5
  <2> QED
    BY <2>3, <2>7, <2>8
<1> DEFINE run(n) == CHOOSE g : Run(n, g)
           u      == [n \in Nat |-> run(n)[n]]
<1>3. \A n \in Nat : Run(n, run(n))
  BY <1>1
<1>4. u[0] = 0
  BY <1>3
<1>5. ASSUME NEW n \in Nat \ {0} PROVE u[n] = u[n - 1] + c[n]
  <2>1. n - 1 \in Nat /\ n = (n - 1) + 1 /\ n \in 1 .. n /\ n - 1 \in 0 .. (n - 1)
    BY <1>5
  <2>2. Run(n - 1, run(n - 1)) /\ Run(n, run(n))
    BY <1>3, <2>1
  <2> HIDE DEF Run, run
  <2>3. \A i \in 0 .. (n - 1) : run(n - 1)[i] = run(n)[i]
    BY <1>2, <2>1, <2>2
  <2>4. run(n)[n] = run(n)[n - 1] + c[n]
    BY <2>1, <2>2 DEF Run
  <2> QED
    BY <1>5, <2>1, <2>3, <2>4
<1> DEFINE e == [n \in Nat |-> IF n = 0 THEN 0 ELSE u[n - 1] + c[n]]
<1>6. DOMAIN u = Nat /\ DOMAIN e = Nat
  OBVIOUS
<1>7. \A n \in Nat : e[n] = IF n = 0 THEN 0 ELSE u[n - 1] + c[n]
  OBVIOUS
<1>8. u = [n \in Nat |-> u[n]] /\ e = [n \in Nat |-> e[n]]
  OBVIOUS
<1> HIDE DEF u
<1>9. u = e
  BY <1>4, <1>5, <1>7, <1>8
<1> QED
  BY <1>9 DEF Totals

\* One more amount at m is one more in every total from m on.
LEMMA TotalsAdd ==
  ASSUME NEW c \in [Nat -> Nat], NEW d \in [Nat -> Nat], NEW m \in Nat \ {0},
         \A n \in Nat \ {m} : d[n] = c[n],
         NEW u, Totals(u, c), NEW v, Totals(v, d), NEW n \in Nat
  PROVE  /\ u[n] \in Nat
         /\ v[n] = IF n >= m THEN u[n] + (d[m] - c[m]) ELSE u[n]
<1> DEFINE Good(k) == /\ u[k] \in Nat
                      /\ v[k] = IF k >= m THEN u[k] + (d[m] - c[m]) ELSE u[k]
           Bad == {k \in Nat : ~Good(k)}
<1>1. SUFFICES ASSUME Bad # {} PROVE FALSE
  OBVIOUS
<1>2. PICK k \in Bad : \A j \in Bad : k =< j
  BY <1>1, LeastExists
<1>3. k \in Nat /\ ~Good(k)
  OBVIOUS
<1>4. u[0] = 0 /\ v[0] = 0
  BY TotalsStep
<1>5. k # 0
  BY <1>3, <1>4
<1>6. k - 1 \in Nat /\ k - 1 \notin Bad
  BY <1>2, <1>3, <1>5
<1>7. Good(k - 1)
  BY <1>6
<1>8. u[k] = u[k - 1] + c[k] /\ v[k] = v[k - 1] + d[k]
  BY <1>3, <1>5, TotalsStep
<1>9. c[k] \in Nat /\ d[k] \in Nat /\ c[m] \in Nat /\ d[m] \in Nat
  BY <1>3
<1>10. CASE k = m
  BY <1>3, <1>6, <1>7, <1>8, <1>9, <1>10
<1>11. CASE k # m
  <2>1. d[k] = c[k]
    BY <1>3, <1>11
  <2>2. k >= m <=> k - 1 >= m
    BY <1>3, <1>11
  <2> QED
    BY <1>3, <1>6, <1>7, <1>8, <1>9, <2>1, <2>2
<1> QED
  BY <1>10, <1>11

-----------------------------------------------------------------------------
(* The ledger's operators are those of the database.                        *)

LEMMA SameQty ==
  ASSUME NEW s, NEW k
  PROVE  /\ Ledger!HasKey(s, k) <=> HasKey(s, k)
         /\ Ledger!QtyOf(s, k) = QtyOf(s, k)
         /\ Ledger!Incompatible(s, k) <=> Incompatible(s, k)
  BY DEF Ledger!HasKey, HasKey, Ledger!KeyOf, KeyOf, Ledger!QtyOf, QtyOf, Ledger!IdOf, IdOf,
         Ledger!Incompatible, Incompatible

LEMMA SameSize == \A S : Ledger!Cardinality(S) = Cardinality(S)
  BY DEF Ledger!Cardinality, Cardinality

LEMMA SameKeys ==
  /\ \A s : Ledger!UniqueKeys(s) <=> UniqueKeys(s)
  /\ \A row : Ledger!KeyOf(row) = KeyOf(row)
  BY DEF Ledger!UniqueKeys, UniqueKeys, Ledger!KeyOf, KeyOf

LEMMA SameRows ==
  /\ \A d, l : Ledger!LinesOf(d, l) = LinesOf(d, l)
  /\ \A t, i, row : Ledger!Put(t, i, row) = Put(t, i, row)
  /\ \A t, S : Ledger!Drop(t, S) = Drop(t, S)
  /\ \A t : Ledger!NextId(t) = NextId(t)
  /\ Ledger!Keys = Keys /\ Ledger!Ids = Ids /\ Ledger!NoRecipe = NoRecipe
  BY DEF Ledger!LinesOf, LinesOf, Ledger!Put, Put, Ledger!Drop, Drop, Ledger!Restrict, Restrict,
         Ledger!NextId, NextId, Ledger!Max, Max, Ledger!NoRecipe, NoRecipe,
         Ledger!Keys, Keys, Ledger!Names, Names, Ledger!Buckets, Buckets, Ledger!Range, Range,
         Ledger!Ids, Ids

LEMMA SameLines ==
  /\ \A item, unit : Ledger!AddKey(item, unit) = AddKey(item, unit)
  /\ \A amount, unit : Ledger!AddBase(amount, unit) = AddBase(amount, unit)
  /\ \A line : Ledger!Eligible(line) <=> Eligible(line)
  /\ \A line : Ledger!LineKey(line) = AddKey(Norm[line.item], line.unit)
  /\ \A line : Ledger!LineBase(line) = AddBase(line.qty, line.unit)
  /\ \A l, item, unit, qty, source, nettable :
       Ledger!NewLine(l, item, unit, qty, source, nettable)
         = NewLine(l, item, unit, qty, source, nettable)
  BY DEF Ledger!AddKey, AddKey, Ledger!AddBase, AddBase, Ledger!Eligible, Eligible,
         Ledger!LineKey, Ledger!LineBase, Ledger!NewLine, NewLine

-----------------------------------------------------------------------------
(* What submitted lines add up to.                                          *)

\* The amounts of these lines, by their ids.
Adds(lines, S) ==
  [n \in Nat |-> IF n \in S THEN AddBase(lines[n].qty, lines[n].unit) ELSE 0]

LEMMA AddsType ==
  ASSUME NEW lines, IsTable(lines, GroceryLine), NEW S \in SUBSET DOMAIN lines,
         \A i \in S : lines[i].qty # NoQty
  PROVE  Adds(lines, S) \in [Nat -> Nat]
<1> SUFFICES ASSUME NEW i \in S PROVE AddBase(lines[i].qty, lines[i].unit) \in Nat
  BY DEF Adds
<1>1. lines[i] \in GroceryLine
  BY DEF IsTable
<1>2. lines[i].qty \in Nat /\ lines[i].unit \in Units
  BY <1>1 DEF GroceryLine
<1> QED
  BY <1>2, AddBaseType

LEMMA SumIsTotal ==
  ASSUME NEW lines, IsTable(lines, GroceryLine), NEW S \in SUBSET DOMAIN lines,
         \A i \in S : lines[i].qty # NoQty
  PROVE  \E u : Totals(u, Adds(lines, S)) /\ Ledger!SumOf(lines, S) = u[NextId(lines)]
<1> DEFINE u == CHOOSE upTo :
                  upTo = [n \in Nat |-> IF n = 0 THEN 0
                            ELSE upTo[n - 1] + (IF n \in S THEN Ledger!LineBase(lines[n]) ELSE 0)]
<1>1. Ledger!SumOf(lines, S) = u[Ledger!NextId(lines)]
  BY DEF Ledger!SumOf
<1>2. ASSUME NEW v
      PROVE  [n \in Nat |-> IF n = 0 THEN 0
                ELSE v[n - 1] + (IF n \in S THEN Ledger!LineBase(lines[n]) ELSE 0)]
             = [n \in Nat |-> IF n = 0 THEN 0 ELSE v[n - 1] + Adds(lines, S)[n]]
  BY SameLines DEF Adds
<1>3. PICK v : Totals(v, Adds(lines, S))
  BY AddsType, TotalsExist
<1>4. v = [n \in Nat |-> IF n = 0 THEN 0
             ELSE v[n - 1] + (IF n \in S THEN Ledger!LineBase(lines[n]) ELSE 0)]
  BY <1>2, <1>3 DEF Totals
<1>5. u = [n \in Nat |-> IF n = 0 THEN 0
             ELSE u[n - 1] + (IF n \in S THEN Ledger!LineBase(lines[n]) ELSE 0)]
  BY <1>4
<1> HIDE DEF u
<1>6. Totals(u, Adds(lines, S))
  BY <1>2, <1>5 DEF Totals
<1> QED
  BY <1>1, <1>6, SameRows

\* The empty sum, and a sum with one more line.
LEMMA SumOfNone ==
  ASSUME NEW lines, IsTable(lines, GroceryLine)
  PROVE  Ledger!SumOf(lines, {}) = 0
<1>1. PICK u : Totals(u, Adds(lines, {})) /\ Ledger!SumOf(lines, {}) = u[NextId(lines)]
  BY SumIsTotal
<1>2. \A n \in Nat : Adds(lines, {})[n] = 0
  BY DEF Adds
<1> DEFINE Bad == {n \in Nat : u[n] # 0}
<1>3. SUFFICES ASSUME Bad # {} PROVE FALSE
  <2>1. NextId(lines) \in Nat
    BY NextIdIsFresh DEF Ids
  <2> QED
    BY <1>1, <2>1
<1>4. PICK n \in Bad : \A m \in Bad : n =< m
  BY <1>3, LeastExists
<1>5. n \in Nat /\ u[n] # 0
  OBVIOUS
<1>6. u[0] = 0 /\ \A m \in Nat \ {0} : u[m] = u[m - 1] + Adds(lines, {})[m]
  BY <1>1, TotalsStep
<1>7. n # 0 /\ n - 1 \in Nat /\ ~(n =< n - 1)
  BY <1>5, <1>6
<1>8. u[n - 1] = 0
  BY <1>4, <1>7
<1> QED
  BY <1>2, <1>5, <1>6, <1>7, <1>8

LEMMA SumOfMore ==
  ASSUME NEW lines, IsTable(lines, GroceryLine), NEW S \in SUBSET DOMAIN lines,
         NEW m \in DOMAIN lines \ S, \A i \in S \cup {m} : lines[i].qty # NoQty
  PROVE  /\ Ledger!SumOf(lines, S) \in Nat
         /\ Ledger!SumOf(lines, S \cup {m})
              = Ledger!SumOf(lines, S) + AddBase(lines[m].qty, lines[m].unit)
<1> DEFINE c == Adds(lines, S)
           d == Adds(lines, S \cup {m})
           n == NextId(lines)
<1>1. c \in [Nat -> Nat] /\ d \in [Nat -> Nat]
  BY AddsType
<1>2. PICK u : Totals(u, c) /\ Ledger!SumOf(lines, S) = u[n]
  BY SumIsTotal
<1>3. PICK v : Totals(v, d) /\ Ledger!SumOf(lines, S \cup {m}) = v[n]
  BY SumIsTotal
<1>4. m \in Nat \ {0}
  BY DEF IsTable, Ids
<1>5. (\A i \in Nat \ {m} : d[i] = c[i]) /\ c[m] = 0 /\ d[m] = AddBase(lines[m].qty, lines[m].unit)
  BY <1>4 DEF Adds
<1>6. n \in Nat /\ n >= m
  <2>1. DOMAIN lines \in SUBSET Nat /\ IsFiniteSet(DOMAIN lines) /\ DOMAIN lines # {}
    BY DEF IsTable, Ids
  <2>2. Max(DOMAIN lines) \in DOMAIN lines /\ Max(DOMAIN lines) >= m
    BY <2>1, MaxIsGreatest
  <2> QED
    BY <1>4, <2>1, <2>2 DEF NextId
<1> HIDE DEF c, d, n
<1>7. u[n] \in Nat /\ v[n] = u[n] + (d[m] - c[m])
  BY <1>1, <1>2, <1>3, <1>4, <1>5, <1>6, TotalsAdd
<1>8. d[m] - c[m] = d[m]
  BY <1>1, <1>4, <1>5
<1> QED
  BY <1>2, <1>3, <1>5, <1>7, <1>8

-----------------------------------------------------------------------------
(* Effects: the tables a request leaves alone.                              *)

StockKinds  == {"add_inventory", "update_inventory", "delete_inventory", "submit", "cook"}
ListKinds   == {"create_list", "add_line", "update_line", "delete_line", "delete_list",
                "archive", "submit"}
RecipeKinds == {"create_recipe", "update_recipe", "delete_recipe"}

LEMMA StockUntouched ==
  ASSUME NEW p, p.kind \notin StockKinds, NEW d, IsDb(d), UniqueKeys(d.stock),
         NEW e, e.stock = d.stock
  PROVE  Ledger!StockEffect(p, d, e)
<1>1. Ledger!Touched(p, d) = {}
  BY DEF Ledger!Touched, StockKinds
<1>2. \A k \in Keys : QtyOf(d.stock, k) + 0 = QtyOf(d.stock, k)
  <2>1. \A k \in Keys : QtyOf(d.stock, k) \in Nat
    BY QtyOfType DEF IsDb
  <2> QED
    BY <2>1
<1> QED
  BY <1>1, <1>2, SameQty, SameKeys, SameRows DEF Ledger!StockEffect, Ledger!StockMoves, StockKinds

LEMMA ListsUntouched ==
  ASSUME NEW p, p.kind \notin ListKinds, NEW d, NEW e, e.lists = d.lists, e.lines = d.lines
  PROVE  Ledger!GroceryEffect(p, d, e)
  BY DEF Ledger!GroceryEffect, ListKinds

LEMMA RecipesUntouched ==
  ASSUME NEW p, p.kind \notin RecipeKinds, NEW d, NEW e, e.recipes = d.recipes
  PROVE  Ledger!RecipeEffect(p, d, e)
  BY DEF Ledger!RecipeEffect, RecipeKinds

LEMMA LogsUntouched ==
  ASSUME NEW r, NEW p, p.kind \notin {"cook", "delete_recipe"}, NEW d, NEW e, e.logs = d.logs
  PROVE  Ledger!LogEffect(r, p, d, e)
  BY DEF Ledger!LogEffect

-----------------------------------------------------------------------------
(* The invariant: a request that was handled may be granted.                *)

\* The ledger would grant the request on the database of this moment, and what it
\* makes of it is what the transaction has.
Granted(r) ==
  /\ ~Ledger!Missing(op[r], disk) /\ ~Ledger!Closed(op[r], disk)
  /\ ~Ledger!Senseless(op[r], disk)
  /\ Ledger!Effect(r, op[r], disk, work[r])

\* The lines a submit has bought so far, and what they have done to the stock.
Got(r) == {i \in LinesOf(disk, op[r].list) : Eligible(disk.lines[i])} \ todo[r]

BoughtLine(line) ==
  [line EXCEPT !.frozen = TRUE, !.applied = AddBase(line.qty, line.unit)]

KeyOfLine(line) == AddKey(Norm[line.item], line.unit)

Submitted(r) ==
  /\ op[r].list \in DOMAIN disk.lists /\ disk.lists[op[r].list].status = "active"
  /\ todo[r] \subseteq LinesOf(disk, op[r].list)
  /\ work[r].lists = disk.lists /\ work[r].recipes = disk.recipes /\ work[r].logs = disk.logs
  /\ work[r].lines = [i \in DOMAIN disk.lines |->
                        IF i \in Got(r) THEN BoughtLine(disk.lines[i]) ELSE disk.lines[i]]
  /\ \A i \in DOMAIN disk.stock :
       i \in DOMAIN work[r].stock /\ KeyOf(work[r].stock[i]) = KeyOf(disk.stock[i])
  /\ \A k \in Keys :
       /\ HasKey(work[r].stock, k) <=>
            (HasKey(disk.stock, k) \/ \E i \in Got(r) : KeyOfLine(disk.lines[i]) = k)
       /\ QtyOf(work[r].stock, k) =
            QtyOf(disk.stock, k)
              + Ledger!SumOf(disk.lines, {i \in Got(r) : KeyOfLine(disk.lines[i]) = k})

\* What a cook draws, and the draws it has made so far.
DrawnBy(p, d) ==
  IF p.deduct THEN Draws([k \in Keys |-> d.recipes[p.recipe].need[k] * p.times], d.stock)
  ELSE NoRows

Cooked(r) ==
  LET drawn == DrawnBy(op[r], disk)
  IN  /\ op[r].recipe \in DOMAIN disk.recipes
      /\ todo[r] \subseteq DOMAIN drawn
      /\ work[r].lists = disk.lists /\ work[r].lines = disk.lines
      /\ work[r].recipes = disk.recipes
      /\ work[r].logs = Put(disk.logs, r, [recipe |-> op[r].recipe, drawn |-> drawn])
      /\ DOMAIN work[r].stock = DOMAIN disk.stock
      /\ \A i \in DOMAIN disk.stock : KeyOf(work[r].stock[i]) = KeyOf(disk.stock[i])
      /\ \A k \in Keys : QtyOf(work[r].stock, k) = IF k \in DOMAIN drawn \ todo[r]
                                                  THEN drawn[k].after
                                                  ELSE QtyOf(disk.stock, k)

\* A generation has added one list and lines of that list.
Listed(r) ==
  /\ ~BadSelection(op[r], disk)
  /\ work[r].stock = disk.stock /\ work[r].recipes = disk.recipes /\ work[r].logs = disk.logs
  /\ DOMAIN disk.lines \subseteq DOMAIN work[r].lines
  /\ \A i \in DOMAIN disk.lines : work[r].lines[i] = disk.lines[i]
  /\ \E l \in Ids : /\ Lists(r, l)
                    /\ work[r].lists = Put(disk.lists, l, [status |-> "active"])
                    /\ \A i \in DOMAIN work[r].lines \ DOMAIN disk.lines :
                         work[r].lines[i].list = l

TxGranted(r) ==
  /\ pc[r] = "idle" => op[r] = NoOp
  /\ pc[r] \in {"waiting"} \cup Active => op[r] # NoOp
  /\ pc[r] = "looping" => /\ op[r].kind = "submit" => Submitted(r)
                          /\ op[r].kind = "cook" => Cooked(r)
                          /\ op[r].kind = "create_list" => Listed(r)
  /\ pc[r] = "handled" => Granted(r)

GrantInv == ListInv /\ \A r \in Requests : TxGranted(r)

LEMMA GrantInit == Init => GrantInv
  BY ListInit DEF Init, GrantInv, TxGranted, Active

\* What a step of a handler starts from.
LEMMA GrantedOn ==
  ASSUME GrantInv, NEW r \in Requests
  PROVE  /\ Inv /\ ListInv /\ IsDb(disk) /\ IsDb(work[r]) /\ UniqueKeys(disk.stock)
         /\ ForeignKeys(disk) /\ op[r] \in OpType
         /\ pc[r] = "open" => work[r] = disk /\ r \notin DOMAIN disk.logs
         /\ pc[r] \in Active => op[r] # NoOp
<1>1. LineInv /\ Inv /\ Balanced /\ Linked
  BY DEF GrantInv, ListInv, LineInv, LogInv, LinkInv, StockInv, TxInv
<1>2. IsDb(work[r]) /\ (pc[r] = "open" => work[r] = disk /\ r \notin DOMAIN disk.logs)
  BY <1>1, LoggedOn DEF LineInv, Active
<1> QED
  BY <1>1, <1>2 DEF GrantInv, TxGranted, Balanced, Linked, Inv, TypeOK

LEMMA RefusedIsDone ==
  ASSUME Inv, NEW r \in Requests, NEW status, Refuse(r, status) PROVE TxGranted(r)'
<1>1. pc'[r] = "answered"
  BY DEF Refuse, Inv, TypeOK
<1> QED
  BY <1>1 DEF TxGranted, Active

\* A handler that returns at once.
LEMMA HandledGrants ==
  ASSUME GrantInv, NEW r \in Requests, pc[r] = "open", NEW db, NEW c, Handled(r, db, c),
         ~Ledger!Missing(op[r], disk), ~Ledger!Closed(op[r], disk),
         ~Ledger!Senseless(op[r], disk), Ledger!Effect(r, op[r], disk, db)
  PROVE  TxGranted(r)'
<1>1. Inv /\ op[r] # NoOp
  BY GrantedOn DEF Active
<1>2. /\ pc'[r] = "handled" /\ work'[r] = db
      /\ op' = op /\ disk' = disk
  BY <1>1 DEF Handled, Inv, TypeOK
<1> QED
  BY <1>1, <1>2 DEF TxGranted, Granted

-----------------------------------------------------------------------------
(* Stock requests.                                                          *)

\* An upsert adds to its key and to no other, and keeps the rows where they are.
LEMMA UpsertQty ==
  ASSUME NEW stock, IsTable(stock, StockRow), UniqueKeys(stock), NEW k \in Keys, NEW add
  PROVE  /\ HasKey(Upsert(stock, k, add), k)
         /\ QtyOf(Upsert(stock, k, add), k) = QtyOf(stock, k) + add
         /\ \A x : x # k =>
              /\ HasKey(Upsert(stock, k, add), x) <=> HasKey(stock, x)
              /\ QtyOf(Upsert(stock, k, add), x) = QtyOf(stock, x)
         /\ \A i \in DOMAIN stock : /\ i \in DOMAIN Upsert(stock, k, add)
                                    /\ KeyOf(Upsert(stock, k, add)[i]) = KeyOf(stock[i])
<1> DEFINE i   == UpsertId(stock, k)
           row == [name |-> k[1], bucket |-> k[2], qty |-> QtyOf(stock, k) + add]
           new == Upsert(stock, k, add)
<1>1. new = [j \in DOMAIN stock \cup {i} |-> IF j = i THEN row ELSE stock[j]]
  BY DEF Upsert, Put
<1>2. KeyOf(row) = k /\ row.qty = QtyOf(stock, k) + add
  BY DEF KeyOf, Keys
<1>3. \A j \in DOMAIN stock : (KeyOf(stock[j]) = k) <=> (j = i)
  BY IdOfType, NextIdIsFresh DEF UpsertId, HasKey, UniqueKeys
<1> HIDE DEF i, row, new
<1>4. i \in DOMAIN new /\ new[i] = row /\ \A j \in DOMAIN stock : j # i => new[j] = stock[j]
  BY <1>1
<1>5. \A j \in DOMAIN stock : j \in DOMAIN new /\ KeyOf(new[j]) = KeyOf(stock[j])
  BY <1>1, <1>2, <1>3
<1>6. \A j \in DOMAIN new : (KeyOf(new[j]) = k) <=> (j = i)
  BY <1>1, <1>2, <1>3
<1>7. HasKey(new, k) /\ IdOf(new, k) = i
  <2>1. HasKey(new, k)
    BY <1>2, <1>4 DEF HasKey
  <2> QED
    BY <1>6, <2>1, IdOfType
<1>8. ASSUME NEW x, x # k
      PROVE  (HasKey(new, x) <=> HasKey(stock, x)) /\ QtyOf(new, x) = QtyOf(stock, x)
  <2>1. \A j : (j \in DOMAIN new /\ KeyOf(new[j]) = x) <=> (j \in DOMAIN stock /\ KeyOf(stock[j]) = x)
    BY <1>1, <1>2, <1>3, <1>8
  <2>2. HasKey(new, x) <=> HasKey(stock, x)
    BY <2>1 DEF HasKey
  <2>3. ASSUME HasKey(stock, x) PROVE QtyOf(new, x) = QtyOf(stock, x)
    <3>1. IdOf(stock, x) \in DOMAIN stock /\ KeyOf(stock[IdOf(stock, x)]) = x
      BY <2>3, IdOfType
    <3>2. IdOf(new, x) \in DOMAIN new /\ KeyOf(new[IdOf(new, x)]) = x
      BY <2>2, <2>3, IdOfType
    <3>3. IdOf(new, x) = IdOf(stock, x) /\ IdOf(stock, x) # i
      BY <1>3, <1>8, <2>1, <3>1, <3>2 DEF UniqueKeys
    <3> QED
      BY <1>4, <2>2, <2>3, <3>1, <3>3 DEF QtyOf
  <2> QED
    BY <2>2, <2>3 DEF QtyOf
<1>9. QtyOf(new, k) = QtyOf(stock, k) + add
  BY <1>2, <1>4, <1>7 DEF QtyOf
<1> QED
  BY <1>5, <1>7, <1>8, <1>9 DEF new

\* A handler of the stock alone.
LEMMA StockGrants ==
  ASSUME GrantInv, NEW r \in Requests, pc[r] = "open",
         op[r].kind \in {"add_inventory", "update_inventory", "delete_inventory"},
         NEW stock, NEW c, Handled(r, [work[r] EXCEPT !.stock = stock], c),
         ~Ledger!Missing(op[r], disk), ~Ledger!Senseless(op[r], disk),
         \A e : e.stock = stock => Ledger!StockEffect(op[r], disk, e)
  PROVE  TxGranted(r)'
<1> DEFINE p   == op[r]
           new == [work[r] EXCEPT !.stock = stock]
<1>1. work[r] = disk /\ IsDb(disk)
  BY GrantedOn
<1>2. /\ new.stock = stock /\ new.lists = disk.lists /\ new.lines = disk.lines
      /\ new.recipes = disk.recipes /\ new.logs = disk.logs
  BY <1>1 DEF IsDb
<1>3. p.kind \notin ListKinds /\ p.kind \notin RecipeKinds /\ p.kind \notin {"cook", "delete_recipe"}
  BY DEF ListKinds, RecipeKinds
<1>4. ~Ledger!Closed(p, disk)
  BY DEF Ledger!Closed
<1> HIDE DEF new
<1>5. Ledger!Effect(r, p, disk, new)
  BY <1>2, <1>3, ListsUntouched, RecipesUntouched, LogsUntouched DEF Ledger!Effect
<1> QED
  BY <1>4, <1>5, HandledGrants DEF new

LEMMA AddInventoryGrants ==
  ASSUME GrantInv, NEW r \in Requests, AddInventory(r) PROVE TxGranted(r)'
<1> DEFINE p   == op[r]
           db  == work[r]
           k   == AddKey(p.match, p.unit)
           add == AddBase(p.amount, p.unit)
           c   == Claim(UpsertId(db.stock, k), "by", add)
<1>1. /\ pc[r] = "open" /\ p.kind = "add_inventory" /\ db = disk /\ Inv
      /\ IsTable(disk.stock, StockRow) /\ UniqueKeys(disk.stock)
  BY GrantedOn DEF AddInventory, Running, IsDb
<1>2. CASE Refuse(r, "422") \/ Refuse(r, "409")
  BY <1>1, <1>2, RefusedIsDone
<1>3. CASE /\ k[1] # Blank /\ Storable(QtyOf(db.stock, k) + add)
           /\ Handled(r, [db EXCEPT !.stock = Upsert(@, k, add)], c)
  <2>1. k \in Keys /\ add \in Nat
    BY <1>1, GrantedOn, OpFields, AddKeyType, AddBaseType
  <2>2. ~Ledger!Missing(p, disk)
    BY <1>1 DEF Ledger!Missing
  <2>3. ~Ledger!Senseless(p, disk)
    BY <1>1, <1>3 DEF Ledger!Senseless, AddKey
  <2>4. Ledger!Touched(p, disk) = {k} /\ Ledger!Change(p, disk, k) = add
    BY <1>1, SameLines DEF Ledger!Touched, Ledger!Change
  <2> DEFINE new == Upsert(disk.stock, k, add)
  <2>5. UniqueKeys(new)
    BY <1>1, <2>1, UpsertBooks
  <2>6. \A x \in Keys : QtyOf(disk.stock, x) + 0 = QtyOf(disk.stock, x)
    <3>1. \A x \in Keys : QtyOf(disk.stock, x) \in Nat
      BY <1>1, GrantedOn, QtyOfType DEF IsDb
    <3> QED
      BY <3>1
  <2> HIDE DEF k, add
  <2>7. ASSUME NEW e, e.stock = new PROVE Ledger!StockEffect(p, disk, e)
    <3>1. /\ \A i \in DOMAIN disk.stock : /\ i \in DOMAIN new
                                          /\ KeyOf(new[i]) = KeyOf(disk.stock[i])
          /\ \A x \in Keys : /\ HasKey(new, x) <=> HasKey(disk.stock, x) \/ x \in {k}
                             /\ QtyOf(new, x) = QtyOf(disk.stock, x)
                                                  + IF x \in {k} THEN add ELSE 0
      BY <1>1, <2>1, <2>6, UpsertQty
    <3> HIDE DEF new
    <3>2. Ledger!StockMoves(p, disk, e)
      BY <2>4, <2>5, <2>7, <3>1, SameQty, SameKeys, SameRows DEF Ledger!StockMoves
    <3> QED
      BY <1>1, <3>2 DEF Ledger!StockEffect
  <2>8. Handled(r, [db EXCEPT !.stock = new], c)
    BY <1>1, <1>3
  <2> HIDE DEF new, c
  <2> QED
    BY <1>1, <2>2, <2>3, <2>7, <2>8, StockGrants
<1> QED
  BY <1>2, <1>3 DEF AddInventory

LEMMA UpdateInventoryGrants ==
  ASSUME GrantInv, NEW r \in Requests, UpdateInventory(r) PROVE TxGranted(r)'
<1> DEFINE p   == op[r]
           db  == work[r]
           row == PatchedRow(p, db.stock[p.id])
           c   == IF "quantity" \in p.fields THEN Claim(p.id, "to", row.qty) ELSE NoClaim
<1>1. /\ pc[r] = "open" /\ p.kind = "update_inventory" /\ db = disk /\ Inv
      /\ IsTable(disk.stock, StockRow) /\ UniqueKeys(disk.stock)
  BY GrantedOn DEF UpdateInventory, Running, IsDb
<1>2. CASE Refuse(r, "404") \/ Refuse(r, "422") \/ Refuse(r, "409")
  BY <1>1, <1>2, RefusedIsDone
<1>3. CASE /\ p.id \in DOMAIN db.stock
           /\ ~PatchInvalid(p, db.stock[p.id]) /\ ~PatchClash(p, db.stock)
           /\ Handled(r, [db EXCEPT !.stock = Put(@, p.id, row)], c)
  <2>1. ~Ledger!Missing(p, disk)
    BY <1>1, <1>3 DEF Ledger!Missing
  <2>2. ~Ledger!Senseless(p, disk)
    BY <1>1, <1>3 DEF Ledger!Senseless, PatchInvalid
  <2> DEFINE new == Put(disk.stock, p.id, row)
  <2>3. UniqueKeys(new)
    BY <1>1, <1>3, PatchKeepsKeys
  <2>4. /\ DOMAIN new = DOMAIN disk.stock /\ new[p.id] = row
        /\ \A i \in DOMAIN disk.stock \ {p.id} : new[i] = disk.stock[i]
    BY <1>1, <1>3 DEF Put
  <2>5. /\ row.bucket = disk.stock[p.id].bucket
        /\ row.name = IF "match_name" \in p.fields THEN Norm[p.match] ELSE disk.stock[p.id].name
        /\ row.qty = IF "quantity" \in p.fields THEN p.amount * Scale[p.unit]
                                                ELSE disk.stock[p.id].qty
    BY <1>1 DEF PatchedRow, AddBase
  <2> HIDE DEF row, new
  <2>6. ASSUME NEW e, e.stock = new PROVE Ledger!StockEffect(p, disk, e)
    <3>1. Ledger!StockIsCorrected(p, disk, e)
      BY <2>3, <2>4, <2>5, <2>6, SameKeys DEF Ledger!StockIsCorrected
    <3> QED
      BY <1>1, <3>1 DEF Ledger!StockEffect
  <2>7. Handled(r, [db EXCEPT !.stock = new], c)
    BY <1>1, <1>3 DEF new
  <2> HIDE DEF c
  <2> QED
    BY <1>1, <2>1, <2>2, <2>6, <2>7, StockGrants
<1> QED
  BY <1>2, <1>3 DEF UpdateInventory

LEMMA DeleteInventoryGrants ==
  ASSUME GrantInv, NEW r \in Requests, DeleteInventory(r) PROVE TxGranted(r)'
<1> DEFINE i  == op[r].id
           db == work[r]
<1>1. pc[r] = "open" /\ op[r].kind = "delete_inventory" /\ db = disk /\ Inv
  BY GrantedOn DEF DeleteInventory, Running
<1>2. CASE Refuse(r, "404")
  BY <1>1, <1>2, RefusedIsDone
<1>3. CASE i \in DOMAIN db.stock /\ Handled(r, [db EXCEPT !.stock = Drop(@, {i})],
                                            Claim(i, "gone", 0))
  <2>1. ~Ledger!Missing(op[r], disk) /\ ~Ledger!Senseless(op[r], disk)
    BY <1>1, <1>3 DEF Ledger!Missing, Ledger!Senseless
  <2>2. ASSUME NEW e, e.stock = Drop(disk.stock, {i})
        PROVE  Ledger!StockEffect(op[r], disk, e)
    BY <1>1, <2>2, SameRows DEF Ledger!StockEffect
  <2>3. Handled(r, [db EXCEPT !.stock = Drop(disk.stock, {i})], Claim(i, "gone", 0))
    BY <1>1, <1>3
  <2> QED
    BY <1>1, <2>1, <2>2, <2>3, StockGrants
<1> QED
  BY <1>2, <1>3 DEF DeleteInventory

LEMMA ReadersGrant ==
  ASSUME GrantInv, NEW r \in Requests, Unauthenticated(r) \/ Read(r) PROVE TxGranted(r)'
<1>1. Inv /\ IsDb(disk) /\ UniqueKeys(disk.stock)
  BY GrantedOn
<1>2. CASE Unauthenticated(r)
  BY <1>1, <1>2, RefusedIsDone DEF Unauthenticated
<1>3. CASE Read(r)
  <2>1. pc[r] = "open" /\ op[r].kind = "read" /\ Handled(r, disk, NoClaim)
    BY <1>3, GrantedOn DEF Read, Running
  <2>2. /\ ~Ledger!Missing(op[r], disk) /\ ~Ledger!Closed(op[r], disk)
        /\ ~Ledger!Senseless(op[r], disk)
    BY <2>1 DEF Ledger!Missing, Ledger!Closed, Ledger!Senseless
  <2>3. Ledger!Effect(r, op[r], disk, disk)
    <3>1. /\ op[r].kind \notin StockKinds /\ op[r].kind \notin ListKinds
          /\ op[r].kind \notin RecipeKinds /\ op[r].kind \notin {"cook", "delete_recipe"}
      BY <2>1 DEF StockKinds, ListKinds, RecipeKinds
    <3> QED
      BY <1>1, <3>1, StockUntouched, ListsUntouched, RecipesUntouched, LogsUntouched
         DEF Ledger!Effect
  <2> QED
    BY <2>1, <2>2, <2>3, HandledGrants
<1> QED
  BY <1>2, <1>3

-----------------------------------------------------------------------------
(* Requests on a grocery list.                                              *)

\* A handler of the lists and lines alone.
LEMMA ListGrants ==
  ASSUME GrantInv, NEW r \in Requests, pc[r] = "open",
         op[r].kind \in {"add_line", "update_line", "delete_line", "delete_list", "archive"},
         NEW db, NEW c, Handled(r, db, c),
         \/ \E t : db = [work[r] EXCEPT !.lists = t]
         \/ \E t : db = [work[r] EXCEPT !.lines = t]
         \/ \E t, u : db = [work[r] EXCEPT !.lists = t, !.lines = u],
         ~Ledger!Missing(op[r], disk), ~Ledger!Closed(op[r], disk),
         ~Ledger!Senseless(op[r], disk), Ledger!GroceryEffect(op[r], disk, db)
  PROVE  TxGranted(r)'
<1>1. work[r] = disk /\ IsDb(disk) /\ UniqueKeys(disk.stock)
  BY GrantedOn
<1>2. db.stock = disk.stock /\ db.recipes = disk.recipes /\ db.logs = disk.logs
  BY <1>1 DEF IsDb
<1>3. /\ op[r].kind \notin StockKinds /\ op[r].kind \notin RecipeKinds
      /\ op[r].kind \notin {"cook", "delete_recipe"}
  BY DEF StockKinds, RecipeKinds
<1>4. Ledger!Effect(r, op[r], disk, db)
  BY <1>1, <1>2, <1>3, StockUntouched, RecipesUntouched, LogsUntouched DEF Ledger!Effect
<1> QED
  BY <1>4, HandledGrants

LEMMA AddLineGrants ==
  ASSUME GrantInv, NEW r \in Requests, AddLine(r) PROVE TxGranted(r)'
<1> DEFINE p    == op[r]
           db   == work[r]
           i    == NextId(db.lines)
           line == NewLine(p.list, p.item, p.unit, p.amount, "manual", TRUE)
           new  == [db EXCEPT !.lines = Put(@, NextId(@), line)]
<1>1. /\ pc[r] = "open" /\ p.kind = "add_line" /\ db = disk /\ Inv
      /\ IsDb(disk) /\ IsTable(disk.lines, GroceryLine)
  BY GrantedOn DEF AddLine, Running, IsDb
<1>2. CASE Refuse(r, "404") \/ Refuse(r, "409")
  BY <1>1, <1>2, RefusedIsDone
<1>3. CASE /\ p.list \in DOMAIN db.lists /\ db.lists[p.list].status # "archived"
           /\ Handled(r, new, NoClaim)
  <2>1. /\ ~Ledger!Missing(p, disk) /\ ~Ledger!Closed(p, disk) /\ ~Ledger!Senseless(p, disk)
    BY <1>1, <1>3 DEF Ledger!Missing, Ledger!Closed, Ledger!Senseless
  <2>2. i \in Ids /\ i \notin DOMAIN disk.lines
    BY <1>1, NextIdIsFresh
  <2>3. new.lists = disk.lists /\ new.lines = Put(disk.lines, i, line)
    BY <1>1 DEF IsDb
  <2>4. i \in DOMAIN new.lines
    BY <2>3 DEF Put
  <2>5. \E t : new = [db EXCEPT !.lines = t]
    OBVIOUS
  <2> HIDE DEF i, new
  <2>6. Ledger!GroceryEffect(p, disk, new)
    BY <1>1, <2>2, <2>3, <2>4, SameRows, SameLines DEF Ledger!GroceryEffect
  <2> QED
    BY <1>1, <1>3, <2>1, <2>5, <2>6, ListGrants
<1> QED
  BY <1>2, <1>3 DEF AddLine

\* EditInvalid and the ledger count the same thing: one of quantity and unit alone.
LEMMA OneOfTwo ==
  ASSUME NEW F
  PROVE  Cardinality(F \cap {"quantity", "unit"}) = 1
           <=> ("quantity" \in F) # ("unit" \in F)
<1>1. CASE "quantity" \in F /\ "unit" \in F
  <2>1. F \cap {"quantity", "unit"} = {"quantity", "unit"}
    BY <1>1
  <2>2. Cardinality({"quantity", "unit"}) = 2
    <3>1. IsFiniteSet({"quantity"}) /\ Cardinality({"quantity"}) = 1
      BY FS_Singleton
    <3>2. Cardinality({"quantity"} \cup {"unit"}) = 2
      BY <3>1, FS_AddElement
    <3>3. {"quantity"} \cup {"unit"} = {"quantity", "unit"}
      OBVIOUS
    <3> QED
      BY <3>2, <3>3
  <2> QED
    BY <1>1, <2>1, <2>2
<1>2. CASE "quantity" \in F /\ "unit" \notin F
  <2>1. F \cap {"quantity", "unit"} = {"quantity"}
    BY <1>2
  <2> QED
    BY <1>2, <2>1, FS_Singleton
<1>3. CASE "quantity" \notin F /\ "unit" \in F
  <2>1. F \cap {"quantity", "unit"} = {"unit"}
    BY <1>3
  <2> QED
    BY <1>3, <2>1, FS_Singleton
<1>4. CASE "quantity" \notin F /\ "unit" \notin F
  <2>1. F \cap {"quantity", "unit"} = {}
    BY <1>4
  <2> QED
    BY <1>4, <2>1, FS_EmptySet
<1> QED
  BY <1>1, <1>2, <1>3, <1>4

LEMMA UpdateLineGrants ==
  ASSUME GrantInv, NEW r \in Requests, UpdateLine(r) PROVE TxGranted(r)'
<1> DEFINE p   == op[r]
           db  == work[r]
           old == db.lines[p.id]
           row == EditedLine(p, old)
           new == [db EXCEPT !.lines = Put(@, p.id, EditedLine(p, db.lines[p.id]))]
<1>1. /\ pc[r] = "open" /\ p.kind = "update_line" /\ db = disk /\ Inv
      /\ IsDb(disk) /\ IsTable(disk.lines, GroceryLine) /\ p \in OpType
  BY GrantedOn DEF UpdateLine, Running, IsDb
<1>2. CASE Refuse(r, "404") \/ Refuse(r, "409") \/ Refuse(r, "422")
  BY <1>1, <1>2, RefusedIsDone
<1>3. CASE /\ ~LineMissing(db, p.list, p.id) /\ ~LineClosed(db, p.list, p.id)
           /\ ~EditInvalid(p) /\ Handled(r, new, NoClaim)
  <2>1. p.id \in LinesOf(disk, p.list) /\ p.id \in DOMAIN disk.lines
    BY <1>1, <1>3 DEF LineMissing, LinesOf
  <2>2. ~Ledger!Missing(p, disk)
    BY <1>1, <2>1, SameRows DEF Ledger!Missing
  <2>3. ~Ledger!Closed(p, disk)
    BY <1>1, <1>3 DEF Ledger!Closed, LineClosed
  <2>4. ~Ledger!Senseless(p, disk)
    <3>1. ~(Cardinality(p.fields \cap {"quantity", "unit"}) = 1)
      BY <1>3, OneOfTwo DEF EditInvalid
    <3>2. ~("item" \in p.fields /\ p.null)
      BY <1>3 DEF EditInvalid
    <3> QED
      BY <1>1, <3>1, <3>2, SameSize DEF Ledger!Senseless
  <2>5. old \in GroceryLine /\ ~old.frozen
    BY <1>1, <1>3, <2>1 DEF IsTable, LineClosed
  <2>6. new.lists = disk.lists /\ new.lines = Put(disk.lines, p.id, row)
    BY <1>1 DEF IsDb
  <2>7. /\ DOMAIN new.lines = DOMAIN disk.lines /\ new.lines[p.id] = row
        /\ \A i \in DOMAIN disk.lines \ {p.id} : new.lines[i] = disk.lines[i]
    BY <2>1, <2>6 DEF Put
  <2>8. \E t : new = [db EXCEPT !.lines = t]
    OBVIOUS
  <2> HIDE DEF new, row
  <2>9. /\ ~row.frozen /\ row.list = old.list
        /\ row.checked = IF "checked" \in p.fields THEN p.checked ELSE old.checked
        /\ ~(p.fields \subseteq {"checked"}) => row.source = "manual" /\ row.nettable
        /\ "quantity" \in p.fields => row.qty = p.amount /\ row.unit = p.unit
        /\ "item" \in p.fields => row.item = p.item
    <3>1. p.fields \subseteq {"item", "quantity", "unit", "checked"}
      BY <1>1 DEF OpType
    <3>2. ~(p.fields \subseteq {"checked"}) => p.fields \cap {"item", "quantity", "unit"} # {}
      BY <3>1
    <3> QED
      BY <2>5, <3>2 DEF row, EditedLine, GroceryLine
  <2>10. p.fields \subseteq {"checked"} => row = [old EXCEPT !.checked = row.checked]
    <3>1. SUFFICES ASSUME p.fields \subseteq {"checked"}
                   PROVE  row = [old EXCEPT !.checked = row.checked]
      OBVIOUS
    <3>2. /\ "quantity" \notin p.fields /\ "unit" \notin p.fields /\ "item" \notin p.fields
          /\ p.fields \cap {"item", "quantity", "unit"} = {}
      BY <3>1
    <3> QED
      BY <2>5, <3>2 DEF row, EditedLine, GroceryLine
  <2>11. Ledger!LineIsEdited(p, disk, new)
    BY <1>1, <2>7, <2>9, <2>10 DEF Ledger!LineIsEdited
  <2>12. Ledger!GroceryEffect(p, disk, new)
    BY <1>1, <2>6, <2>11 DEF Ledger!GroceryEffect
  <2> QED
    BY <1>1, <1>3, <2>2, <2>3, <2>4, <2>8, <2>12, ListGrants DEF new
<1> QED
  BY <1>2, <1>3 DEF UpdateLine

LEMMA DeleteLineGrants ==
  ASSUME GrantInv, NEW r \in Requests, DeleteLine(r) PROVE TxGranted(r)'
<1> DEFINE p   == op[r]
           db  == work[r]
           new == [db EXCEPT !.lines = Drop(@, {p.id})]
<1>1. pc[r] = "open" /\ p.kind = "delete_line" /\ db = disk /\ Inv /\ IsDb(disk)
  BY GrantedOn DEF DeleteLine, Running
<1>2. CASE Refuse(r, "404") \/ Refuse(r, "409")
  BY <1>1, <1>2, RefusedIsDone
<1>3. CASE /\ ~LineMissing(db, p.list, p.id) /\ ~LineClosed(db, p.list, p.id)
           /\ Handled(r, new, NoClaim)
  <2>1. ~Ledger!Missing(p, disk)
    BY <1>1, <1>3, SameRows DEF Ledger!Missing, LineMissing
  <2>2. ~Ledger!Closed(p, disk) /\ ~Ledger!Senseless(p, disk)
    BY <1>1, <1>3 DEF Ledger!Closed, Ledger!Senseless, LineClosed
  <2>3. new.lists = disk.lists /\ new.lines = Drop(disk.lines, {p.id})
    BY <1>1 DEF IsDb
  <2>4. \E t : new = [db EXCEPT !.lines = t]
    OBVIOUS
  <2> HIDE DEF new
  <2>5. Ledger!GroceryEffect(p, disk, new)
    BY <1>1, <2>3, SameRows DEF Ledger!GroceryEffect
  <2> QED
    BY <1>1, <1>3, <2>1, <2>2, <2>4, <2>5, ListGrants
<1> QED
  BY <1>2, <1>3 DEF DeleteLine

LEMMA ArchiveGrants ==
  ASSUME GrantInv, NEW r \in Requests, Archive(r) PROVE TxGranted(r)'
<1> DEFINE l   == op[r].list
           db  == work[r]
           new == [db EXCEPT !.lists = Put(@, l, [status |-> "archived"])]
<1>1. pc[r] = "open" /\ op[r].kind = "archive" /\ db = disk /\ Inv /\ IsDb(disk)
  BY GrantedOn DEF Archive, Running
<1>2. CASE Refuse(r, "404") \/ Refuse(r, "409")
  BY <1>1, <1>2, RefusedIsDone
<1>3. CASE l \in DOMAIN db.lists /\ db.lists[l].status = "active" /\ Handled(r, new, NoClaim)
  <2>1. /\ ~Ledger!Missing(op[r], disk) /\ ~Ledger!Closed(op[r], disk)
        /\ ~Ledger!Senseless(op[r], disk)
    BY <1>1, <1>3 DEF Ledger!Missing, Ledger!Closed, Ledger!Senseless
  <2>2. new.lines = disk.lines /\ new.lists = Put(disk.lists, l, [status |-> "archived"])
    BY <1>1 DEF IsDb
  <2>3. \E t : new = [db EXCEPT !.lists = t]
    OBVIOUS
  <2> HIDE DEF new
  <2>4. Ledger!GroceryEffect(op[r], disk, new)
    BY <1>1, <2>2, SameRows DEF Ledger!GroceryEffect
  <2> QED
    BY <1>1, <1>3, <2>1, <2>3, <2>4, ListGrants
<1> QED
  BY <1>2, <1>3 DEF Archive

LEMMA DeleteListGrants ==
  ASSUME GrantInv, NEW r \in Requests, DeleteList(r) PROVE TxGranted(r)'
<1> DEFINE l   == op[r].list
           db  == work[r]
           new == [db EXCEPT !.lists = Drop(@, {l}), !.lines = Drop(@, LinesOf(db, l))]
<1>1. pc[r] = "open" /\ op[r].kind = "delete_list" /\ db = disk /\ Inv /\ IsDb(disk)
  BY GrantedOn DEF DeleteList, Running
<1>2. CASE Refuse(r, "404")
  BY <1>1, <1>2, RefusedIsDone
<1>3. CASE l \in DOMAIN db.lists /\ Handled(r, new, NoClaim)
  <2>1. /\ ~Ledger!Missing(op[r], disk) /\ ~Ledger!Closed(op[r], disk)
        /\ ~Ledger!Senseless(op[r], disk)
    BY <1>1, <1>3 DEF Ledger!Missing, Ledger!Closed, Ledger!Senseless
  <2>2. /\ new.lists = Drop(disk.lists, {l})
        /\ new.lines = Drop(disk.lines, LinesOf(disk, l))
    BY <1>1 DEF IsDb
  <2>3. \E t, u : new = [db EXCEPT !.lists = t, !.lines = u]
    OBVIOUS
  <2> HIDE DEF new
  <2>4. Ledger!GroceryEffect(op[r], disk, new)
    BY <1>1, <2>2, SameRows DEF Ledger!GroceryEffect
  <2> QED
    BY <1>1, <1>3, <2>1, <2>3, <2>4, ListGrants
<1> QED
  BY <1>2, <1>3 DEF DeleteList

-----------------------------------------------------------------------------
(* Requests on a recipe.                                                    *)

\* A handler of the recipes, and of the logs that name them.
LEMMA RecipeGrants ==
  ASSUME GrantInv, NEW r \in Requests, pc[r] = "open", op[r].kind \in RecipeKinds,
         NEW db, Handled(r, db, NoClaim),
         db.stock = disk.stock, db.lists = disk.lists, db.lines = disk.lines,
         ~Ledger!Missing(op[r], disk), ~Ledger!Senseless(op[r], disk),
         Ledger!RecipeEffect(op[r], disk, db), Ledger!LogEffect(r, op[r], disk, db)
  PROVE  TxGranted(r)'
<1>1. IsDb(disk) /\ UniqueKeys(disk.stock)
  BY GrantedOn
<1>2. op[r].kind \notin StockKinds /\ op[r].kind \notin ListKinds
  BY DEF StockKinds, ListKinds, RecipeKinds
<1>3. ~Ledger!Closed(op[r], disk)
  BY DEF Ledger!Closed, RecipeKinds
<1>4. Ledger!Effect(r, op[r], disk, db)
  BY <1>1, <1>2, StockUntouched, ListsUntouched DEF Ledger!Effect
<1> QED
  BY <1>3, <1>4, HandledGrants

LEMMA PutRecipeGrants ==
  ASSUME GrantInv, NEW r \in Requests, CreateRecipe(r) \/ UpdateRecipe(r) PROVE TxGranted(r)'
<1> DEFINE p  == op[r]
           db == work[r]
<1>1. /\ pc[r] = "open" /\ db = disk /\ Inv /\ IsDb(disk) /\ IsTable(disk.recipes, Recipe)
      /\ p.kind \in {"create_recipe", "update_recipe"}
  BY GrantedOn DEF CreateRecipe, UpdateRecipe, Running, IsDb
<1>2. CASE Refuse(r, "404") \/ Refuse(r, "422")
  BY <1>1, <1>2, RefusedIsDone
<1>3. ASSUME NEW i, Handled(r, [db EXCEPT !.recipes = Put(@, i, p.recipe)], NoClaim),
             ~Ledger!Missing(p, disk), ~Ledger!Senseless(p, disk),
             \/ p.kind = "create_recipe" /\ i \notin DOMAIN disk.recipes
             \/ p.kind = "update_recipe" /\ i = p.id
      PROVE  TxGranted(r)'
  <2> DEFINE new == [db EXCEPT !.recipes = Put(@, i, p.recipe)]
  <2>1. /\ new.stock = disk.stock /\ new.lists = disk.lists /\ new.lines = disk.lines
        /\ new.logs = disk.logs /\ new.recipes = Put(disk.recipes, i, p.recipe)
    BY <1>1 DEF IsDb
  <2> HIDE DEF new
  <2>2. i \in DOMAIN new.recipes
    BY <2>1 DEF Put
  <2>3. Ledger!RecipeEffect(p, disk, new)
    BY <1>3, <2>1, <2>2, SameRows DEF Ledger!RecipeEffect
  <2>4. Ledger!LogEffect(r, p, disk, new)
    BY <1>1, <2>1, LogsUntouched
  <2>5. p.kind \in RecipeKinds
    BY <1>1 DEF RecipeKinds
  <2>6. Handled(r, new, NoClaim)
    BY <1>3 DEF new
  <2> QED
    BY <1>1, <1>3, <2>1, <2>3, <2>4, <2>5, <2>6, RecipeGrants
<1>4. CASE CreateRecipe(r)
  <2>1. CASE /\ ~p.bad
             /\ Handled(r, [db EXCEPT !.recipes = Put(@, NextId(@), p.recipe)], NoClaim)
    <3>1. ~Ledger!Missing(p, disk) /\ ~Ledger!Senseless(p, disk) /\ p.kind = "create_recipe"
      BY <1>4, <2>1 DEF Ledger!Missing, Ledger!Senseless, CreateRecipe, Running
    <3>2. NextId(disk.recipes) \notin DOMAIN disk.recipes
      BY <1>1, NextIdIsFresh
    <3>3. Handled(r, [db EXCEPT !.recipes = Put(@, NextId(disk.recipes), p.recipe)], NoClaim)
      BY <1>1, <2>1
    <3> QED
      BY <1>3, <3>1, <3>2, <3>3
  <2> QED
    BY <1>2, <1>4, <2>1 DEF CreateRecipe
<1>5. CASE UpdateRecipe(r)
  <2>1. CASE /\ p.id \in DOMAIN db.recipes /\ ~p.bad
             /\ Handled(r, [db EXCEPT !.recipes = Put(@, p.id, p.recipe)], NoClaim)
    <3>1. ~Ledger!Missing(p, disk) /\ ~Ledger!Senseless(p, disk) /\ p.kind = "update_recipe"
      BY <1>1, <1>5, <2>1 DEF Ledger!Missing, Ledger!Senseless, UpdateRecipe, Running
    <3> QED
      BY <1>3, <2>1, <3>1
  <2> QED
    BY <1>2, <1>5, <2>1 DEF UpdateRecipe
<1> QED
  BY <1>4, <1>5

LEMMA DeleteRecipeGrants ==
  ASSUME GrantInv, NEW r \in Requests, DeleteRecipe(r) PROVE TxGranted(r)'
<1> DEFINE i   == op[r].id
           db  == work[r]
           new == [db EXCEPT !.recipes = Drop(@, {i}), !.logs = Detached(@, i)]
<1>1. pc[r] = "open" /\ op[r].kind = "delete_recipe" /\ db = disk /\ Inv /\ IsDb(disk)
  BY GrantedOn DEF DeleteRecipe, Running
<1>2. CASE Refuse(r, "404")
  BY <1>1, <1>2, RefusedIsDone
<1>3. CASE i \in DOMAIN db.recipes /\ Handled(r, new, NoClaim)
  <2>1. ~Ledger!Missing(op[r], disk) /\ ~Ledger!Senseless(op[r], disk)
    BY <1>1, <1>3 DEF Ledger!Missing, Ledger!Senseless
  <2>2. /\ new.stock = disk.stock /\ new.lists = disk.lists /\ new.lines = disk.lines
        /\ new.recipes = Drop(disk.recipes, {i}) /\ new.logs = Detached(disk.logs, i)
    BY <1>1 DEF IsDb
  <2> HIDE DEF new
  <2>3. Ledger!RecipeEffect(op[r], disk, new)
    BY <1>1, <2>2, SameRows DEF Ledger!RecipeEffect
  <2>4. DOMAIN new.logs = DOMAIN disk.logs
    BY <2>2 DEF Detached
  <2>5. ASSUME NEW s \in DOMAIN disk.logs
        PROVE  /\ new.logs[s].drawn = disk.logs[s].drawn
               /\ new.logs[s].recipe =
                    IF disk.logs[s].recipe = i THEN NoRecipe ELSE disk.logs[s].recipe
    <3>1. IsLog(disk.logs[s])
      BY <1>1 DEF IsDb
    <3>2. new.logs[s] = IF disk.logs[s].recipe = i
                        THEN [disk.logs[s] EXCEPT !.recipe = NoRecipe] ELSE disk.logs[s]
      BY <2>2 DEF Detached
    <3> QED
      BY <3>1, <3>2 DEF IsLog
  <2>6. Ledger!LogEffect(r, op[r], disk, new)
    BY <1>1, <2>4, <2>5, SameRows DEF Ledger!LogEffect
  <2>7. op[r].kind \in RecipeKinds
    BY <1>1 DEF RecipeKinds
  <2> QED
    BY <1>1, <1>3, <2>1, <2>2, <2>3, <2>6, <2>7, RecipeGrants
<1> QED
  BY <1>2, <1>3 DEF DeleteRecipe

-----------------------------------------------------------------------------
(* Submit.                                                                  *)

LEMMA StockAmounts ==
  ASSUME NEW d, IsDb(d) PROVE \A k : QtyOf(d.stock, k) \in Nat
  BY QtyOfType DEF IsDb

LEMMA SubmitGrants ==
  ASSUME GrantInv, NEW r \in Requests, Submit(r) PROVE TxGranted(r)'
<1> DEFINE l  == op[r].list
           db == work[r]
<1>1. /\ pc[r] = "open" /\ op[r].kind = "submit" /\ db = disk /\ Inv /\ IsDb(disk)
      /\ IsTable(disk.lines, GroceryLine) /\ op[r] # NoOp
  BY GrantedOn DEF Submit, Running, IsDb, Active
<1>2. CASE Refuse(r, "404") \/ Refuse(r, "409")
  BY <1>1, <1>2, RefusedIsDone
<1>3. CASE /\ l \in DOMAIN db.lists /\ db.lists[l].status = "active"
           /\ Looping(r, db, LinesOf(db, l))
  <2>1. /\ pc'[r] = "looping" /\ work'[r] = disk /\ todo'[r] = LinesOf(disk, l)
        /\ op' = op /\ disk' = disk
    BY <1>1, <1>3 DEF Looping, Inv, TypeOK
  <2>2. Got(r)' = {}
    BY <2>1 DEF Got
  <2>3. disk.lines = [i \in DOMAIN disk.lines |-> disk.lines[i]]
    BY <1>1 DEF IsTable
  <2>4. ASSUME NEW k \in Keys
        PROVE  QtyOf(disk.stock, k) = QtyOf(disk.stock, k) + Ledger!SumOf(disk.lines, {})
    BY <1>1, StockAmounts, SumOfNone
  <2>5. \A k : {i \in {} : KeyOfLine(disk.lines[i]) = k} = {}
    OBVIOUS
  <2>6. Submitted(r)'
    BY <1>1, <1>3, <2>1, <2>2, <2>3, <2>4, <2>5 DEF Submitted
  <2> QED
    BY <1>1, <2>1, <2>6 DEF TxGranted
<1> QED
  BY <1>2, <1>3 DEF Submit

\* What a submit that is in its loop starts its next turn from.
LEMMA SubmittingOn ==
  ASSUME GrantInv, NEW r \in Requests, pc[r] = "looping", op[r].kind = "submit"
  PROVE  /\ Submitted(r) /\ Inv /\ IsDb(disk) /\ IsDb(work[r]) /\ op[r] # NoOp
         /\ IsTable(disk.lines, GroceryLine) /\ IsTable(work[r].stock, StockRow)
         /\ UniqueKeys(work[r].stock)
         /\ Got(r) \subseteq DOMAIN disk.lines
         /\ \A i \in Got(r) : Eligible(disk.lines[i])
         /\ todo[r] # {} => Min(todo[r]) \in todo[r]
<1>1. Submitted(r) /\ Inv /\ IsDb(disk) /\ IsDb(work[r]) /\ op[r] # NoOp
  BY GrantedOn DEF GrantInv, TxGranted, Active
<1>2. IsTable(disk.lines, GroceryLine) /\ IsTable(work[r].stock, StockRow)
  BY <1>1 DEF IsDb
<1>3. UniqueKeys(work[r].stock)
  BY InLoopOn DEF GrantInv, ListInv, LineInv, LogInv, LinkInv
<1>4. Got(r) \subseteq DOMAIN disk.lines /\ \A i \in Got(r) : Eligible(disk.lines[i])
  BY DEF Got, LinesOf
<1>5. todo[r] # {} => Min(todo[r]) \in todo[r]
  <2>1. /\ DOMAIN disk.lines \in SUBSET Nat /\ IsFiniteSet(DOMAIN disk.lines)
        /\ todo[r] \subseteq DOMAIN disk.lines
    BY <1>1, <1>2 DEF IsTable, Ids, Submitted, LinesOf
  <2>2. todo[r] \in SUBSET Nat /\ IsFiniteSet(todo[r])
    BY <2>1, FS_Subset
  <2> QED
    BY <2>2, MinIsElement
<1> QED
  BY <1>1, <1>2, <1>3, <1>4, <1>5

\* One more line bought: the amounts of the stock are what they were on disk and what
\* the lines bought so far add up to.
LEMMA LineAdds ==
  ASSUME GrantInv, NEW r \in Requests, pc[r] = "looping", op[r].kind = "submit",
         NEW i \in todo[r], Eligible(disk.lines[i])
  PROVE  LET k     == KeyOfLine(disk.lines[i])
             add   == AddBase(disk.lines[i].qty, disk.lines[i].unit)
             stock == Upsert(work[r].stock, k, add)
             got   == Got(r) \cup {i}
         IN  /\ k \in Keys
             /\ \A j \in DOMAIN disk.stock :
                  j \in DOMAIN stock /\ KeyOf(stock[j]) = KeyOf(disk.stock[j])
             /\ \A x \in Keys :
                  /\ HasKey(stock, x) <=>
                       (HasKey(disk.stock, x) \/ \E j \in got : KeyOfLine(disk.lines[j]) = x)
                  /\ QtyOf(stock, x) =
                       QtyOf(disk.stock, x)
                         + Ledger!SumOf(disk.lines, {j \in got : KeyOfLine(disk.lines[j]) = x})
<1> DEFINE line  == disk.lines[i]
           k     == KeyOfLine(line)
           add   == AddBase(line.qty, line.unit)
           stock == Upsert(work[r].stock, k, add)
           got   == Got(r) \cup {i}
           of(S, x) == {j \in S : KeyOfLine(disk.lines[j]) = x}
<1>1. /\ Submitted(r) /\ IsDb(disk) /\ IsTable(disk.lines, GroceryLine)
      /\ IsTable(work[r].stock, StockRow) /\ UniqueKeys(work[r].stock)
      /\ Got(r) \subseteq DOMAIN disk.lines
      /\ \A j \in Got(r) : Eligible(disk.lines[j])
  BY SubmittingOn
<1>2. i \in DOMAIN disk.lines /\ i \notin Got(r)
  BY <1>1 DEF Submitted, LinesOf, Got
<1>3. line \in GroceryLine /\ line.qty \in Nat /\ line.unit \in Units /\ line.item \in Items
  BY <1>1, <1>2 DEF IsTable, GroceryLine, Eligible
<1>4. k \in Keys /\ add \in Nat
  BY <1>3, AddKeyType, AddBaseType DEF KeyOfLine
<1> HIDE DEF k, add
<1>5. /\ HasKey(stock, k) /\ QtyOf(stock, k) = QtyOf(work[r].stock, k) + add
      /\ \A x : x # k => /\ HasKey(stock, x) <=> HasKey(work[r].stock, x)
                         /\ QtyOf(stock, x) = QtyOf(work[r].stock, x)
      /\ \A j \in DOMAIN work[r].stock :
           j \in DOMAIN stock /\ KeyOf(stock[j]) = KeyOf(work[r].stock[j])
  BY <1>1, <1>4, UpsertQty
<1> HIDE DEF stock
<1>6. /\ \A j \in DOMAIN disk.stock :
           j \in DOMAIN work[r].stock /\ KeyOf(work[r].stock[j]) = KeyOf(disk.stock[j])
      /\ \A x \in Keys :
           /\ HasKey(work[r].stock, x) <=>
                (HasKey(disk.stock, x) \/ \E j \in Got(r) : KeyOfLine(disk.lines[j]) = x)
           /\ QtyOf(work[r].stock, x) =
                QtyOf(disk.stock, x) + Ledger!SumOf(disk.lines, of(Got(r), x))
  BY <1>1 DEF Submitted
<1>7. \A j \in DOMAIN disk.stock : j \in DOMAIN stock /\ KeyOf(stock[j]) = KeyOf(disk.stock[j])
  BY <1>5, <1>6
<1>8. \A x : (\E j \in got : KeyOfLine(disk.lines[j]) = x)
               <=> (x = k \/ \E j \in Got(r) : KeyOfLine(disk.lines[j]) = x)
  BY DEF k
<1>9. \A x \in Keys : HasKey(stock, x) <=>
        (HasKey(disk.stock, x) \/ \E j \in got : KeyOfLine(disk.lines[j]) = x)
  BY <1>5, <1>6, <1>8
<1>10. ASSUME NEW x \in Keys, x # k
       PROVE  QtyOf(stock, x) = QtyOf(disk.stock, x) + Ledger!SumOf(disk.lines, of(got, x))
  <2>1. of(got, x) = of(Got(r), x)
    BY <1>10 DEF k
  <2> HIDE DEF of, got
  <2> QED
    BY <1>5, <1>6, <1>10, <2>1
<1>11. QtyOf(stock, k) = QtyOf(disk.stock, k) + Ledger!SumOf(disk.lines, of(got, k))
  <2>1. /\ of(got, k) = of(Got(r), k) \cup {i}
        /\ i \in DOMAIN disk.lines \ of(Got(r), k)
        /\ of(Got(r), k) \in SUBSET DOMAIN disk.lines
    BY <1>1, <1>2 DEF k
  <2>2. \A j \in of(Got(r), k) \cup {i} : disk.lines[j].qty # NoQty
    BY <1>1 DEF Eligible
  <2> DEFINE S == of(Got(r), k)
             lines == disk.lines
  <2>3. /\ IsTable(lines, GroceryLine) /\ S \in SUBSET DOMAIN lines /\ i \in DOMAIN lines \ S
        /\ \A j \in S \cup {i} : lines[j].qty # NoQty
    BY <1>1, <2>1, <2>2
  <2> HIDE DEF S, lines
  <2>4. /\ Ledger!SumOf(lines, S) \in Nat
        /\ Ledger!SumOf(lines, S \cup {i})
             = Ledger!SumOf(lines, S) + AddBase(lines[i].qty, lines[i].unit)
    BY <2>3, SumOfMore
  <2>5. Ledger!SumOf(disk.lines, of(got, k)) = Ledger!SumOf(lines, S) + add
    BY <2>1, <2>4 DEF S, lines, add
  <2>6. QtyOf(work[r].stock, k) = QtyOf(disk.stock, k) + Ledger!SumOf(lines, S)
    BY <1>4, <1>6 DEF S, lines
  <2>7. QtyOf(disk.stock, k) \in Nat
    BY <1>1, StockAmounts
  <2> QED
    BY <1>4, <1>5, <2>4, <2>5, <2>6, <2>7
<1>12. \A x \in Keys :
         QtyOf(stock, x) = QtyOf(disk.stock, x) + Ledger!SumOf(disk.lines, of(got, x))
  BY <1>10, <1>11
<1> QED
  BY <1>4, <1>7, <1>9, <1>12 DEF stock, k, add

LEMMA SubmitLineGrants ==
  ASSUME GrantInv, NEW r \in Requests, SubmitLine(r) PROVE TxGranted(r)'
<1> DEFINE db   == work[r]
           i    == Min(todo[r])
           line == db.lines[i]
           k    == AddKey(Norm[line.item], line.unit)
           add  == AddBase(line.qty, line.unit)
           put  == [line EXCEPT !.frozen = TRUE, !.applied = add]
           new  == [db EXCEPT !.stock = Upsert(@, k, add), !.lines = Put(@, i, put)]
<1>1. /\ pc[r] = "looping" /\ op[r].kind = "submit" /\ todo[r] # {}
      /\ Submitted(r) /\ Inv /\ IsDb(disk) /\ IsDb(db) /\ op[r] # NoOp
      /\ i \in todo[r] /\ i \notin Got(r)
  BY SubmittingOn DEF SubmitLine, InLoop, Got
<1> HIDE DEF i
<1>2. i \in LinesOf(disk, op[r].list) /\ i \in DOMAIN disk.lines /\ line = disk.lines[i]
  BY <1>1 DEF Submitted, LinesOf
<1>3. CASE Refuse(r, "409")
  BY <1>1, <1>3, RefusedIsDone
<1>4. CASE ~Eligible(line) /\ Looping(r, db, todo[r] \ {i})
  <2>1. /\ pc'[r] = "looping" /\ work'[r] = db /\ todo'[r] = todo[r] \ {i}
        /\ op' = op /\ disk' = disk
    BY <1>1, <1>4 DEF Looping, Inv, TypeOK
  <2>2. Got(r)' = Got(r)
    BY <1>2, <1>4, <2>1 DEF Got
  <2>3. todo'[r] \subseteq LinesOf(disk, op[r].list)
    BY <1>1, <2>1 DEF Submitted
  <2>4. Submitted(r)'
    BY <1>1, <2>1, <2>2, <2>3 DEF Submitted
  <2> QED
    BY <1>1, <2>1, <2>4 DEF TxGranted
<1>5. CASE /\ Eligible(line)
           /\ work' = [work EXCEPT ![r] = new]
           /\ todo' = [todo EXCEPT ![r] = @ \ {i}]
           /\ UNCHANGED <<disk, pc, op>>
  <2>1. /\ pc'[r] = "looping" /\ work'[r] = new /\ todo'[r] = todo[r] \ {i}
        /\ op' = op /\ disk' = disk
    BY <1>1, <1>5 DEF Inv, TypeOK
  <2>2. Got(r)' = Got(r) \cup {i}
    BY <1>1, <1>2, <1>5, <2>1 DEF Got
  <2>3. todo'[r] \subseteq LinesOf(disk, op[r].list)
    BY <1>1, <2>1 DEF Submitted
  <2>4. /\ new.stock = Upsert(db.stock, k, add) /\ new.lines = Put(db.lines, i, put)
        /\ new.lists = db.lists /\ new.recipes = db.recipes /\ new.logs = db.logs
    BY <1>1 DEF IsDb
  <2> DEFINE got == Got(r) \cup {i}
  <2>5. put = BoughtLine(disk.lines[i]) /\ k = KeyOfLine(disk.lines[i])
    BY <1>2 DEF BoughtLine, KeyOfLine
  <2>6. /\ \A j \in DOMAIN disk.stock :
             j \in DOMAIN new.stock /\ KeyOf(new.stock[j]) = KeyOf(disk.stock[j])
        /\ \A x \in Keys :
             /\ HasKey(new.stock, x) <=>
                  (HasKey(disk.stock, x) \/ \E j \in got : KeyOfLine(disk.lines[j]) = x)
             /\ QtyOf(new.stock, x) =
                  QtyOf(disk.stock, x)
                    + Ledger!SumOf(disk.lines, {j \in got : KeyOfLine(disk.lines[j]) = x})
    <3> DEFINE stock == Upsert(db.stock, KeyOfLine(disk.lines[i]),
                               AddBase(disk.lines[i].qty, disk.lines[i].unit))
    <3>1. new.stock = stock
      BY <1>2, <2>4, <2>5
    <3>2. Eligible(disk.lines[i])
      BY <1>2, <1>5
    <3>3. /\ \A j \in DOMAIN disk.stock :
               j \in DOMAIN stock /\ KeyOf(stock[j]) = KeyOf(disk.stock[j])
          /\ \A x \in Keys :
               /\ HasKey(stock, x) <=>
                    (HasKey(disk.stock, x) \/ \E j \in got : KeyOfLine(disk.lines[j]) = x)
               /\ QtyOf(stock, x) =
                    QtyOf(disk.stock, x)
                      + Ledger!SumOf(disk.lines, {j \in got : KeyOfLine(disk.lines[j]) = x})
      BY <1>1, <3>2, LineAdds
    <3> HIDE DEF stock, new, got
    <3> QED
      BY <3>1, <3>3
  <2> HIDE DEF new, put, k, add
  <2>7. new.lines = [j \in DOMAIN disk.lines |->
                       IF j \in got THEN BoughtLine(disk.lines[j]) ELSE disk.lines[j]]
    <3>1. db.lines = [j \in DOMAIN disk.lines |->
                        IF j \in Got(r) THEN BoughtLine(disk.lines[j]) ELSE disk.lines[j]]
      BY <1>1 DEF Submitted
    <3>2. DOMAIN db.lines \cup {i} = DOMAIN disk.lines
      BY <1>2, <3>1
    <3> HIDE DEF db
    <3> QED
      BY <1>2, <2>4, <2>5, <3>1, <3>2 DEF Put
  <2> HIDE DEF got
  <2>8. Got(r)' = got
    BY <2>2 DEF got
  <2>9. Submitted(r)'
    BY <1>1, <2>1, <2>3, <2>4, <2>6, <2>7, <2>8 DEF Submitted
  <2> QED
    BY <1>1, <2>1, <2>9 DEF TxGranted
<1> QED
  BY <1>3, <1>4, <1>5 DEF SubmitLine, LineOverflows, i

\* A submit that has visited every line of its list has done what the ledger says.
LEMMA SubmittedGrants ==
  ASSUME GrantInv, NEW r \in Requests, pc[r] = "looping", op[r].kind = "submit", todo[r] = {}
  PROVE  Granted(r)
<1> DEFINE p == op[r]
           e == work[r]
<1>1. Submitted(r) /\ IsDb(disk) /\ IsTable(disk.lines, GroceryLine) /\ UniqueKeys(e.stock)
  BY SubmittingOn
<1>2. /\ ~Ledger!Missing(p, disk) /\ ~Ledger!Closed(p, disk) /\ ~Ledger!Senseless(p, disk)
  BY <1>1 DEF Submitted, Ledger!Missing, Ledger!Closed, Ledger!Senseless
<1>3. Ledger!Bought(p, disk) = Got(r)
  BY SameRows, SameLines DEF Ledger!Bought, Got
<1>4. Ledger!GroceryEffect(p, disk, e)
  <2>1. e.lines = [i \in DOMAIN disk.lines |->
          IF i \in Got(r)
          THEN [disk.lines[i] EXCEPT !.frozen = TRUE,
                                     !.applied = Ledger!LineBase(disk.lines[i])]
          ELSE disk.lines[i]]
    BY <1>1, SameLines DEF Submitted, BoughtLine
  <2>2. e.lists = disk.lists
    BY <1>1 DEF Submitted
  <2>3. e.lines = [i \in DOMAIN disk.lines |->
          IF i \in Ledger!Bought(p, disk)
          THEN [disk.lines[i] EXCEPT !.frozen = TRUE,
                                     !.applied = Ledger!LineBase(disk.lines[i])]
          ELSE disk.lines[i]]
    BY <1>3, <2>1
  <2> HIDE DEF e
  <2> QED
    BY <2>2, <2>3 DEF Ledger!GroceryEffect
<1>5. Ledger!RecipeEffect(p, disk, e) /\ Ledger!LogEffect(r, p, disk, e)
  BY <1>1 DEF Submitted, Ledger!RecipeEffect, Ledger!LogEffect
<1> DEFINE of(k) == {i \in Got(r) : KeyOfLine(disk.lines[i]) = k}
<1>6. Ledger!Touched(p, disk) = {KeyOfLine(disk.lines[i]) : i \in Got(r)}
  BY <1>3, SameLines DEF Ledger!Touched, KeyOfLine
<1>7. \A k : Ledger!Change(p, disk, k) = Ledger!SumOf(disk.lines, of(k))
  BY <1>3, SameLines DEF Ledger!Change, KeyOfLine
<1>8. ASSUME NEW k \in Keys
      PROVE  /\ HasKey(e.stock, k) <=> HasKey(disk.stock, k) \/ k \in Ledger!Touched(p, disk)
             /\ QtyOf(e.stock, k) = QtyOf(disk.stock, k)
                  + (IF k \in Ledger!Touched(p, disk) THEN Ledger!Change(p, disk, k) ELSE 0)
  <2>1. /\ HasKey(e.stock, k) <=>
             (HasKey(disk.stock, k) \/ \E i \in Got(r) : KeyOfLine(disk.lines[i]) = k)
        /\ QtyOf(e.stock, k) = QtyOf(disk.stock, k) + Ledger!SumOf(disk.lines, of(k))
    BY <1>1 DEF Submitted
  <2>2. k \notin Ledger!Touched(p, disk) => of(k) = {}
    BY <1>6
  <2>3. Ledger!SumOf(disk.lines, {}) = 0
    BY <1>1, SumOfNone
  <2>4. k \in Ledger!Touched(p, disk) <=> \E i \in Got(r) : KeyOfLine(disk.lines[i]) = k
    BY <1>6
  <2> HIDE DEF of
  <2> QED
    BY <1>7, <2>1, <2>2, <2>3, <2>4
<1>9. Ledger!StockMoves(p, disk, e)
  BY <1>1, <1>8, SameQty, SameKeys, SameRows DEF Submitted, Ledger!StockMoves
<1>10. Ledger!StockEffect(p, disk, e)
  BY <1>9 DEF Ledger!StockEffect
<1> QED
  BY <1>2, <1>4, <1>5, <1>10 DEF Granted, Ledger!Effect

-----------------------------------------------------------------------------
(* Cook.                                                                    *)

LEMMA CookGrants ==
  ASSUME GrantInv, NEW r \in Requests, Cook(r) PROVE TxGranted(r)'
<1> DEFINE p     == op[r]
           db    == work[r]
           drawn == DrawnBy(p, disk)
           log   == [recipe |-> p.recipe, drawn |-> drawn]
           new   == [db EXCEPT !.logs = Put(@, r, log)]
<1>1. /\ pc[r] = "open" /\ p.kind = "cook" /\ db = disk /\ Inv /\ IsDb(disk) /\ op[r] # NoOp
  BY GrantedOn DEF Cook, Running, Active
<1>2. CASE Refuse(r, "404")
  BY <1>1, <1>2, RefusedIsDone
<1>3. CASE p.recipe \in DOMAIN disk.recipes /\ Looping(r, new, DOMAIN drawn)
  <2>1. /\ pc'[r] = "looping" /\ work'[r] = new /\ todo'[r] = DOMAIN drawn
        /\ op' = op /\ disk' = disk
    BY <1>1, <1>3 DEF Looping, Inv, TypeOK
  <2>2. /\ new.stock = disk.stock /\ new.lists = disk.lists /\ new.lines = disk.lines
        /\ new.recipes = disk.recipes /\ new.logs = Put(disk.logs, r, log)
    BY <1>1 DEF IsDb
  <2>3. DrawnBy(op[r], disk)' = drawn
    BY <2>1 DEF DrawnBy
  <2> HIDE DEF new, drawn
  <2>4. Cooked(r)'
    BY <1>3, <2>1, <2>2, <2>3 DEF Cooked
  <2> QED
    BY <1>1, <2>1, <2>4 DEF TxGranted
<1>4. drawn = IF p.deduct THEN Draws([k \in Keys |-> db.recipes[p.recipe].need[k] * p.times],
                                    db.stock)
              ELSE NoRows
  BY <1>1 DEF DrawnBy
<1> HIDE DEF drawn
<1>5. \/ Refuse(r, "404")
      \/ p.recipe \in DOMAIN disk.recipes /\ Looping(r, new, DOMAIN drawn)
  BY <1>1, <1>4 DEF Cook
<1> QED
  BY <1>2, <1>3, <1>5 DEF drawn

\* What a cook that is in its loop starts its next turn from.
LEMMA CookingOn ==
  ASSUME GrantInv, NEW r \in Requests, pc[r] = "looping", op[r].kind = "cook"
  PROVE  /\ Cooked(r) /\ Inv /\ IsDb(disk) /\ IsDb(work[r]) /\ op[r] # NoOp
         /\ UniqueKeys(work[r].stock) /\ r \notin DOMAIN disk.logs
         /\ work[r].logs[r].drawn = DrawnBy(op[r], disk)
         /\ \A k \in todo[r] :
              HasKey(work[r].stock, k) /\ k \in DOMAIN DrawnBy(op[r], disk)
         /\ DOMAIN DrawnBy(op[r], disk) \subseteq Keys
         /\ \A k \in DOMAIN DrawnBy(op[r], disk) : DrawnBy(op[r], disk)[k] \in Draw
<1>1. Cooked(r) /\ Inv /\ IsDb(disk) /\ IsDb(work[r]) /\ op[r] # NoOp
  BY GrantedOn DEF GrantInv, TxGranted, Active
<1>2. /\ UniqueKeys(work[r].stock) /\ r \notin DOMAIN disk.logs
      /\ LoopBounds(r, op[r].kind, work[r], todo[r])
  BY LoggedOn DEF GrantInv, ListInv, LineInv, Active
<1>3. work[r].logs[r] = [recipe |-> op[r].recipe, drawn |-> DrawnBy(op[r], disk)]
  BY <1>1 DEF Cooked, Put
<1>4. work[r].logs[r].drawn = DrawnBy(op[r], disk)
  BY <1>3
<1>5. /\ todo[r] \subseteq DOMAIN DrawnBy(op[r], disk)
      /\ \A k \in todo[r] : HasKey(work[r].stock, k)
  BY <1>1, <1>2 DEF Cooked, LoopBounds
<1>6. IsLog(work[r].logs[r])
  BY <1>1, <1>2 DEF IsDb, LoopBounds
<1> QED
  BY <1>1, <1>2, <1>4, <1>5, <1>6 DEF IsLog

LEMMA CookRowGrants ==
  ASSUME GrantInv, NEW r \in Requests, CookRow(r) PROVE TxGranted(r)'
<1> DEFINE k     == CHOOSE x \in todo[r] : TRUE
           db    == work[r]
           drawn == DrawnBy(op[r], disk)
           draw  == db.logs[r].drawn[k]
           i     == TargetOf(db.stock, k)
           row   == [db.stock[i] EXCEPT !.qty = draw.after]
           new   == [db EXCEPT !.stock = Put(@, i, row)]
<1>1. /\ pc[r] = "looping" /\ op[r].kind = "cook" /\ todo[r] # {}
  BY DEF CookRow, InLoop
<1>2. /\ Cooked(r) /\ Inv /\ IsDb(db) /\ op[r] # NoOp /\ UniqueKeys(db.stock)
      /\ db.logs[r].drawn = drawn
      /\ \A x \in todo[r] : HasKey(db.stock, x) /\ x \in DOMAIN drawn
      /\ DOMAIN drawn \subseteq Keys /\ \A x \in DOMAIN drawn : drawn[x] \in Draw
  BY <1>1, CookingOn
<1>3. k \in todo[r]
  BY <1>1
<1>4. /\ pc'[r] = "looping" /\ work'[r] = new /\ todo'[r] = todo[r] \ {k}
      /\ op' = op /\ disk' = disk
  BY <1>1, <1>2 DEF CookRow, Inv, TypeOK
<1> HIDE DEF k
<1>5. i \in DOMAIN db.stock /\ KeyOf(db.stock[i]) = k
  BY <1>2, <1>3, IdOfType DEF TargetOf
<1>6. draw = drawn[k] /\ draw.after \in Nat /\ db.stock[i] \in StockRow
  BY <1>2, <1>3, <1>5 DEF Draw, IsDb, IsTable
<1> HIDE DEF draw, i
<1>7. KeyOf(row) = k /\ row.qty = draw.after /\ db.stock[i].qty \in Int
  BY <1>5, <1>6 DEF StockRow, KeyOf
<1> HIDE DEF row
<1>8. /\ new.stock = Put(db.stock, i, row) /\ new.logs = db.logs /\ new.lists = db.lists
      /\ new.lines = db.lines /\ new.recipes = db.recipes
  BY <1>2 DEF IsDb
<1> HIDE DEF new
<1>9. /\ QtyOf(new.stock, k) = draw.after
      /\ \A x : x # k => QtyOf(new.stock, x) = QtyOf(db.stock, x)
  BY <1>2, <1>5, <1>6, <1>7, <1>8, SetBooks
<1>10. /\ DOMAIN new.stock = DOMAIN disk.stock
       /\ \A j \in DOMAIN disk.stock : KeyOf(new.stock[j]) = KeyOf(disk.stock[j])
  BY <1>2, <1>5, <1>7, <1>8 DEF Put, Cooked
<1>11. DrawnBy(op[r], disk)' = drawn
  BY <1>4 DEF DrawnBy
<1> HIDE DEF drawn
<1>12. ASSUME NEW x \in Keys
       PROVE  QtyOf(new.stock, x) = IF x \in DOMAIN drawn \ (todo[r] \ {k})
                                    THEN drawn[x].after ELSE QtyOf(disk.stock, x)
  <2>1. QtyOf(db.stock, x) = IF x \in DOMAIN drawn \ todo[r]
                             THEN drawn[x].after ELSE QtyOf(disk.stock, x)
    BY <1>2 DEF Cooked, drawn
  <2>2. CASE x = k
    BY <1>2, <1>3, <1>6, <1>9, <2>2
  <2>3. CASE x # k
    BY <1>9, <2>1, <2>3
  <2> QED
    BY <2>2, <2>3
<1>13. Cooked(r)'
  BY <1>2, <1>4, <1>8, <1>10, <1>11, <1>12 DEF Cooked, drawn
<1> QED
  BY <1>1, <1>2, <1>4, <1>13 DEF TxGranted

\* A cook that has visited every row it draws from has done what the ledger says.
LEMMA CookedGrants ==
  ASSUME GrantInv, NEW r \in Requests, pc[r] = "looping", op[r].kind = "cook", todo[r] = {}
  PROVE  Granted(r)
<1> DEFINE p     == op[r]
           e     == work[r]
           drawn == DrawnBy(p, disk)
           need  == [k \in Keys |-> disk.recipes[p.recipe].need[k] * p.times]
           have(k) == QtyOf(disk.stock, k)
<1>1. /\ Cooked(r) /\ IsDb(disk) /\ IsDb(e) /\ UniqueKeys(e.stock) /\ r \notin DOMAIN disk.logs
      /\ DOMAIN drawn \subseteq Keys
  BY CookingOn
<1>2. /\ p.recipe \in DOMAIN disk.recipes
      /\ e.lists = disk.lists /\ e.lines = disk.lines /\ e.recipes = disk.recipes
      /\ e.logs = Put(disk.logs, r, [recipe |-> p.recipe, drawn |-> drawn])
      /\ DOMAIN e.stock = DOMAIN disk.stock
      /\ \A i \in DOMAIN disk.stock : KeyOf(e.stock[i]) = KeyOf(disk.stock[i])
      /\ \A k \in Keys : QtyOf(e.stock, k) = IF k \in DOMAIN drawn THEN drawn[k].after
                                                                  ELSE have(k)
  BY <1>1 DEF Cooked
<1>3. \A k \in Keys : have(k) \in Nat /\ need[k] \in Nat
  <2>1. p.times \in Nat
    BY GrantedOn, OpFields
  <2>2. disk.recipes[p.recipe].need \in [Keys -> Nat]
    BY <1>1, <1>2 DEF IsDb, IsTable, Recipe
  <2>3. \A k \in Keys : disk.recipes[p.recipe].need[k] \in Nat
    BY <2>2
  <2>4. \A k \in Keys : disk.recipes[p.recipe].need[k] * p.times \in Nat
    BY <2>1, <2>3
  <2> QED
    BY <1>1, <2>4, StockAmounts
<1>4. drawn = IF p.deduct THEN Draws(need, disk.stock) ELSE NoRows
  BY DEF DrawnBy
<1>5. \A k \in Keys :
        /\ k \in DOMAIN drawn <=> p.deduct /\ need[k] > 0 /\ have(k) > 0
        /\ k \in DOMAIN drawn =>
             /\ drawn[k].before = have(k)
             /\ drawn[k].after = IF need[k] < have(k) THEN have(k) - need[k] ELSE 0
  <2>1. CASE p.deduct
    <3>1. drawn = Draws(need, disk.stock)
      BY <1>4, <2>1
    <3> HIDE DEF need, drawn
    <3>2. DOMAIN drawn = {k \in Keys : need[k] > 0 /\ have(k) > 0}
      BY <3>1 DEF Draws
    <3>3. \A k \in DOMAIN drawn :
            drawn[k] = [before |-> have(k),
                        after  |-> IF need[k] < have(k) THEN have(k) - need[k] ELSE 0]
      BY <3>1 DEF Draws
    <3> HIDE DEF have
    <3>4. ASSUME NEW k \in Keys
          PROVE  k \in DOMAIN drawn <=> p.deduct /\ need[k] > 0 /\ have(k) > 0
      BY <2>1, <3>2
    <3>5. \A k \in DOMAIN drawn :
            /\ drawn[k].before = have(k)
            /\ drawn[k].after = IF need[k] < have(k) THEN have(k) - need[k] ELSE 0
      BY <3>3
    <3> QED
      BY <3>4, <3>5
  <2>2. CASE ~p.deduct
    BY <1>4, <2>2 DEF NoRows
  <2> QED
    BY <2>1, <2>2
<1>6. /\ ~Ledger!Missing(p, disk) /\ ~Ledger!Closed(p, disk) /\ ~Ledger!Senseless(p, disk)
  BY <1>2 DEF Ledger!Missing, Ledger!Closed, Ledger!Senseless
<1>7. Ledger!GroceryEffect(p, disk, e) /\ Ledger!RecipeEffect(p, disk, e)
  BY <1>2 DEF Ledger!GroceryEffect, Ledger!RecipeEffect
<1>8. \A k \in Keys : Ledger!Touched(p, disk) = {x \in Keys : p.deduct /\ HasKey(disk.stock, x)}
  BY SameQty, SameRows DEF Ledger!Touched
<1>9. \A k \in Keys :
        Ledger!Change(p, disk, k) = 0 - (IF need[k] < have(k) THEN need[k] ELSE have(k))
  <2>1. Ledger!Need(p, disk) = need
    BY SameRows DEF Ledger!Need
  <2> QED
    BY <2>1, SameQty DEF Ledger!Change, Ledger!Least
<1>10. \A k : HasKey(e.stock, k) <=> HasKey(disk.stock, k)
  BY <1>2 DEF HasKey
<1>11. \A k \in Keys : ~HasKey(disk.stock, k) => have(k) = 0
  BY DEF QtyOf
<1> HIDE DEF drawn, need, have
<1>12. ASSUME NEW k \in Keys
       PROVE  /\ HasKey(e.stock, k) <=> HasKey(disk.stock, k) \/ k \in Ledger!Touched(p, disk)
              /\ QtyOf(e.stock, k) = have(k)
                   + (IF k \in Ledger!Touched(p, disk) THEN Ledger!Change(p, disk, k) ELSE 0)
  <2>1. k \in Ledger!Touched(p, disk) <=> p.deduct /\ HasKey(disk.stock, k)
    BY <1>8
  <2>2. QtyOf(e.stock, k) = IF k \in DOMAIN drawn THEN drawn[k].after ELSE have(k)
    BY <1>2
  <2>3. have(k) \in Nat /\ need[k] \in Nat /\ (~HasKey(disk.stock, k) => have(k) = 0)
    BY <1>3, <1>11
  <2>4. CASE p.deduct /\ HasKey(disk.stock, k)
    <3>1. Ledger!Change(p, disk, k) = 0 - (IF need[k] < have(k) THEN need[k] ELSE have(k))
      BY <1>9
    <3>2. CASE need[k] > 0 /\ have(k) > 0
      <4>1. QtyOf(e.stock, k) = IF need[k] < have(k) THEN have(k) - need[k] ELSE 0
        BY <1>5, <2>2, <2>4, <3>2
      <4> QED
        BY <1>10, <2>1, <2>3, <2>4, <3>1, <4>1
    <3>3. CASE ~(need[k] > 0 /\ have(k) > 0)
      <4>1. QtyOf(e.stock, k) = have(k)
        BY <1>5, <2>2, <3>3
      <4> QED
        BY <1>10, <2>1, <2>3, <2>4, <3>1, <3>3, <4>1
    <3> QED
      BY <3>2, <3>3
  <2>5. CASE ~(p.deduct /\ HasKey(disk.stock, k))
    <3>1. k \notin DOMAIN drawn
      BY <1>5, <2>3, <2>5
    <3> QED
      BY <1>10, <2>1, <2>2, <2>3, <2>5, <3>1
  <2> QED
    BY <2>4, <2>5
<1>13. Ledger!StockEffect(p, disk, e)
  <2>1. Ledger!StockMoves(p, disk, e)
    BY <1>1, <1>2, <1>12, SameQty, SameKeys, SameRows DEF Ledger!StockMoves, have
  <2> QED
    BY <2>1 DEF Ledger!StockEffect
<1>14. Ledger!LogEffect(r, p, disk, e)
  <2>1. /\ DOMAIN e.logs = DOMAIN disk.logs \cup {r}
        /\ \A s \in DOMAIN disk.logs : e.logs[s] = disk.logs[s]
        /\ e.logs[r] = [recipe |-> p.recipe, drawn |-> drawn]
    BY <1>1, <1>2 DEF Put
  <2>2. e.logs[r].recipe = p.recipe /\ e.logs[r].drawn = drawn
    BY <2>1
  <2>3. \A k \in DOMAIN drawn : drawn[k].before = have(k) /\ drawn[k].after = QtyOf(e.stock, k)
    BY <1>1, <1>2, <1>5 DEF drawn
  <2>4. \A k \in Keys : have(k) # QtyOf(e.stock, k) => k \in DOMAIN drawn
    BY <1>2
  <2> QED
    BY <2>1, <2>2, <2>3, <2>4, SameQty, SameRows DEF Ledger!LogEffect, have
<1> QED
  BY <1>6, <1>7, <1>13, <1>14 DEF Granted, Ledger!Effect

-----------------------------------------------------------------------------
(* Grocery generation.                                                      *)

LEMMA TwoParts ==
  ASSUME NEW S, IsFiniteSet(S), NEW A, NEW B, S = A \cup B, A \cap B = {}
  PROVE  /\ IsFiniteSet(A) /\ IsFiniteSet(B)
         /\ Cardinality(S) = Cardinality(A) + Cardinality(B)
<1>1. IsFiniteSet(A) /\ IsFiniteSet(B)
  BY FS_Subset
<1>2. Cardinality(A \cup B) = Cardinality(A) + Cardinality(B) - Cardinality(A \cap B)
  BY <1>1, FS_Union
<1>3. Cardinality(A \cap B) = 0 /\ Cardinality(A) \in Nat /\ Cardinality(B) \in Nat
  BY <1>1, FS_EmptySet, FS_CardinalityType
<1> QED
  BY <1>1, <1>2, <1>3

LEMMA OneToOne ==
  ASSUME NEW S, IsFiniteSet(S), NEW T, NEW f \in [S -> T],
         \A x, y \in S : f[x] = f[y] => x = y, \A t \in T : \E x \in S : f[x] = t
  PROVE  Cardinality(T) = Cardinality(S)
<1>1. f \in Bijection(S, T)
  BY DEF Bijection, Injection, IsInjective, Surjection
<1> QED
  BY <1>1, FS_Bijection DEF ExistsBijection

\* The facts about a set of inserted lines, and the count they give, in one name each.
AreGenerated(l, need, taste, stock, lines, new) ==
  /\ need \in [Keys -> Nat]
  /\ taste \in SUBSET Names
  /\ \A k : QtyOf(stock, k) \in Nat
  /\ IsFiniteSet(new)
  /\ \A i \in new : lines[i] \in GeneratedLines(l, need, taste, stock)
  /\ \A i, j \in new : lines[i] = lines[j] => i = j
  /\ \A line \in GeneratedLines(l, need, taste, stock) : \E i \in new : lines[i] = line

SizesAdd(need, taste, stock, new) ==
  Cardinality(new) = Cardinality(Shortfalls(need, stock))
    + Cardinality({m \in taste : \A k \in Shortfalls(need, stock) : k[1] # m})

\* One generated line for each short key and one for each name only wanted to taste.
LEMMA GeneratedSize ==
  ASSUME NEW l, NEW need, NEW taste, NEW stock, NEW lines, NEW new,
         AreGenerated(l, need, taste, stock, lines, new)
  PROVE  SizesAdd(need, taste, stock, new)
<1> /\ need \in [Keys -> Nat] /\ taste \in SUBSET Names
    /\ \A k : QtyOf(stock, k) \in Nat
    /\ IsFiniteSet(new)
    /\ \A i \in new : lines[i] \in GeneratedLines(l, need, taste, stock)
    /\ \A i, j \in new : lines[i] = lines[j] => i = j
    /\ \A line \in GeneratedLines(l, need, taste, stock) : \E i \in new : lines[i] = line
  BY DEF AreGenerated
<1> SUFFICES Cardinality(new) = Cardinality(Shortfalls(need, stock))
               + Cardinality({m \in taste : \A k \in Shortfalls(need, stock) : k[1] # m})
  BY DEF SizesAdd
<1> DEFINE short == Shortfalls(need, stock)
           loose == {m \in taste : \A k \in short : k[1] # m}
           Plain(n) == NewLine(l, Author[n], NoUnit, NoQty, "generated", FALSE)
           A == {i \in new : lines[i].qty # NoQty}
           B == {i \in new : lines[i].qty = NoQty}
           f == [i \in A |-> <<Norm[lines[i].item], BucketOf[lines[i].unit]>>]
           g == [i \in B |-> Norm[lines[i].item]]
<1>1. /\ GeneratedLines(l, need, taste, stock)
           = {ShortLine(l, need, stock, k) : k \in short} \cup {Plain(n) : n \in loose}
      /\ short \subseteq Keys /\ loose \subseteq Names
  BY DEF GeneratedLines, ShortLine, Shortfalls
<1>2. ASSUME NEW k \in short
      PROVE  LET line == ShortLine(l, need, stock, k)
             IN  /\ line.qty # NoQty
                 /\ <<Norm[line.item], BucketOf[line.unit]>> = k
  <2>1. need[k] - QtyOf(stock, k) \in Nat
    <3>1. k \in Keys /\ need[k] > QtyOf(stock, k)
      BY DEF Shortfalls
    <3>2. need[k] \in Nat /\ QtyOf(stock, k) \in Nat
      BY <3>1
    <3> QED
      BY <3>1, <3>2
  <2>2. /\ k[1] \in Names /\ k[2] \in Buckets /\ k = <<k[1], k[2]>>
    BY <1>1 DEF Keys
  <2>3. Norm[Author[k[1]]] = k[1] /\ BucketOf[CanonUnit[k[2]]] = k[2]
    BY <2>2, TextAssumption, UnitAssumption
  <2> QED
    BY <2>1, <2>2, <2>3, AmountAssumption DEF ShortLine, NewLine
<1>3. \A n \in loose : Plain(n).qty = NoQty /\ Norm[Plain(n).item] = n
  BY <1>1, TextAssumption DEF NewLine
<1> HIDE DEF short, loose, Plain
<1>4. ASSUME NEW i \in A
      PROVE  f[i] \in short /\ lines[i] = ShortLine(l, need, stock, f[i])
  <2>1. PICK k \in short : lines[i] = ShortLine(l, need, stock, k)
    BY <1>1, <1>3
  <2>2. f[i] = k
    BY <1>2, <2>1
  <2> QED
    BY <2>1, <2>2
<1>5. ASSUME NEW i \in B PROVE g[i] \in loose /\ lines[i] = Plain(g[i])
  <2>1. PICK n \in loose : lines[i] = Plain(n)
    BY <1>1, <1>2
  <2>2. g[i] = n
    BY <1>3, <2>1
  <2> QED
    BY <2>1, <2>2
<1>6. ASSUME NEW k \in short PROVE \E i \in A : f[i] = k
  <2>1. PICK i \in new : lines[i] = ShortLine(l, need, stock, k)
    BY <1>1
  <2> QED
    BY <1>2, <2>1
<1>7. ASSUME NEW n \in loose PROVE \E i \in B : g[i] = n
  <2>1. PICK i \in new : lines[i] = Plain(n)
    BY <1>1
  <2> QED
    BY <1>3, <2>1
<1>8. new = A \cup B /\ A \cap B = {}
  OBVIOUS
<1>9. f \in [A -> short] /\ g \in [B -> loose]
  BY <1>4, <1>5
<1>10. /\ \A i, j \in A : f[i] = f[j] => i = j
       /\ \A i, j \in B : g[i] = g[j] => i = j
  <2>1. A \subseteq new /\ B \subseteq new
    OBVIOUS
  <2> HIDE DEF A, B, f, g
  <2>2. ASSUME NEW i \in A, NEW j \in A, f[i] = f[j] PROVE i = j
    <3>1. lines[i] = lines[j]
      BY <1>4, <2>2
    <3> QED
      BY <2>1, <3>1
  <2>3. ASSUME NEW i \in B, NEW j \in B, g[i] = g[j] PROVE i = j
    <3>1. lines[i] = lines[j]
      BY <1>5, <2>3
    <3> QED
      BY <2>1, <3>1
  <2> QED
    BY <2>2, <2>3
<1> HIDE DEF A, B, f, g
<1>11. /\ IsFiniteSet(A) /\ IsFiniteSet(B)
       /\ Cardinality(new) = Cardinality(A) + Cardinality(B)
  BY <1>8, TwoParts
<1>12. Cardinality(short) = Cardinality(A) /\ Cardinality(loose) = Cardinality(B)
  <2>1. Cardinality(short) = Cardinality(A)
    BY <1>6, <1>9, <1>10, <1>11, OneToOne
  <2>2. Cardinality(loose) = Cardinality(B)
    BY <1>7, <1>9, <1>10, <1>11, OneToOne
  <2> QED
    BY <2>1, <2>2
<1> QED
  BY <1>11, <1>12 DEF short, loose


LEMMA CreateListGrants ==
  ASSUME GrantInv, NEW r \in Requests, CreateList(r) PROVE TxGranted(r)'
<1> PICK l : l = NextId(work[r].lists)
  OBVIOUS
<1> DEFINE p    == op[r]
           db   == work[r]
           new  == [db EXCEPT !.lists = Put(@, l, [status |-> "active"])]
           rest == GeneratedLines(l, TotalNeed(p, db), TotalTaste(p, db), db.stock)
<1>1. /\ Inv /\ ListInv /\ IsDb(disk) /\ pc[r] = "open" /\ p.kind = "create_list"
      /\ db = disk /\ op[r] # NoOp
  BY GrantedOn DEF CreateList, Running, Active
<1>2. CASE Refuse(r, "422")
  BY <1>1, <1>2, RefusedIsDone
<1>3. CASE ~BadSelection(p, db) /\ Looping(r, new, rest)
  <2>1. /\ pc'[r] = "looping" /\ work'[r] = new /\ op' = op /\ disk' = disk
    BY <1>1, <1>3 DEF Looping, Inv, TypeOK
  <2>2. /\ new.stock = disk.stock /\ new.lines = disk.lines /\ new.recipes = disk.recipes
        /\ new.logs = disk.logs /\ new.lists = Put(disk.lists, l, [status |-> "active"])
    BY <1>1 DEF IsDb
  <2> HIDE DEF new
  <2>3. TxListed(r)'
    BY <1>1, CreateListLists
  <2>4. PICK x \in Ids : Lists(r, x)'
    BY <1>1, <2>1, <2>3 DEF TxListed
  <2>5. x = l
    <3>1. /\ x \notin DOMAIN disk.lists /\ DOMAIN new.lists = DOMAIN disk.lists \cup {x}
      BY <2>1, <2>4 DEF Lists
    <3>2. DOMAIN new.lists = DOMAIN disk.lists \cup {l}
      BY <2>2 DEF Put
    <3> QED
      BY <3>1, <3>2
  <2>6. BadSelection(op[r], disk)' <=> BadSelection(p, db)
    BY <1>1, <2>1 DEF BadSelection
  <2>7. Listed(r)'
    BY <1>3, <2>1, <2>2, <2>4, <2>5, <2>6 DEF Listed
  <2> QED
    BY <1>1, <2>1, <2>7 DEF TxGranted
<1> QED
  BY <1>2, <1>3 DEF CreateList

\* What a generation that is in its loop starts its next turn from.
LEMMA ListingOn ==
  ASSUME GrantInv, NEW r \in Requests, pc[r] = "looping", op[r].kind = "create_list"
  PROVE  /\ Listed(r) /\ Inv /\ ListInv /\ IsDb(disk) /\ IsDb(work[r]) /\ ForeignKeys(disk)
         /\ UniqueKeys(disk.stock) /\ op[r] # NoOp /\ op[r] \in OpType
         /\ IsTable(work[r].lines, GroceryLine)
<1>1. /\ Inv /\ ListInv /\ IsDb(disk) /\ IsDb(work[r]) /\ ForeignKeys(disk)
      /\ UniqueKeys(disk.stock) /\ op[r] # NoOp /\ op[r] \in OpType
  BY GrantedOn DEF Active
<1>2. Listed(r)
  BY DEF GrantInv, TxGranted
<1> QED
  BY <1>1, <1>2 DEF IsDb

LEMMA InsertLineGrants ==
  ASSUME GrantInv, NEW r \in Requests, InsertLine(r) PROVE TxGranted(r)'
<1> DEFINE db == work[r]
<1>1. pc[r] = "looping" /\ op[r].kind = "create_list"
  BY DEF InsertLine, InLoop
<1>2. /\ Listed(r) /\ Inv /\ ListInv /\ IsDb(db) /\ op[r] # NoOp
      /\ IsTable(db.lines, GroceryLine)
  BY <1>1, ListingOn
<1>3. PICK line \in todo[r] :
        Looping(r, [db EXCEPT !.lines = Put(@, NextId(@), line)], todo[r] \ {line})
  BY DEF InsertLine
<1>4. PICK l \in Ids : /\ Lists(r, l)
                       /\ db.lists = Put(disk.lists, l, [status |-> "active"])
                       /\ \A i \in DOMAIN db.lines \ DOMAIN disk.lines : db.lines[i].list = l
  BY <1>2 DEF Listed
<1> DEFINE i   == NextId(db.lines)
           new == [db EXCEPT !.lines = Put(@, NextId(@), line)]
<1>5. i \notin DOMAIN db.lines
  BY <1>2, NextIdIsFresh
<1>6. /\ new.lines = Put(db.lines, i, line) /\ new.lists = db.lists /\ new.stock = db.stock
      /\ new.recipes = db.recipes /\ new.logs = db.logs
  BY <1>2 DEF IsDb
<1>7. pc'[r] = "looping" /\ work'[r] = new /\ op' = op /\ disk' = disk
  BY <1>1, <1>2, <1>3 DEF Looping, Inv, TypeOK
<1> HIDE DEF i, new
<1>8. line.list = l
  <2>1. line \in Generated(r, l)
    BY <1>4 DEF Lists
  <2>2. \A x \in Generated(r, l) : x.list = l
    BY DEF Generated, GeneratedLines, NewLine
  <2> QED
    BY <2>1, <2>2
<1>9. /\ DOMAIN new.lines = DOMAIN db.lines \cup {i} /\ new.lines[i] = line
      /\ \A j \in DOMAIN db.lines : new.lines[j] = db.lines[j]
  BY <1>5, <1>6 DEF Put
<1>10. /\ DOMAIN disk.lines \subseteq DOMAIN db.lines
       /\ \A j \in DOMAIN disk.lines : db.lines[j] = disk.lines[j]
  BY <1>2 DEF Listed
<1>11. /\ DOMAIN disk.lines \subseteq DOMAIN new.lines
       /\ \A j \in DOMAIN disk.lines : new.lines[j] = disk.lines[j]
       /\ \A j \in DOMAIN new.lines \ DOMAIN disk.lines : new.lines[j].list = l
  BY <1>4, <1>8, <1>9, <1>10
<1>12. PICK x \in Ids : Lists(r, x)'
  BY <1>1, <1>2, <1>7, InsertLineLists DEF TxListed
<1>13. x = l
  <2>1. x \notin DOMAIN disk.lists /\ DOMAIN db.lists = DOMAIN disk.lists \cup {x}
    BY <1>6, <1>7, <1>12 DEF Lists
  <2>2. DOMAIN db.lists = DOMAIN disk.lists \cup {l}
    BY <1>4 DEF Put
  <2> QED
    BY <2>1, <2>2
<1>14. BadSelection(op[r], disk)' <=> BadSelection(op[r], disk)
  BY <1>7 DEF BadSelection
<1>15. Listed(r)'
  BY <1>2, <1>4, <1>6, <1>7, <1>11, <1>12, <1>13, <1>14 DEF Listed
<1> QED
  BY <1>1, <1>2, <1>7, <1>15 DEF TxGranted

\* Need and the generation of the code want the same amounts and names.
LEMMA SameNeed ==
  ASSUME NEW p \in OpType, p.kind = "create_list", NEW d, IsDb(d), ~BadSelection(p, d)
  PROVE  /\ Ledger!Need(p, d) = TotalNeed(p, d)
         /\ TotalNeed(p, d) \in [Keys -> Nat] /\ TotalTaste(p, d) \in SUBSET Names
         /\ UNION {d.recipes[i].taste : i \in {p.first, p.second} \ {NoRecipe}}
              = TotalTaste(p, d)
<1>1. /\ p.first \in Ids /\ p.second \in Ids \cup {NoRecipe}
      /\ p.times[1] \in Nat /\ p.times[2] \in Nat
  BY OpFields
<1>2. TotalNeed(p, d) \in [Keys -> Nat] /\ TotalTaste(p, d) \in SUBSET Names
  BY <1>1, TotalNeedType DEF IsDb
<1>3. Ledger!Need(p, d) = TotalNeed(p, d)
  <2>1. CASE p.second = NoRecipe
    <3>1. p.first \in DOMAIN d.recipes
      BY <1>1, <2>1 DEF BadSelection, Ids, NoRecipe
    <3>2. d.recipes[p.first].need \in [Keys -> Nat]
      BY <3>1 DEF IsDb, IsTable, Recipe
    <3>3. \A k \in Keys : d.recipes[p.first].need[k] * p.times[1] \in Nat
      BY <1>1, <3>2
    <3>4. \A k \in Keys : d.recipes[p.first].need[k] * p.times[1] + 0
                            = d.recipes[p.first].need[k] * p.times[1]
      BY <3>3
    <3>5. TotalNeed(p, d) = [k \in Keys |-> d.recipes[p.first].need[k] * p.times[1]]
      BY <2>1, <3>4 DEF TotalNeed
    <3> QED
      BY <2>1, <3>5, SameRows DEF Ledger!Need
  <2>2. CASE p.second # NoRecipe
    <3>1. TotalNeed(p, d) = [k \in Keys |-> d.recipes[p.first].need[k] * p.times[1]
                                              + d.recipes[p.second].need[k] * p.times[2]]
      BY <2>2 DEF TotalNeed
    <3> QED
      BY <2>2, <3>1, SameRows DEF Ledger!Need
  <2> QED
    BY <2>1, <2>2
<1>4. UNION {d.recipes[i].taste : i \in {p.first, p.second} \ {NoRecipe}} = TotalTaste(p, d)
  <2>1. p.first # NoRecipe
    BY <1>1 DEF Ids, NoRecipe
  <2>2. CASE p.second = NoRecipe
    <3>1. {p.first, p.second} \ {NoRecipe} = {p.first}
      BY <2>1, <2>2
    <3> QED
      BY <2>2, <3>1 DEF TotalTaste
  <2>3. CASE p.second # NoRecipe
    <3>1. {p.first, p.second} \ {NoRecipe} = {p.first, p.second}
      BY <2>1, <2>3
    <3> QED
      BY <2>3, <3>1 DEF TotalTaste
  <2> QED
    BY <2>2, <2>3
<1> QED
  BY <1>2, <1>3, <1>4

\* A generation that has inserted every line has done what the ledger says.
LEMMA ListedGrants ==
  ASSUME GrantInv, NEW r \in Requests, pc[r] = "looping", op[r].kind = "create_list",
         todo[r] = {}
  PROVE  Granted(r)
<1> DEFINE p     == op[r]
           e     == work[r]
           need  == TotalNeed(p, disk)
           taste == TotalTaste(p, disk)
           stock == disk.stock
           short == Shortfalls(need, stock)
           loose == {m \in taste : \A k \in short : k[1] # m}
<1>1. /\ Listed(r) /\ IsDb(disk) /\ ForeignKeys(disk) /\ UniqueKeys(disk.stock)
      /\ p \in OpType /\ IsTable(e.lines, GroceryLine)
  BY ListingOn
<1>2. /\ ~BadSelection(p, disk)
      /\ e.stock = disk.stock /\ e.recipes = disk.recipes /\ e.logs = disk.logs
      /\ DOMAIN disk.lines \subseteq DOMAIN e.lines
      /\ \A i \in DOMAIN disk.lines : e.lines[i] = disk.lines[i]
  BY <1>1 DEF Listed
<1>3. PICK l \in Ids : /\ Lists(r, l)
                       /\ e.lists = Put(disk.lists, l, [status |-> "active"])
                       /\ \A i \in DOMAIN e.lines \ DOMAIN disk.lines : e.lines[i].list = l
  BY <1>1 DEF Listed
<1>4. /\ ~Ledger!Missing(p, disk) /\ ~Ledger!Closed(p, disk)
  BY DEF Ledger!Missing, Ledger!Closed
<1>5. ~Ledger!Senseless(p, disk)
  <2>1. /\ p.first # p.second /\ ~p.stray
        /\ \A i \in {p.first, p.second} : i \in DOMAIN disk.recipes \cup {NoRecipe}
    BY <1>2 DEF BadSelection
  <2> QED
    BY <2>1, SameRows DEF Ledger!Senseless
<1>6. /\ Ledger!StockEffect(p, disk, e) /\ Ledger!RecipeEffect(p, disk, e)
      /\ Ledger!LogEffect(r, p, disk, e)
  <2>1. p.kind \notin StockKinds /\ p.kind \notin RecipeKinds
        /\ p.kind \notin {"cook", "delete_recipe"}
    BY DEF StockKinds, RecipeKinds
  <2> QED
    BY <1>1, <1>2, <2>1, StockUntouched, RecipesUntouched, LogsUntouched
<1>7. /\ Ledger!Need(p, disk) = need /\ need \in [Keys -> Nat] /\ taste \in SUBSET Names
      /\ UNION {disk.recipes[i].taste : i \in {p.first, p.second} \ {NoRecipe}} = taste
  BY <1>1, <1>2, SameNeed
<1> DEFINE new == LinesOf(e, l)
<1>8. /\ l \in DOMAIN e.lists \ DOMAIN disk.lists
      /\ \A i \in new : e.lines[i] \in Generated(r, l)
      /\ \A i, j \in new : e.lines[i] = e.lines[j] => i = j
      /\ \A line \in Generated(r, l) : \E i \in new : e.lines[i] = line
  BY <1>3 DEF Lists
<1>9. /\ DOMAIN e.lines = DOMAIN disk.lines \cup new
      /\ DOMAIN disk.lines \cap new = {}
  <2>1. \A i \in DOMAIN disk.lines : e.lines[i].list # l
    BY <1>1, <1>2, <1>8 DEF ForeignKeys
  <2> QED
    BY <1>2, <1>3, <2>1 DEF LinesOf
<1>10. Generated(r, l) = GeneratedLines(l, need, taste, stock)
  BY DEF Generated
<1>11. \A k : QtyOf(stock, k) \in Nat
  BY <1>1, StockAmounts
<1>12. Cardinality(new) = Cardinality(short) + Cardinality(loose)
  <2>1. IsFiniteSet(new)
    BY <1>1, FS_Subset DEF LinesOf, IsTable
  <2> DEFINE lines == e.lines
  <2>2. /\ \A i \in new : lines[i] \in GeneratedLines(l, need, taste, stock)
        /\ \A i, j \in new : lines[i] = lines[j] => i = j
        /\ \A line \in GeneratedLines(l, need, taste, stock) : \E i \in new : lines[i] = line
    BY <1>8, <1>10
  <2>3. need \in [Keys -> Nat] /\ taste \in SUBSET Names
    BY <1>7
  <2>4. AreGenerated(l, need, taste, stock, lines, new)
    BY <1>11, <2>1, <2>2, <2>3 DEF AreGenerated
  <2> HIDE DEF new, need, taste, stock, e, lines
  <2>5. SizesAdd(need, taste, stock, new)
    BY <2>4, GeneratedSize
  <2> QED
    BY <2>5 DEF SizesAdd
<1> DEFINE open(line) == ~line.checked /\ ~line.frozen /\ line.source = "generated"
<1>13. ASSUME NEW k \in short
       PROVE  \E i \in new :
                /\ open(e.lines[i])
                /\ <<e.lines[i].item, e.lines[i].unit>> = <<Author[k[1]], CanonUnit[k[2]]>>
                /\ e.lines[i].qty + QtyOf(stock, k) = need[k]
                /\ e.lines[i].nettable <=> ~Incompatible(stock, k)
  <2>1. PICK i \in new : e.lines[i] = ShortLine(l, need, stock, k)
    <3>1. ShortLine(l, need, stock, k) \in GeneratedLines(l, need, taste, stock)
      BY DEF GeneratedLines, ShortLine
    <3> QED
      BY <1>8, <1>10, <3>1
  <2>2. need[k] \in Nat /\ QtyOf(stock, k) \in Nat
    BY <1>7, <1>11 DEF Shortfalls
  <2>3. need[k] - QtyOf(stock, k) + QtyOf(stock, k) = need[k]
    BY <2>2
  <2> HIDE DEF need, stock
  <2>4. /\ open(ShortLine(l, need, stock, k))
        /\ ShortLine(l, need, stock, k).item = Author[k[1]]
        /\ ShortLine(l, need, stock, k).unit = CanonUnit[k[2]]
        /\ ShortLine(l, need, stock, k).qty = need[k] - QtyOf(stock, k)
        /\ ShortLine(l, need, stock, k).nettable = ~Incompatible(stock, k)
    BY DEF ShortLine, NewLine
  <2> QED
    BY <2>1, <2>3, <2>4
<1>14. ASSUME NEW n \in loose
       PROVE  \E i \in new : open(e.lines[i]) /\ e.lines[i].item = Author[n]
                             /\ e.lines[i].qty = NoQty
  <2>1. PICK i \in new : e.lines[i] = NewLine(l, Author[n], NoUnit, NoQty, "generated", FALSE)
    BY <1>8, <1>10 DEF GeneratedLines
  <2> QED
    BY <2>1 DEF NewLine
<1>15. /\ {k \in Ledger!Keys : Ledger!Need(p, disk)[k] > Ledger!QtyOf(disk.stock, k)} = short
       /\ taste \ {k[1] : k \in short} = loose
  <2>1. {k \in Keys : need[k] > QtyOf(stock, k)} = short
    BY DEF Shortfalls
  <2>2. {k \in Ledger!Keys : Ledger!Need(p, disk)[k] > Ledger!QtyOf(disk.stock, k)}
          = {k \in Keys : need[k] > QtyOf(stock, k)}
    BY <1>7, SameQty, SameRows
  <2>3. taste \ {k[1] : k \in short} = loose
    OBVIOUS
  <2> QED
    BY <2>1, <2>2, <2>3
<1> DEFINE SL == {k \in Ledger!Keys : Ledger!Need(p, disk)[k] > Ledger!QtyOf(disk.stock, k)}
           LL == (UNION {disk.recipes[i].taste : i \in {p.first, p.second} \ {Ledger!NoRecipe}})
                   \ {k[1] : k \in SL}
<1>16. Ledger!ListIsGenerated(p, disk, e)
  <2>1. /\ l \in DOMAIN e.lists \ DOMAIN disk.lists
        /\ e.lists = Ledger!Put(disk.lists, l, [status |-> "active"])
    BY <1>3, <1>8, SameRows
  <2>2. \A i \in DOMAIN disk.lines : e.lines[i] = disk.lines[i]
    BY <1>2
  <2>3. Ledger!LinesOf(e, l) = new
    BY SameRows
  <2>4. SL = short /\ LL = loose
    BY <1>7, <1>15, SameRows
  <2>5. Ledger!Cardinality(Ledger!LinesOf(e, l)) = Ledger!Cardinality(SL) + Ledger!Cardinality(LL)
    BY <1>12, <2>3, <2>4, SameSize
  <2>6. \A k \in SL : \E i \in Ledger!LinesOf(e, l) :
          /\ open(e.lines[i])
          /\ <<e.lines[i].item, e.lines[i].unit>> = <<Author[k[1]], CanonUnit[k[2]]>>
          /\ e.lines[i].qty + Ledger!QtyOf(disk.stock, k) = Ledger!Need(p, disk)[k]
          /\ e.lines[i].nettable <=> ~Ledger!Incompatible(disk.stock, k)
    <3>1. SUFFICES ASSUME NEW k \in SL
                   PROVE  \E i \in Ledger!LinesOf(e, l) :
                            /\ open(e.lines[i])
                            /\ <<e.lines[i].item, e.lines[i].unit>>
                                 = <<Author[k[1]], CanonUnit[k[2]]>>
                            /\ e.lines[i].qty + Ledger!QtyOf(disk.stock, k)
                                 = Ledger!Need(p, disk)[k]
                            /\ e.lines[i].nettable <=> ~Ledger!Incompatible(disk.stock, k)
      OBVIOUS
    <3>2. k \in short
      BY <2>4
    <3>3. PICK i \in new :
            /\ open(e.lines[i])
            /\ <<e.lines[i].item, e.lines[i].unit>> = <<Author[k[1]], CanonUnit[k[2]]>>
            /\ e.lines[i].qty + QtyOf(stock, k) = need[k]
            /\ e.lines[i].nettable <=> ~Incompatible(stock, k)
      BY <1>13, <3>2
    <3>4. /\ Ledger!QtyOf(disk.stock, k) = QtyOf(stock, k)
          /\ Ledger!Incompatible(disk.stock, k) <=> Incompatible(stock, k)
      BY SameQty, SameRows
    <3> HIDE DEF new, SL, need, stock, open
    <3> QED
      BY <1>7, <2>3, <3>3, <3>4
  <2>7. \A n \in LL : \E i \in Ledger!LinesOf(e, l) :
          open(e.lines[i]) /\ e.lines[i].item = Author[n] /\ e.lines[i].qty = NoQty
    BY <1>14, <2>3, <2>4
  <2>8. /\ DOMAIN e.lines = DOMAIN disk.lines \cup Ledger!LinesOf(e, l)
        /\ DOMAIN disk.lines \cap Ledger!LinesOf(e, l) = {}
    BY <1>9, <2>3
  <2> HIDE DEF new, short, loose, need, stock, taste, e, p
  <2> QED
    BY <2>1, <2>2, <2>5, <2>6, <2>7, <2>8 DEF Ledger!ListIsGenerated
<1>17. Ledger!GroceryEffect(p, disk, e)
  BY <1>16 DEF Ledger!GroceryEffect
<1> QED
  BY <1>4, <1>5, <1>6, <1>17 DEF Granted, Ledger!Effect

-----------------------------------------------------------------------------
(* Every step keeps what was handled grantable.                             *)

LEMMA LoopDoneGrants ==
  ASSUME GrantInv, NEW r \in Requests, LoopDone(r) PROVE TxGranted(r)'
<1>1. pc[r] = "looping" /\ todo[r] = {}
  BY DEF LoopDone
<1>2. op[r].kind \in {"create_list", "submit", "cook"}
  BY <1>1, GrantedOn DEF Inv, LoopsInBounds, LoopBounds
<1>3. Granted(r)
  BY <1>1, <1>2, SubmittedGrants, CookedGrants, ListedGrants
<1>4. /\ pc'[r] = "handled" /\ op' = op /\ disk' = disk /\ work' = work
      /\ op[r] # NoOp
  BY <1>1, GrantedOn DEF LoopDone, Inv, TypeOK, Active
<1>5. Granted(r)'
  BY <1>3, <1>4 DEF Granted
<1> QED
  BY <1>4, <1>5 DEF TxGranted

LEMMA HandlerGrants ==
  ASSUME GrantInv, NEW r \in Requests, Handler(r) PROVE TxGranted(r)'
<1>1. CASE Unauthenticated(r) \/ Read(r)
  BY <1>1, ReadersGrant
<1>2. CASE AddInventory(r) \/ UpdateInventory(r) \/ DeleteInventory(r)
  BY <1>2, AddInventoryGrants, UpdateInventoryGrants, DeleteInventoryGrants
<1>3. CASE CreateList(r) \/ InsertLine(r) \/ DeleteList(r)
  BY <1>3, CreateListGrants, InsertLineGrants, DeleteListGrants
<1>4. CASE AddLine(r) \/ UpdateLine(r) \/ DeleteLine(r)
  BY <1>4, AddLineGrants, UpdateLineGrants, DeleteLineGrants
<1>5. CASE Submit(r) \/ SubmitLine(r) \/ Archive(r)
  BY <1>5, SubmitGrants, SubmitLineGrants, ArchiveGrants
<1>6. CASE Cook(r) \/ CookRow(r)
  BY <1>6, CookGrants, CookRowGrants
<1>7. CASE CreateRecipe(r) \/ UpdateRecipe(r) \/ DeleteRecipe(r)
  BY <1>7, PutRecipeGrants, DeleteRecipeGrants
<1>8. CASE LoopDone(r)
  BY <1>8, LoopDoneGrants
<1> QED
  BY <1>1, <1>2, <1>3, <1>4, <1>5, <1>6, <1>7, <1>8 DEF Handler

\* What a request has depends on its own transaction and the committed database.
LEMMA UntouchedStays ==
  ASSUME NEW q \in Requests, TxGranted(q), pc'[q] = pc[q], op'[q] = op[q],
         work'[q] = work[q], todo'[q] = todo[q], disk' = disk
  PROVE  TxGranted(q)'
<1>1. Granted(q) => Granted(q)'
  BY DEF Granted
<1>2. Got(q)' = Got(q)
  BY DEF Got
<1>3. Submitted(q) => Submitted(q)'
  BY <1>2 DEF Submitted
<1>4. Cooked(q) => Cooked(q)'
  BY DEF Cooked
<1>5. \A l : Lists(q, l) => Lists(q, l)'
  BY DEF Lists, Generated
<1>6. Listed(q) => Listed(q)'
  BY <1>5 DEF Listed
<1> QED
  BY <1>1, <1>3, <1>4, <1>6 DEF TxGranted

LEMMA GrantNext == GrantInv /\ [Next]_vars => GrantInv'
<1> SUFFICES ASSUME GrantInv, [Next]_vars PROVE GrantInv'
  OBVIOUS
<1>1. ListInv'
  BY ListNext DEF GrantInv
<1>2. SUFFICES ASSUME NEW q \in Requests PROVE TxGranted(q)'
  BY <1>1 DEF GrantInv
<1>3. Inv /\ TypeOK /\ Exclusive /\ TxGranted(q)
  BY DEF GrantInv, ListInv, LineInv, LogInv, LinkInv, StockInv, TxInv, Inv
<1>4. CASE pc'[q] \in {"committed", "answered"}
  BY <1>4 DEF TxGranted, Active
<1>5. ASSUME NEW r \in Requests, Handler(r) PROVE TxGranted(q)'
  <2>1. CASE q = r
    BY <1>5, <2>1, HandlerGrants
  <2>2. CASE q # r
    BY <1>3, <1>5, <2>2, HandlerShape, UntouchedStays
  <2> QED
    BY <2>1, <2>2
<1>6. ASSUME NEW r \in Requests, Send(r) \/ Begin(r) PROVE TxGranted(q)'
  <2>1. CASE q # r
    <3>1. /\ pc'[q] = pc[q] /\ op'[q] = op[q] /\ work'[q] = work[q] /\ todo'[q] = todo[q]
          /\ disk' = disk
      BY <1>3, <1>6, <2>1 DEF Send, Begin, TypeOK
    <3> QED
      BY <1>3, <3>1, UntouchedStays
  <2>2. CASE q = r /\ Send(r)
    <3>1. pc'[r] = "waiting" /\ op'[r] \in Ops
      BY <1>3, <2>2 DEF Send, TypeOK
    <3> QED
      BY <2>2, <3>1, OpsAssumption DEF TxGranted, Active
  <2>3. CASE q = r /\ Begin(r)
    <3>1. pc[r] = "waiting" /\ pc'[r] = "open" /\ op' = op
      BY <1>3, <2>3 DEF Begin, TypeOK
    <3> QED
      BY <1>3, <2>3, <3>1 DEF TxGranted, Active
  <2> QED
    BY <1>6, <2>1, <2>2, <2>3
<1>7. ASSUME NEW r \in Requests, BusyTimeout(r) \/ CommitBusy(r) \/ Respond(r)
      PROVE  TxGranted(q)'
  <2>1. \/ pc'[q] \in {"committed", "answered"}
        \/ /\ pc'[q] = pc[q] /\ op'[q] = op[q] /\ work'[q] = work[q] /\ todo'[q] = todo[q]
           /\ disk' = disk
    BY <1>3, <1>7 DEF BusyTimeout, CommitBusy, Refuse, Respond, TypeOK
  <2> QED
    BY <1>3, <1>4, <2>1, UntouchedStays
<1>8. ASSUME NEW r \in Requests, Commit(r) PROVE TxGranted(q)'
  <2>1. /\ pc'[q] = (IF q = r THEN "committed" ELSE pc[q]) /\ op' = op
        /\ pc[r] = "handled"
    BY <1>3, <1>8 DEF Commit, TypeOK
  <2>2. q # r => pc[q] \notin Active
    BY <1>3, <2>1 DEF Exclusive, Active
  <2>3. pc'[q] \notin Active
    BY <2>1, <2>2 DEF Active
  <2> QED
    BY <1>3, <2>1, <2>2, <2>3 DEF TxGranted, Active
<1>9. CASE Crash
  <2>1. /\ op' = op
        /\ pc'[q] = IF pc[q] \notin {"idle", "answered"} THEN "answered" ELSE pc[q]
    BY <1>9 DEF Crash
  <2> QED
    BY <1>3, <2>1 DEF TxGranted, Active
<1>10. CASE BackupStart \/ BackupEnd \/ UNCHANGED vars
  <2>1. /\ pc'[q] = pc[q] /\ op'[q] = op[q] /\ work'[q] = work[q] /\ todo'[q] = todo[q]
        /\ disk' = disk
    BY <1>10 DEF BackupStart, BackupEnd, vars, txVars
  <2> QED
    BY <1>3, <2>1, UntouchedStays
<1> QED
  BY <1>5, <1>6, <1>7, <1>8, <1>9, <1>10 DEF Next, Serve

\* At every moment a request that was handled may be granted on the committed
\* database: what it has is what the ledger makes of that database, and nothing
\* another client does before the commit changes it.
THEOREM HandledIsGranted == Spec => []GrantInv
  BY GrantInit, GrantNext, PTL DEF Spec

-----------------------------------------------------------------------------
(* A refusal has its reason.                                                *)

Reason(r, status) ==
  \/ status \in {"401", "409"}
  \/ status = "404" /\ Ledger!Missing(op[r], disk)
  \/ status = "422" /\ ~Ledger!Missing(op[r], disk) /\ Ledger!Senseless(op[r], disk)

Refused(r) == \E status : Refuse(r, status) /\ Reason(r, status)

LEMMA StockRefusals ==
  ASSUME GrantInv, NEW r \in Requests, pc'[r] = "answered",
         AddInventory(r) \/ UpdateInventory(r) \/ DeleteInventory(r)
  PROVE  Refused(r)
<1> DEFINE p == op[r]
<1>1. /\ pc[r] = "open" /\ work[r] = disk /\ Inv
  BY GrantedOn DEF AddInventory, UpdateInventory, DeleteInventory, Running
<1>2. ~\E db, c : Handled(r, db, c)
  BY <1>1 DEF Handled, Inv, TypeOK
<1>3. CASE AddInventory(r)
  <2>1. p.kind = "add_inventory"
    BY <1>3 DEF AddInventory, Running
  <2>2. \/ Norm[p.match] = Blank /\ Refuse(r, "422")
        \/ Refuse(r, "409")
    BY <1>2, <1>3 DEF AddInventory, AddKey
  <2>3. ~Ledger!Missing(p, disk)
    BY <2>1 DEF Ledger!Missing
  <2>4. Norm[p.match] = Blank => Ledger!Senseless(p, disk)
    BY <2>1 DEF Ledger!Senseless
  <2> QED
    BY <2>2, <2>3, <2>4 DEF Refused, Reason
<1>4. CASE UpdateInventory(r)
  <2>1. p.kind = "update_inventory"
    BY <1>4 DEF UpdateInventory, Running
  <2>2. \/ p.id \notin DOMAIN disk.stock /\ Refuse(r, "404")
        \/ /\ p.id \in DOMAIN disk.stock /\ PatchInvalid(p, disk.stock[p.id])
           /\ Refuse(r, "422")
        \/ Refuse(r, "409")
    BY <1>1, <1>2, <1>4 DEF UpdateInventory
  <2>3. Ledger!Missing(p, disk) <=> p.id \notin DOMAIN disk.stock
    BY <2>1 DEF Ledger!Missing
  <2>4. PatchInvalid(p, disk.stock[p.id]) => Ledger!Senseless(p, disk)
    <3>1. ("quantity" \in p.fields /\ "unit" \notin p.fields)
            => p.fields \cap {"quantity", "unit"} = {"quantity"}
      OBVIOUS
    <3> QED
      BY <2>1, <3>1 DEF PatchInvalid, Ledger!Senseless
  <2> QED
    BY <2>2, <2>3, <2>4 DEF Refused, Reason
<1>5. CASE DeleteInventory(r)
  <2>1. p.kind = "delete_inventory"
    BY <1>5 DEF DeleteInventory, Running
  <2>2. p.id \notin DOMAIN disk.stock /\ Refuse(r, "404")
    BY <1>1, <1>2, <1>5 DEF DeleteInventory
  <2> QED
    BY <2>1, <2>2 DEF Refused, Reason, Ledger!Missing
<1> QED
  BY <1>3, <1>4, <1>5

LEMMA LineRefusals ==
  ASSUME GrantInv, NEW r \in Requests, pc'[r] = "answered",
         AddLine(r) \/ UpdateLine(r) \/ DeleteLine(r)
  PROVE  Refused(r)
<1> DEFINE p == op[r]
<1>1. /\ pc[r] = "open" /\ work[r] = disk /\ Inv /\ ForeignKeys(disk)
  BY GrantedOn DEF AddLine, UpdateLine, DeleteLine, Running
<1>2. ~\E db, c : Handled(r, db, c)
  BY <1>1 DEF Handled, Inv, TypeOK
<1>3. CASE AddLine(r)
  <2>1. p.kind = "add_line"
    BY <1>3 DEF AddLine, Running
  <2>2. \/ p.list \notin DOMAIN disk.lists /\ Refuse(r, "404")
        \/ Refuse(r, "409")
    BY <1>1, <1>2, <1>3 DEF AddLine
  <2> QED
    BY <2>1, <2>2 DEF Refused, Reason, Ledger!Missing
<1>4. LineMissing(disk, p.list, p.id) <=> p.id \notin LinesOf(disk, p.list)
  BY <1>1 DEF LineMissing, LinesOf, ForeignKeys
<1>5. CASE UpdateLine(r)
  <2>1. p.kind = "update_line"
    BY <1>5 DEF UpdateLine, Running
  <2>2. \/ LineMissing(disk, p.list, p.id) /\ Refuse(r, "404")
        \/ ~LineMissing(disk, p.list, p.id) /\ EditInvalid(p) /\ Refuse(r, "422")
        \/ Refuse(r, "409")
    BY <1>1, <1>2, <1>5 DEF UpdateLine
  <2>3. Ledger!Missing(p, disk) <=> LineMissing(disk, p.list, p.id)
    BY <1>4, <2>1, SameRows DEF Ledger!Missing
  <2>4. EditInvalid(p) => Ledger!Senseless(p, disk)
    BY <2>1, OneOfTwo, SameSize DEF EditInvalid, Ledger!Senseless
  <2> QED
    BY <2>2, <2>3, <2>4 DEF Refused, Reason
<1>6. CASE DeleteLine(r)
  <2>1. p.kind = "delete_line"
    BY <1>6 DEF DeleteLine, Running
  <2>2. \/ LineMissing(disk, p.list, p.id) /\ Refuse(r, "404")
        \/ Refuse(r, "409")
    BY <1>1, <1>2, <1>6 DEF DeleteLine
  <2>3. LineMissing(disk, p.list, p.id) => Ledger!Missing(p, disk)
    BY <1>4, <2>1, SameRows DEF Ledger!Missing
  <2> QED
    BY <2>2, <2>3 DEF Refused, Reason
<1> QED
  BY <1>3, <1>5, <1>6

LEMMA ListRefusals ==
  ASSUME GrantInv, NEW r \in Requests, pc'[r] = "answered",
         \/ CreateList(r) \/ InsertLine(r) \/ DeleteList(r)
         \/ Submit(r) \/ SubmitLine(r) \/ Archive(r)
  PROVE  Refused(r)
<1> DEFINE p == op[r]
<1>1. /\ Inv /\ (pc[r] = "open" => work[r] = disk)
  BY GrantedOn
<1>2. /\ ~\E db, c : Handled(r, db, c)
      /\ ~\E db, rest : Looping(r, db, rest)
  BY <1>1 DEF Handled, Looping, Inv, TypeOK
<1>3. CASE CreateList(r)
  <2>1. p.kind = "create_list" /\ work[r] = disk
    BY <1>1, <1>3 DEF CreateList, Running
  <2>2. BadSelection(p, disk) /\ Refuse(r, "422")
    BY <1>2, <1>3, <2>1 DEF CreateList
  <2>3. ~Ledger!Missing(p, disk)
    BY <2>1 DEF Ledger!Missing
  <2>4. Ledger!Senseless(p, disk)
    BY <2>1, <2>2, SameRows DEF BadSelection, Ledger!Senseless
  <2> QED
    BY <2>2, <2>3, <2>4 DEF Refused, Reason
<1>4. CASE DeleteList(r)
  <2>1. p.kind = "delete_list" /\ work[r] = disk
    BY <1>1, <1>4 DEF DeleteList, Running
  <2>2. p.list \notin DOMAIN disk.lists /\ Refuse(r, "404")
    BY <1>2, <1>4, <2>1 DEF DeleteList
  <2> QED
    BY <2>1, <2>2 DEF Refused, Reason, Ledger!Missing
<1>5. CASE Submit(r) \/ Archive(r)
  <2>1. p.kind \in {"submit", "archive"} /\ work[r] = disk
    BY <1>1, <1>5 DEF Submit, Archive, Running
  <2>2. \/ p.list \notin DOMAIN disk.lists /\ Refuse(r, "404")
        \/ Refuse(r, "409")
    BY <1>2, <1>5, <2>1 DEF Submit, Archive
  <2> QED
    BY <2>1, <2>2 DEF Refused, Reason, Ledger!Missing
<1>6. ~InsertLine(r)
  BY <1>2 DEF InsertLine
<1>7. CASE SubmitLine(r)
  <2>1. pc'[r] = pc[r] => pc[r] # "looping"
    OBVIOUS
  <2>2. Refuse(r, "409")
    BY <1>2, <1>7, <2>1 DEF SubmitLine, InLoop, LineOverflows
  <2> QED
    BY <2>2 DEF Refused, Reason
<1> QED
  BY <1>3, <1>4, <1>5, <1>6, <1>7

LEMMA RecipeRefusals ==
  ASSUME GrantInv, NEW r \in Requests, pc'[r] = "answered",
         Cook(r) \/ CookRow(r) \/ CreateRecipe(r) \/ UpdateRecipe(r) \/ DeleteRecipe(r)
  PROVE  Refused(r)
<1> DEFINE p == op[r]
<1>1. /\ Inv /\ (pc[r] = "open" => work[r] = disk)
  BY GrantedOn
<1>2. /\ ~\E db, c : Handled(r, db, c)
      /\ ~\E db, rest : Looping(r, db, rest)
  BY <1>1 DEF Handled, Looping, Inv, TypeOK
<1>3. CASE Cook(r)
  <2>1. p.kind = "cook" /\ work[r] = disk
    BY <1>1, <1>3 DEF Cook, Running
  <2>2. p.recipe \notin DOMAIN disk.recipes /\ Refuse(r, "404")
    BY <1>2, <1>3, <2>1 DEF Cook
  <2> QED
    BY <2>1, <2>2 DEF Refused, Reason, Ledger!Missing
<1>4. ~CookRow(r)
  BY DEF CookRow, InLoop
<1>5. CASE CreateRecipe(r)
  <2>1. p.kind = "create_recipe" /\ work[r] = disk
    BY <1>1, <1>5 DEF CreateRecipe, Running
  <2>2. p.bad /\ Refuse(r, "422")
    BY <1>2, <1>5, <2>1 DEF CreateRecipe
  <2>3. ~Ledger!Missing(p, disk) /\ Ledger!Senseless(p, disk)
    BY <2>1, <2>2 DEF Ledger!Missing, Ledger!Senseless
  <2> QED
    BY <2>2, <2>3 DEF Refused, Reason
<1>6. CASE UpdateRecipe(r)
  <2>1. p.kind = "update_recipe" /\ work[r] = disk
    BY <1>1, <1>6 DEF UpdateRecipe, Running
  <2>2. \/ p.id \notin DOMAIN disk.recipes /\ Refuse(r, "404")
        \/ p.id \in DOMAIN disk.recipes /\ p.bad /\ Refuse(r, "422")
    BY <1>2, <1>6, <2>1 DEF UpdateRecipe
  <2>3. Ledger!Missing(p, disk) <=> p.id \notin DOMAIN disk.recipes
    BY <2>1 DEF Ledger!Missing
  <2>4. p.bad => Ledger!Senseless(p, disk)
    BY <2>1 DEF Ledger!Senseless
  <2> QED
    BY <2>2, <2>3, <2>4 DEF Refused, Reason
<1>7. CASE DeleteRecipe(r)
  <2>1. p.kind = "delete_recipe" /\ work[r] = disk
    BY <1>1, <1>7 DEF DeleteRecipe, Running
  <2>2. p.id \notin DOMAIN disk.recipes /\ Refuse(r, "404")
    BY <1>2, <1>7, <2>1 DEF DeleteRecipe
  <2> QED
    BY <2>1, <2>2 DEF Refused, Reason, Ledger!Missing
<1> QED
  BY <1>3, <1>4, <1>5, <1>6, <1>7

LEMMA RefusalsHaveReasons ==
  ASSUME GrantInv, NEW r \in Requests, Handler(r), pc'[r] = "answered"
  PROVE  Refused(r)
<1>1. Inv
  BY GrantedOn
<1>2. CASE Unauthenticated(r) \/ Read(r)
  <2>1. ~Read(r)
    BY <1>1 DEF Read, Handled, Inv, TypeOK
  <2> QED
    BY <1>2, <2>1 DEF Unauthenticated, Refused, Reason
<1>3. ~LoopDone(r)
  BY <1>1 DEF LoopDone, Inv, TypeOK
<1> QED
  BY <1>2, <1>3, StockRefusals, LineRefusals, ListRefusals, RecipeRefusals DEF Handler

-----------------------------------------------------------------------------
(* Every step of the server is one of the ledger, or none that anyone sees. *)

Verdict(r) == IF r \in committed THEN "done"
              ELSE IF answer[r] = "none" THEN "pending" ELSE answer[r]

LEMMA VerdictIs ==
  /\ verdictOf = [r \in Requests |-> Verdict(r)]
  /\ verdictOf' = [r \in Requests |-> Verdict(r)']
  BY DEF verdictOf, Verdict

\* Nobody has heard of a request that is under way.
LEMMA UnderWay ==
  ASSUME GrantInv, NEW r \in Requests, pc[r] \in {"idle", "waiting"} \cup Active
  PROVE  /\ r \notin committed /\ answer[r] = "none" /\ verdictOf[r] = "pending"
         /\ pc[r] # "idle" => Ledger!Pending(r)
<1>1. Told /\ TxGranted(r)
  BY DEF GrantInv, ListInv, LineInv, LogInv, LinkInv, StockInv, TxInv
<1>2. r \notin committed /\ answer[r] = "none"
  BY <1>1 DEF Told, Active
<1>3. verdictOf[r] = "pending"
  BY <1>2 DEF verdictOf
<1>4. pc[r] # "idle" => op[r] # Ledger!Unasked
  BY <1>1 DEF TxGranted, Ledger!Unasked, NoOp
<1> QED
  BY <1>2, <1>3, <1>4 DEF Ledger!Pending

\* A step that changes nothing a client or the database sees.
LEMMA Unseen ==
  ASSUME disk' = disk, op' = op, \A q \in Requests : Verdict(q)' = Verdict(q)
  PROVE  UNCHANGED Ledger!vars
<1>1. verdictOf' = verdictOf
  BY VerdictIs
<1> QED
  BY <1>1 DEF Ledger!vars

\* A step that settles one request.
LEMMA Settles ==
  ASSUME NEW r \in Requests, NEW v, op' = op, Verdict(r)' = v,
         \A q \in Requests \ {r} : Verdict(q)' = Verdict(q)
  PROVE  Ledger!Settle(r, v)
<1>1. verdictOf' = [verdictOf EXCEPT ![r] = v]
  BY VerdictIs
<1> QED
  BY <1>1 DEF Ledger!Settle

LEMMA SendAsks ==
  ASSUME GrantInv, NEW r \in Requests, Send(r) PROVE Ledger!Ask(r)
<1>1. pc[r] = "idle" /\ disk' = disk /\ committed' = committed /\ answer' = answer
  BY DEF Send, histVars
<1>2. op[r] = Ledger!Unasked /\ verdictOf[r] = "pending"
  BY <1>1, UnderWay DEF GrantInv, TxGranted, NoOp, Ledger!Unasked
<1>3. verdictOf' = verdictOf
  BY <1>1 DEF verdictOf
<1>4. \E p \in Ops : op' = [op EXCEPT ![r] = p]
  BY DEF Send
<1> QED
  BY <1>1, <1>2, <1>3, <1>4 DEF Ledger!Ask

LEMMA RefuseRefuses ==
  ASSUME GrantInv, NEW r \in Requests, pc[r] \in {"waiting"} \cup Active,
         NEW status \in Refusals, Reason(r, status),
         disk' = disk, op' = op, committed' = committed,
         answer' = [answer EXCEPT ![r] = status]
  PROVE  Ledger!Refuse(r)
<1>1. r \notin committed /\ Ledger!Pending(r)
  BY UnderWay DEF Active
<1>2. status # "none" /\ answer \in [Requests -> {"none", "ok", "lost"} \cup Refusals]
  BY GrantedOn DEF Refusals, Inv, TypeOK
<1>3. /\ Verdict(r)' = status
      /\ \A q \in Requests \ {r} : Verdict(q)' = Verdict(q)
  BY <1>1, <1>2 DEF Verdict
<1>4. Ledger!Settle(r, status)
  BY <1>3, Settles
<1> QED
  BY <1>1, <1>4 DEF Ledger!Refuse, Reason

LEMMA HandlerMaps ==
  ASSUME GrantInv, NEW r \in Requests, Handler(r)
  PROVE  Ledger!Refuse(r) \/ UNCHANGED Ledger!vars
<1>1. Inv
  BY GrantedOn
<1>2. /\ pc[r] \in Active /\ disk' = disk /\ op' = op /\ committed' = committed
  BY <1>1, HandlerShape DEF Active, histVars
<1>3. CASE pc'[r] = "answered"
  <2>1. PICK status : Refuse(r, status) /\ Reason(r, status)
    BY <1>3, RefusalsHaveReasons DEF Refused
  <2>2. status \in Refusals /\ answer' = [answer EXCEPT ![r] = status]
    BY <2>1 DEF Reason, Refusals, Refuse
  <2> QED
    BY <1>2, <2>1, <2>2, RefuseRefuses
<1>4. CASE pc'[r] # "answered"
  <2>1. ~\E status : Refuse(r, status)
    BY <1>1, <1>4 DEF Refuse, Inv, TypeOK
  <2>2. answer' = answer
    BY <1>1, <2>1, HandlerShape
  <2> QED
    BY <1>2, <2>2, Unseen DEF Verdict
<1> QED
  BY <1>3, <1>4

LEMMA CommitTakesEffect ==
  ASSUME GrantInv, NEW r \in Requests, Commit(r) PROVE Ledger!TakeEffect(r)
<1>1. /\ pc[r] = "handled" /\ disk' = work[r] /\ op' = op /\ answer' = answer
      /\ committed' = committed \cup {r}
  BY DEF Commit
<1>2. Ledger!Pending(r)
  BY <1>1, UnderWay DEF Active
<1>3. Granted(r)
  BY <1>1 DEF GrantInv, TxGranted
<1>4. Ledger!Settle(r, "done")
  BY <1>1, Settles DEF Verdict
<1> QED
  BY <1>1, <1>2, <1>3, <1>4 DEF Granted, Ledger!TakeEffect

LEMMA CrashLoses ==
  ASSUME GrantInv, Crash PROVE Ledger!LoseSome
<1> DEFINE S == {q \in Requests : pc[q] \in {"waiting"} \cup Active}
<1>1. /\ disk' = disk /\ op' = op /\ committed' = committed
      /\ answer' = [q \in Requests |-> IF pc[q] \notin {"idle", "answered"} THEN "lost"
                                       ELSE answer[q]]
  BY DEF Crash, histVars
<1>2. Told /\ TypeOK
  BY DEF GrantInv, ListInv, LineInv, LogInv, LinkInv, StockInv, TxInv, Inv
<1>3. \A q \in S : q \notin committed /\ Ledger!Pending(q)
  BY UnderWay DEF Active
<1>4. \A q \in Requests : Verdict(q)' = IF q \in S THEN "lost" ELSE verdictOf[q]
  <2>1. SUFFICES ASSUME NEW q \in Requests
                 PROVE  Verdict(q)' = IF q \in S THEN "lost" ELSE verdictOf[q]
    OBVIOUS
  <2>2. verdictOf[q] = Verdict(q)
    BY VerdictIs
  <2>3. CASE q \in S
    BY <1>1, <1>3, <2>3 DEF Verdict, Active
  <2>4. CASE pc[q] = "committed"
    BY <1>1, <1>2, <2>2, <2>4 DEF Verdict, Told, Active
  <2>5. CASE pc[q] \in {"idle", "answered"}
    BY <1>1, <2>2, <2>5 DEF Verdict, Active
  <2> QED
    BY <1>2, <2>3, <2>4, <2>5 DEF TypeOK, Active
<1>5. verdictOf' = [q \in Requests |-> IF q \in S THEN "lost" ELSE verdictOf[q]]
  BY <1>4, VerdictIs
<1>6. S \in SUBSET {q \in Requests : Ledger!Pending(q)}
  BY <1>3
<1> QED
  BY <1>1, <1>5, <1>6 DEF Ledger!LoseSome

LEMMA InitMaps == Init => Ledger!Init
  BY DEF Init, Ledger!Init, Ledger!Unasked, NoOp, verdictOf

LEMMA StepMaps == GrantInv /\ [Next]_vars => [Ledger!Next]_(Ledger!vars)
<1> SUFFICES ASSUME GrantInv, [Next]_vars PROVE Ledger!Next \/ UNCHANGED Ledger!vars
  OBVIOUS
<1>1. Inv
  BY DEF GrantInv, ListInv, LineInv, LogInv, LinkInv, StockInv, TxInv
<1>2. ASSUME NEW r \in Requests, Send(r) PROVE Ledger!Next
  BY <1>2, SendAsks DEF Ledger!Next
<1>3. ASSUME NEW r \in Requests, Handler(r) PROVE Ledger!Next \/ UNCHANGED Ledger!vars
  BY <1>3, HandlerMaps DEF Ledger!Next
<1>4. ASSUME NEW r \in Requests, Commit(r) PROVE Ledger!Next
  BY <1>4, CommitTakesEffect DEF Ledger!Next
<1>5. ASSUME NEW r \in Requests, BusyTimeout(r) \/ CommitBusy(r) PROVE Ledger!Next
  <2>1. /\ pc[r] \in {"waiting"} \cup Active
        /\ disk' = disk /\ op' = op /\ committed' = committed
        /\ answer' = [answer EXCEPT ![r] = "409"]
    BY <1>5 DEF BusyTimeout, CommitBusy, Refuse, Active, histVars
  <2>2. "409" \in Refusals /\ Reason(r, "409")
    BY DEF Refusals, Reason
  <2> QED
    BY <2>1, <2>2, RefuseRefuses DEF Ledger!Next
<1>6. ASSUME NEW r \in Requests, Begin(r) PROVE UNCHANGED Ledger!vars
  BY <1>6, Unseen DEF Begin, histVars, Verdict
<1>7. ASSUME NEW r \in Requests, Respond(r) PROVE UNCHANGED Ledger!vars
  <2>1. /\ pc[r] = "committed" /\ disk' = disk /\ op' = op /\ committed' = committed
        /\ \A q \in Requests \ {r} : answer'[q] = answer[q]
    BY <1>1, <1>7 DEF Respond, histVars, Inv, TypeOK
  <2>2. r \in committed
    BY <2>1 DEF GrantInv, ListInv, LineInv, LogInv, LinkInv, StockInv, TxInv, Told
  <2> QED
    BY <2>1, <2>2, Unseen DEF Verdict
<1>8. CASE Crash
  BY <1>8, CrashLoses DEF Ledger!Next
<1>9. CASE BackupStart \/ BackupEnd \/ UNCHANGED vars
  BY <1>9, Unseen DEF BackupStart, BackupEnd, vars, txVars, histVars, Verdict
<1> QED
  BY <1>2, <1>3, <1>4, <1>5, <1>6, <1>7, <1>8, <1>9 DEF Next, Serve

\* What clients see of the server is the ledger: every request takes effect as a
\* whole at the moment its transaction commits, or not at all, and a refusal has its
\* reason, whatever runs at the same time and whenever the process dies.
THEOREM Refines == Spec => ImplementsLedger
  BY InitMaps, StepMaps, GrantInit, GrantNext, PTL DEF Spec, ImplementsLedger, Ledger!Spec
=============================================================================

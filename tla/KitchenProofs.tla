---------------------------- MODULE KitchenProofs ----------------------------
(* What the server keeps, whatever its constants, requests, refusals, backups  *)
(* and crashes.  In this order: facts about the tables of KitchenDb; the type  *)
(* invariant, and with it the CHECK constraint on the stock (TypeCorrect);     *)
(* answers that are true and updates that are not lost (AnswersTold,           *)
(* NothingLost); the other constraints of the schema (ConstraintsHold); cook   *)
(* logs that stay and are honest (HistoryKept, LogsToldTrue); grocery lists    *)
(* that are bought once, closed for good and exact when generated (BoughtOnce, *)
(* ClosedKept, GeneratedCovers).                                               *)
EXTENDS Kitchen, FiniteSetTheorems, WellFoundedInduction, TLAPS

-----------------------------------------------------------------------------
(* Greatest and least elements.                                             *)

\* A finite nonempty set of naturals has a greatest and a least element: a
\* smallest counterexample, without one of its elements, would be a smaller one.
LEMMA ExtremaExist ==
  ASSUME NEW S \in SUBSET Nat, IsFiniteSet(S), S # {}
  PROVE  /\ \E m \in S : \A x \in S : m >= x
         /\ \E m \in S : \A x \in S : m =< x
<1> DEFINE Good(T) == /\ \E m \in T : \A x \in T : m >= x
                      /\ \E m \in T : \A x \in T : m =< x
           Bad == {T \in FiniteSubsetsOf(S) : T # {} /\ ~Good(T)}
<1>1. SUFFICES ASSUME Bad # {} PROVE FALSE
  <2>1. S \in FiniteSubsetsOf(S)
    BY DEF FiniteSubsetsOf
  <2> QED
    BY <2>1
<1>2. PICK T \in Bad : \A U \in Bad : <<U, T>> \notin StrictSubsetOrdering(S)
  <2>1. IsWellFoundedOn(StrictSubsetOrdering(S), FiniteSubsetsOf(S))
    BY FS_StrictSubsetOrderingWellFounded
  <2>2. Bad \subseteq FiniteSubsetsOf(S)
    OBVIOUS
  <2> HIDE DEF Bad
  <2> QED
    BY <1>1, <2>1, <2>2, WFMin
<1>3. T \in SUBSET Nat /\ IsFiniteSet(T) /\ T # {} /\ T \in SUBSET S /\ ~Good(T)
  BY DEF FiniteSubsetsOf
<1>4. PICK a \in T : TRUE
  BY <1>3
<1>5. T \ {a} # {}
  <2>1. SUFFICES ASSUME T \ {a} = {} PROVE FALSE
    OBVIOUS
  <2>2. T = {a}
    BY <1>4, <2>1
  <2> QED
    BY <1>3, <2>2
<1>6. T \ {a} \in FiniteSubsetsOf(S)
  BY <1>3, FS_RemoveElement DEF FiniteSubsetsOf
<1>7. <<T \ {a}, T>> \in StrictSubsetOrdering(S)
  BY <1>3, <1>4 DEF StrictSubsetOrdering
<1>8. Good(T \ {a})
  BY <1>2, <1>5, <1>6, <1>7
<1>9. PICK hi \in T \ {a} : \A x \in T \ {a} : hi >= x
  BY <1>8
<1>10. PICK lo \in T \ {a} : \A x \in T \ {a} : lo =< x
  BY <1>8
<1>11. a \in Nat /\ hi \in Nat /\ lo \in Nat
  BY <1>3, <1>4
<1>12. \E m \in T : \A x \in T : m >= x
  <2>1. CASE a >= hi
    <3>1. \A x \in T : a >= x
      BY <1>3, <1>9, <1>11, <2>1
    <3> QED
      BY <3>1
  <2>2. CASE ~(a >= hi)
    <3>1. \A x \in T : hi >= x
      BY <1>3, <1>9, <1>11, <2>2
    <3> QED
      BY <3>1
  <2> QED
    BY <2>1, <2>2
<1>13. \E m \in T : \A x \in T : m =< x
  <2>1. CASE a =< lo
    <3>1. \A x \in T : a =< x
      BY <1>3, <1>10, <1>11, <2>1
    <3> QED
      BY <3>1
  <2>2. CASE ~(a =< lo)
    <3>1. \A x \in T : lo =< x
      BY <1>3, <1>10, <1>11, <2>2
    <3> QED
      BY <3>1
  <2> QED
    BY <2>1, <2>2
<1> QED
  BY <1>3, <1>12, <1>13

LEMMA MaxIsGreatest ==
  ASSUME NEW S \in SUBSET Nat, IsFiniteSet(S), S # {}
  PROVE  Max(S) \in S /\ \A x \in S : Max(S) >= x
<1>1. \E m \in S : \A x \in S : m >= x
  BY ExtremaExist
<1> QED
  BY <1>1 DEF Max

LEMMA MinIsElement ==
  ASSUME NEW S \in SUBSET Nat, IsFiniteSet(S), S # {}
  PROVE  Min(S) \in S
<1>1. \E m \in S : \A x \in S : m =< x
  BY ExtremaExist
<1> QED
  BY <1>1 DEF Min

\* The id of an INSERT is an id no row of the table has.
THEOREM NextIdIsFresh ==
  ASSUME NEW Row, NEW t, IsTable(t, Row)
  PROVE  NextId(t) \in Ids /\ NextId(t) \notin DOMAIN t
<1>1. CASE DOMAIN t = {}
  BY <1>1 DEF NextId, Ids
<1>2. CASE DOMAIN t # {}
  <2>1. DOMAIN t \in SUBSET Nat /\ IsFiniteSet(DOMAIN t)
    BY DEF IsTable, Ids
  <2>2. Max(DOMAIN t) \in DOMAIN t /\ \A x \in DOMAIN t : Max(DOMAIN t) >= x
    BY <1>2, <2>1, MaxIsGreatest
  <2>3. NextId(t) = Max(DOMAIN t) + 1
    BY <1>2 DEF NextId
  <2>4. Max(DOMAIN t) \in Nat
    BY <2>1, <2>2
  <2>5. NextId(t) \in Ids
    BY <2>3, <2>4 DEF Ids
  <2>6. SUFFICES ASSUME NextId(t) \in DOMAIN t PROVE FALSE
    BY <2>5
  <2>7. Max(DOMAIN t) >= Max(DOMAIN t) + 1
    BY <2>2, <2>3, <2>6
  <2> QED
    BY <2>4, <2>7
<1> QED
  BY <1>1, <1>2

-----------------------------------------------------------------------------
(* Statements keep tables tables.                                           *)

LEMMA PutTable ==
  ASSUME NEW Row, NEW t, IsTable(t, Row), NEW i \in Ids, NEW row \in Row
  PROVE  IsTable(Put(t, i, row), Row) /\ DOMAIN Put(t, i, row) = DOMAIN t \cup {i}
<1>1. DOMAIN Put(t, i, row) = DOMAIN t \cup {i}
  BY DEF Put
<1>2. IsFiniteSet(DOMAIN t \cup {i})
  BY FS_AddElement DEF IsTable
<1>3. Put(t, i, row) \in [DOMAIN t \cup {i} -> Row]
  BY DEF Put, IsTable
<1> QED
  BY <1>1, <1>2, <1>3 DEF IsTable

LEMMA DropTable ==
  ASSUME NEW Row, NEW t, IsTable(t, Row), NEW S
  PROVE  IsTable(Drop(t, S), Row) /\ DOMAIN Drop(t, S) = DOMAIN t \ S
<1>1. DOMAIN Drop(t, S) = DOMAIN t \ S
  BY DEF Drop, Restrict
<1>2. IsFiniteSet(DOMAIN t \ S)
  BY FS_Subset DEF IsTable
<1>3. Drop(t, S) \in [DOMAIN t \ S -> Row]
  BY DEF Drop, Restrict, IsTable
<1> QED
  BY <1>1, <1>2, <1>3 DEF IsTable

LEMMA EmptyDbIsDb == IsDb(EmptyDb)
<1>1. IsTable(NoRows, StockRow) /\ IsTable(NoRows, GroceryList)
      /\ IsTable(NoRows, GroceryLine) /\ IsTable(NoRows, Recipe)
  BY FS_EmptySet DEF IsTable, NoRows
<1>2. DOMAIN NoRows = {}
  BY DEF NoRows
<1> QED
  BY <1>1, <1>2 DEF IsDb, EmptyDb

\* One table of a database replaced by another of the same kind.
LEMMA StockReplaced ==
  ASSUME NEW db, IsDb(db), NEW stock, IsTable(stock, StockRow),
         \A i \in DOMAIN stock : stock[i].qty <= MaxBase
  PROVE  IsDb([db EXCEPT !.stock = stock])
  BY DEF IsDb

LEMMA LinesReplaced ==
  ASSUME NEW db, IsDb(db), NEW lines, IsTable(lines, GroceryLine)
  PROVE  IsDb([db EXCEPT !.lines = lines])
  BY DEF IsDb

LEMMA ListsReplaced ==
  ASSUME NEW db, IsDb(db), NEW lists, IsTable(lists, GroceryList)
  PROVE  IsDb([db EXCEPT !.lists = lists])
  BY DEF IsDb

LEMMA RecipesReplaced ==
  ASSUME NEW db, IsDb(db), NEW recipes, IsTable(recipes, Recipe)
  PROVE  IsDb([db EXCEPT !.recipes = recipes])
  BY DEF IsDb

LEMMA LogsReplaced ==
  ASSUME NEW db, IsDb(db), NEW logs, DOMAIN logs \subseteq Requests,
         \A r \in DOMAIN logs : IsLog(logs[r])
  PROVE  IsDb([db EXCEPT !.logs = logs])
  BY DEF IsDb

-----------------------------------------------------------------------------
(* Keys and amounts.                                                        *)

LEMMA AddKeyType ==
  ASSUME NEW item \in Items, NEW unit \in Units
  PROVE  Norm[item] \in Names /\ Norm[item] \in Items /\ AddKey(item, unit) \in Keys
  BY TextAssumption, UnitAssumption DEF AddKey, Keys, Names, Buckets, Range

LEMMA AddBaseType ==
  ASSUME NEW amount \in Nat, NEW unit \in Units
  PROVE  AddBase(amount, unit) \in Nat
<1>1. Scale[unit] \in Nat
  BY UnitAssumption
<1> QED
  BY <1>1 DEF AddBase

LEMMA IdOfType ==
  ASSUME NEW stock, NEW k, HasKey(stock, k)
  PROVE  IdOf(stock, k) \in DOMAIN stock /\ KeyOf(stock[IdOf(stock, k)]) = k
  BY DEF HasKey, IdOf

LEMMA QtyOfType ==
  ASSUME NEW stock, IsTable(stock, StockRow), NEW k,
         \A i \in DOMAIN stock : stock[i].qty <= MaxBase
  PROVE  QtyOf(stock, k) \in Nat /\ QtyOf(stock, k) <= MaxBase
<1>1. CASE HasKey(stock, k)
  <2>1. IdOf(stock, k) \in DOMAIN stock
    BY <1>1, IdOfType
  <2>2. stock[IdOf(stock, k)] \in StockRow
    BY <2>1 DEF IsTable
  <2> QED
    BY <1>1, <2>1, <2>2 DEF QtyOf, StockRow
<1>2. CASE ~HasKey(stock, k)
  BY <1>2, AmountAssumption DEF QtyOf
<1> QED
  BY <1>1, <1>2

LEMMA UpsertType ==
  ASSUME NEW stock, IsTable(stock, StockRow),
         \A i \in DOMAIN stock : stock[i].qty <= MaxBase,
         NEW k \in Keys, NEW add \in Nat, Storable(QtyOf(stock, k) + add)
  PROVE  /\ UpsertId(stock, k) \in Ids
         /\ IsTable(Upsert(stock, k, add), StockRow)
         /\ DOMAIN Upsert(stock, k, add) = DOMAIN stock \cup {UpsertId(stock, k)}
         /\ \A i \in DOMAIN Upsert(stock, k, add) : Upsert(stock, k, add)[i].qty <= MaxBase
<1> DEFINE row == [name |-> k[1], bucket |-> k[2], qty |-> QtyOf(stock, k) + add]
<1>1. UpsertId(stock, k) \in Ids
  BY NextIdIsFresh, IdOfType DEF UpsertId, IsTable
<1>2. QtyOf(stock, k) + add \in Nat
  BY QtyOfType
<1>3. row \in StockRow
  BY <1>2 DEF StockRow, Keys
<1>4. Upsert(stock, k, add) = Put(stock, UpsertId(stock, k), row)
  BY DEF Upsert
<1>5. row.qty <= MaxBase
  BY DEF Storable
<1> HIDE DEF row
<1>6. \A i \in DOMAIN Put(stock, UpsertId(stock, k), row) :
        Put(stock, UpsertId(stock, k), row)[i].qty <= MaxBase
  BY <1>5 DEF Put
<1> QED
  BY <1>1, <1>3, <1>4, <1>6, PutTable

LEMMA GeneratedLinesType ==
  ASSUME NEW list \in Ids, NEW need \in [Keys -> Nat], NEW taste \in SUBSET Names,
         NEW stock, IsTable(stock, StockRow),
         \A i \in DOMAIN stock : stock[i].qty <= MaxBase
  PROVE  GeneratedLines(list, need, taste, stock) \subseteq GroceryLine
<1> SUFFICES ASSUME NEW line \in GeneratedLines(list, need, taste, stock)
             PROVE  line \in GroceryLine
  OBVIOUS
<1>1. ASSUME NEW k \in Shortfalls(need, stock)
      PROVE  NewLine(list, Author[k[1]], CanonUnit[k[2]], need[k] - QtyOf(stock, k),
                     "generated", ~Incompatible(stock, k)) \in GroceryLine
  <2>1. k \in Keys /\ need[k] > QtyOf(stock, k)
    BY DEF Shortfalls
  <2>2. need[k] - QtyOf(stock, k) \in Nat
    BY <2>1, QtyOfType
  <2>3. Author[k[1]] \in Items /\ CanonUnit[k[2]] \in Units
    BY <2>1, TextAssumption, UnitAssumption DEF Keys
  <2>4. (~Incompatible(stock, k)) \in BOOLEAN
    BY DEF Incompatible
  <2> QED
    BY <2>2, <2>3, <2>4 DEF NewLine, GroceryLine
<1>2. ASSUME NEW n \in taste
      PROVE  NewLine(list, Author[n], NoUnit, NoQty, "generated", FALSE) \in GroceryLine
  <2>1. Author[n] \in Items /\ NoUnit \in Units
    BY TextAssumption, UnitAssumption
  <2> QED
    BY <2>1 DEF NewLine, GroceryLine
<1> QED
  BY <1>1, <1>2 DEF GeneratedLines

LEMMA DrawsType ==
  ASSUME NEW need \in [Keys -> Nat], NEW stock, IsTable(stock, StockRow),
         \A i \in DOMAIN stock : stock[i].qty <= MaxBase
  PROVE  /\ DOMAIN Draws(need, stock) \subseteq Keys
         /\ Draws(need, stock) \in [DOMAIN Draws(need, stock) -> Draw]
         /\ \A k \in DOMAIN Draws(need, stock) :
              HasKey(stock, k) /\ Draws(need, stock)[k].after <= MaxBase
<1> DEFINE D == {k \in Keys : need[k] > 0 /\ QtyOf(stock, k) > 0}
           after(k) == IF need[k] < QtyOf(stock, k) THEN QtyOf(stock, k) - need[k] ELSE 0
<1>1. Draws(need, stock) = [k \in D |-> [before |-> QtyOf(stock, k), after |-> after(k)]]
  BY DEF Draws
<1>2. \A k \in D : QtyOf(stock, k) \in Nat /\ QtyOf(stock, k) <= MaxBase
  BY QtyOfType
<1>3. \A k \in D : after(k) \in Nat /\ after(k) <= MaxBase
  BY <1>2, AmountAssumption
<1>4. \A k \in D : HasKey(stock, k)
  BY DEF QtyOf
<1> HIDE DEF after
<1> QED
  BY <1>1, <1>2, <1>3, <1>4 DEF Draw

-----------------------------------------------------------------------------
(* The inductive invariant.                                                 *)

Inv == TypeOK /\ LoopsInBounds

-----------------------------------------------------------------------------
(* What the fields of a request are, by its kind.                           *)

LEMMA OpFields ==
  ASSUME NEW p \in OpType
  PROVE  /\ p.kind \in {"none", "read", "add_inventory", "update_inventory",
                        "delete_inventory", "create_list", "add_line", "update_line",
                        "delete_line", "submit", "archive", "delete_list", "cook",
                        "create_recipe", "update_recipe", "delete_recipe"}
         /\ p.kind = "add_inventory" =>
              p.match \in Items /\ p.unit \in Units /\ p.amount \in Nat
         /\ p.kind = "update_inventory" =>
              p.id \in Ids /\ p.match \in Items /\ p.unit \in Units /\ p.amount \in Nat
         /\ p.kind = "create_list" =>
              /\ p.first \in Ids /\ p.second \in Ids \cup {NoRecipe}
              /\ p.times[1] \in Nat /\ p.times[2] \in Nat
         /\ p.kind = "add_line" =>
              /\ p.list \in Ids /\ p.item \in Items /\ p.unit \in Units
              /\ p.amount \in Nat \cup {NoQty}
         /\ p.kind = "update_line" =>
              /\ p.list \in Ids /\ p.id \in Ids /\ p.item \in Items /\ p.unit \in Units
              /\ p.amount \in Nat \cup {NoQty} /\ p.checked \in BOOLEAN
         /\ p.kind = "cook" => p.recipe \in Ids /\ p.times \in Nat
         /\ p.kind \in {"create_recipe", "update_recipe"} => p.recipe \in Recipe
         /\ p.kind = "update_recipe" => p.id \in Ids
         /\ p.kind \in {"submit", "archive", "delete_list"} => p.list \in Ids
  BY DEF OpType, Ids

-----------------------------------------------------------------------------
(* The three ways a step of a handler ends.                                 *)

LEMMA RefuseKeepsInv ==
  ASSUME Inv, NEW r \in Requests, NEW status \in Refusals, Refuse(r, status)
  PROVE  Inv'
<1>1. TypeOK'
  <2>1. IsClaim(NoClaim)
    BY DEF IsClaim, NoClaim
  <2> QED
    BY <2>1, EmptyDbIsDb DEF Inv, TypeOK, Refuse, histVars
<1>2. LoopsInBounds'
  BY DEF Inv, TypeOK, LoopsInBounds, Refuse
<1> QED
  BY <1>1, <1>2 DEF Inv

LEMMA HandledKeepsInv ==
  ASSUME Inv, NEW r \in Requests, NEW db, NEW c, IsDb(db), IsClaim(c), Handled(r, db, c)
  PROVE  Inv'
<1>1. TypeOK'
  BY DEF Inv, TypeOK, Handled, histVars
<1>2. LoopsInBounds'
  BY DEF Inv, TypeOK, LoopsInBounds, Handled
<1> QED
  BY <1>1, <1>2 DEF Inv

LEMMA LoopingKeepsInv ==
  ASSUME Inv, NEW r \in Requests, NEW db, NEW rest, IsDb(db), Looping(r, db, rest),
         LoopBounds(r, op[r].kind, db, rest)
  PROVE  Inv'
<1>1. TypeOK'
  BY DEF Inv, TypeOK, Looping, histVars
<1>2. LoopsInBounds'
  BY DEF Inv, TypeOK, LoopsInBounds, Looping
<1> QED
  BY <1>1, <1>2 DEF Inv

-----------------------------------------------------------------------------
(* The initial state, and the steps outside the handlers.                   *)

LEMMA InitInv == Init => Inv
<1> SUFFICES ASSUME Init PROVE Inv
  OBVIOUS
<1>1. IsDb(disk) /\ disk \in Seeds
  BY SeedAssumption DEF Init
<1>2. IsClaim(NoClaim)
  BY DEF IsClaim, NoClaim
<1>3. NoOp \in OpType
  BY DEF NoOp, OpType
<1>4. DOMAIN book \subseteq Ids /\ book \in [DOMAIN book -> Int]
  <2>1. book = [i \in DOMAIN disk.stock |-> disk.stock[i].qty]
    BY DEF Init, Amounts
  <2>2. IsTable(disk.stock, StockRow)
    BY <1>1 DEF IsDb
  <2> QED
    BY <2>1, <2>2 DEF IsTable, StockRow
<1>5. DOMAIN paid \subseteq Ids /\ paid \in [DOMAIN paid -> Nat]
  <2>1. paid = [i \in DOMAIN disk.lines |-> IF disk.lines[i].frozen THEN 1 ELSE 0]
    BY DEF Init
  <2>2. IsTable(disk.lines, GroceryLine)
    BY <1>1 DEF IsDb
  <2> QED
    BY <2>1, <2>2 DEF IsTable
<1>6. /\ pc \in [Requests -> {"idle", "answered"}]
      /\ answer \in [Requests -> {"none", "ok"}]
      /\ committed \subseteq Requests
  BY <1>1 DEF Init, IsDb
<1>7. TypeOK
  BY <1>1, <1>2, <1>3, <1>4, <1>5, <1>6, EmptyDbIsDb DEF Init, TypeOK
<1>8. LoopsInBounds
  BY <1>6 DEF LoopsInBounds
<1> QED
  BY <1>7, <1>8 DEF Inv

LEMMA SendKeepsInv ==
  ASSUME Inv, NEW r \in Requests, Send(r) PROVE Inv'
<1>1. PICK p \in Ops : op' = [op EXCEPT ![r] = p]
  BY DEF Send
<1>2. p \in OpType
  BY OpsAssumption
<1>3. TypeOK'
  BY <1>1, <1>2 DEF Inv, TypeOK, Send, histVars
<1>4. LoopsInBounds'
  BY <1>1 DEF Inv, TypeOK, LoopsInBounds, Send
<1> QED
  BY <1>3, <1>4 DEF Inv

LEMMA BeginKeepsInv ==
  ASSUME Inv, NEW r \in Requests, Begin(r) \/ BusyTimeout(r) PROVE Inv'
<1>1. CASE Begin(r)
  <2>1. TypeOK'
    BY <1>1 DEF Inv, TypeOK, Begin, histVars
  <2>2. LoopsInBounds'
    BY <1>1 DEF Inv, TypeOK, LoopsInBounds, Begin
  <2> QED
    BY <2>1, <2>2 DEF Inv
<1>2. CASE BusyTimeout(r)
  <2>1. TypeOK'
    BY <1>2 DEF Inv, TypeOK, BusyTimeout, Refusals, histVars
  <2>2. LoopsInBounds'
    BY <1>2 DEF Inv, TypeOK, LoopsInBounds, BusyTimeout
  <2> QED
    BY <2>1, <2>2 DEF Inv
<1> QED
  BY <1>1, <1>2

\* Adding a claim to the book leaves a book.
LEMMA ChargeType ==
  ASSUME NEW b, DOMAIN b \subseteq Ids, b \in [DOMAIN b -> Int], NEW c, IsClaim(c)
  PROVE  /\ DOMAIN Charge(b, c) \subseteq Ids
         /\ Charge(b, c) \in [DOMAIN Charge(b, c) -> Int]
<1>1. \A i \in DOMAIN c : c[i].n \in Int
  BY DEF IsClaim
<1> QED
  BY <1>1 DEF Charge, IsClaim

LEMMA CommitKeepsInv ==
  ASSUME Inv, NEW r \in Requests, Commit(r) PROVE Inv'
<1>1. IsClaim(NoClaim)
  BY DEF IsClaim, NoClaim
<1>2. DOMAIN book' \subseteq Ids /\ book' \in [DOMAIN book' -> Int]
  BY ChargeType DEF Commit, Inv, TypeOK
<1>3. DOMAIN paid' \subseteq Ids /\ paid' \in [DOMAIN paid' -> Nat]
  <2>1. DOMAIN work[r].lines \subseteq Ids
    BY DEF Inv, TypeOK, IsDb, IsTable
  <2>2. paid' = [i \in DOMAIN work[r].lines |->
                   (IF i \in DOMAIN paid THEN paid[i] ELSE 0)
                   + (IF i \in bought[r] THEN 1 ELSE 0)]
    BY DEF Commit
  <2> QED
    BY <2>1, <2>2 DEF Inv, TypeOK
<1>4. TypeOK'
  BY <1>1, <1>2, <1>3, EmptyDbIsDb DEF Inv, TypeOK, Commit
<1>5. LoopsInBounds'
  BY DEF Inv, TypeOK, LoopsInBounds, Commit
<1> QED
  BY <1>4, <1>5 DEF Inv

LEMMA RespondKeepsInv ==
  ASSUME Inv, NEW r \in Requests, Respond(r) PROVE Inv'
<1>1. TypeOK'
  BY DEF Inv, TypeOK, Respond, histVars
<1>2. LoopsInBounds'
  BY DEF Inv, TypeOK, LoopsInBounds, Respond
<1> QED
  BY <1>1, <1>2 DEF Inv

LEMMA CrashKeepsInv ==
  ASSUME Inv, Crash PROVE Inv'
<1>1. IsClaim(NoClaim)
  BY DEF IsClaim, NoClaim
<1>2. TypeOK'
  BY <1>1, EmptyDbIsDb DEF Inv, TypeOK, Crash, histVars
<1>3. LoopsInBounds'
  BY DEF Inv, TypeOK, LoopsInBounds, Crash
<1> QED
  BY <1>2, <1>3 DEF Inv

LEMMA BackupKeepsInv ==
  ASSUME Inv, BackupStart \/ BackupEnd PROVE Inv'
  BY DEF Inv, TypeOK, LoopsInBounds, BackupStart, BackupEnd, txVars, histVars

LEMMA LoopDoneKeepsInv ==
  ASSUME Inv, NEW r \in Requests, LoopDone(r) PROVE Inv'
<1>1. TypeOK'
  BY DEF Inv, TypeOK, LoopDone, histVars
<1>2. LoopsInBounds'
  BY DEF Inv, TypeOK, LoopsInBounds, LoopDone
<1> QED
  BY <1>1, <1>2 DEF Inv

-----------------------------------------------------------------------------
(* The handlers.                                                            *)

LEMMA WorkType ==
  ASSUME Inv, NEW r \in Requests
  PROVE  /\ op[r] \in OpType
         /\ IsDb(work[r])
         /\ IsTable(work[r].stock, StockRow)
         /\ \A i \in DOMAIN work[r].stock : work[r].stock[i].qty <= MaxBase
         /\ IsTable(work[r].lists, GroceryList)
         /\ IsTable(work[r].lines, GroceryLine)
         /\ IsTable(work[r].recipes, Recipe)
         /\ DOMAIN work[r].logs \subseteq Requests
         /\ \A q \in DOMAIN work[r].logs : IsLog(work[r].logs[q])
<1>1. op[r] \in OpType /\ IsDb(work[r])
  BY DEF Inv, TypeOK
<1> QED
  BY <1>1 DEF IsDb

LEMMA ClaimTypes ==
  /\ IsClaim(NoClaim)
  /\ \A i \in Ids, how \in {"by", "to", "gone"}, n \in Int : IsClaim(Claim(i, how, n))
  /\ \A c : IsClaim(c) => \A i \in Ids, n \in Int : IsClaim(More(c, i, n))
<1>1. IsClaim(NoClaim)
  BY DEF IsClaim, NoClaim
<1>2. ASSUME NEW i \in Ids, NEW how \in {"by", "to", "gone"}, NEW n \in Int
      PROVE  IsClaim(Claim(i, how, n))
  BY DEF IsClaim, Claim
<1>3. ASSUME NEW c, NEW i \in Ids, NEW n \in Int, IsClaim(c)
      PROVE  IsClaim(More(c, i, n))
  <2>1. Said(c, i) + n \in Int
    BY <1>3 DEF Said, IsClaim
  <2> QED
    BY <1>3, <2>1 DEF IsClaim, More, Put
<1> QED
  BY <1>1, <1>2, <1>3

LEMMA SimpleKeepInv ==
  ASSUME Inv, NEW r \in Requests, Unauthenticated(r) \/ CommitBusy(r) \/ Read(r)
  PROVE  Inv'
<1>1. CASE Unauthenticated(r) \/ CommitBusy(r)
  BY <1>1, RefuseKeepsInv DEF Unauthenticated, CommitBusy, Refusals
<1>2. CASE Read(r)
  BY <1>2, WorkType, ClaimTypes, HandledKeepsInv DEF Read
<1> QED
  BY <1>1, <1>2

LEMMA AddInventoryKeepsInv ==
  ASSUME Inv, NEW r \in Requests, AddInventory(r) PROVE Inv'
<1> DEFINE p   == op[r]
           db  == work[r]
           k   == AddKey(p.match, p.unit)
           add == AddBase(p.amount, p.unit)
           i   == UpsertId(db.stock, k)
<1>1. CASE Refuse(r, "422") \/ Refuse(r, "409")
  BY <1>1, RefuseKeepsInv DEF Refusals
<1>2. CASE /\ Storable(QtyOf(db.stock, k) + add)
           /\ Handled(r, [db EXCEPT !.stock = Upsert(@, k, add)], Claim(i, "by", add))
  <2>1. p.match \in Items /\ p.unit \in Units /\ p.amount \in Nat
    BY WorkType, OpFields DEF AddInventory, Running
  <2>2. k \in Keys /\ add \in Nat
    BY <2>1, AddKeyType, AddBaseType
  <2>3. /\ i \in Ids
        /\ IsTable(Upsert(db.stock, k, add), StockRow)
        /\ \A j \in DOMAIN Upsert(db.stock, k, add) :
             Upsert(db.stock, k, add)[j].qty <= MaxBase
    BY <1>2, <2>2, WorkType, UpsertType
  <2>4. IsDb([db EXCEPT !.stock = Upsert(db.stock, k, add)])
    BY <2>3, WorkType, StockReplaced
  <2>5. IsClaim(Claim(i, "by", add))
    BY <2>2, <2>3, ClaimTypes
  <2> QED
    BY <1>2, <2>4, <2>5, HandledKeepsInv
<1> QED
  BY <1>1, <1>2 DEF AddInventory

\* Replacing or adding one row of stock.
LEMMA PutStock ==
  ASSUME NEW db, IsDb(db), NEW i \in Ids, NEW row \in StockRow, row.qty <= MaxBase
  PROVE  IsDb([db EXCEPT !.stock = Put(@, i, row)])
<1>1. IsTable(db.stock, StockRow) /\ \A j \in DOMAIN db.stock : db.stock[j].qty <= MaxBase
  BY DEF IsDb
<1>2. IsTable(Put(db.stock, i, row), StockRow)
  BY <1>1, PutTable
<1>3. \A j \in DOMAIN Put(db.stock, i, row) : Put(db.stock, i, row)[j].qty <= MaxBase
  BY <1>1 DEF Put
<1> QED
  BY <1>2, <1>3, StockReplaced

LEMMA UpdateInventoryKeepsInv ==
  ASSUME Inv, NEW r \in Requests, UpdateInventory(r) PROVE Inv'
<1> DEFINE p   == op[r]
           db  == work[r]
           row == PatchedRow(p, db.stock[p.id])
           c   == IF "quantity" \in p.fields THEN Claim(p.id, "to", row.qty) ELSE NoClaim
<1>1. CASE Refuse(r, "404") \/ Refuse(r, "422") \/ Refuse(r, "409")
  BY <1>1, RefuseKeepsInv DEF Refusals
<1>2. CASE /\ p.id \in DOMAIN db.stock
           /\ Storable(row.qty)
           /\ Handled(r, [db EXCEPT !.stock = Put(@, p.id, row)], c)
  <2>1. p.id \in Ids /\ p.match \in Items /\ p.unit \in Units /\ p.amount \in Nat
    BY WorkType, OpFields DEF UpdateInventory, Running
  <2>2. db.stock[p.id] \in StockRow
    BY <1>2, WorkType DEF IsTable
  <2>3. AddBase(p.amount, p.unit) \in Nat /\ Norm[p.match] \in Names
    BY <2>1, AddBaseType, AddKeyType
  <2>4. row \in StockRow
    BY <2>2, <2>3 DEF PatchedRow, StockRow
  <2>5. row.qty <= MaxBase
    BY <1>2 DEF Storable
  <2>6. IsClaim(c)
    <3>1. row.qty \in Int
      BY <2>4 DEF StockRow
    <3> QED
      BY <2>1, <3>1, ClaimTypes
  <2> HIDE DEF row, c
  <2>7. IsDb([db EXCEPT !.stock = Put(@, p.id, row)])
    BY <2>1, <2>4, <2>5, WorkType, PutStock
  <2> QED
    BY <1>2, <2>6, <2>7, HandledKeepsInv
<1> QED
  BY <1>1, <1>2 DEF UpdateInventory

LEMMA DeleteInventoryKeepsInv ==
  ASSUME Inv, NEW r \in Requests, DeleteInventory(r) PROVE Inv'
<1> DEFINE i  == op[r].id
           db == work[r]
<1>1. CASE Refuse(r, "404")
  BY <1>1, RefuseKeepsInv DEF Refusals
<1>2. CASE /\ i \in DOMAIN db.stock
           /\ Handled(r, [db EXCEPT !.stock = Drop(@, {i})], Claim(i, "gone", 0))
  <2>1. IsTable(Drop(db.stock, {i}), StockRow)
    BY WorkType, DropTable
  <2>2. \A j \in DOMAIN Drop(db.stock, {i}) : Drop(db.stock, {i})[j].qty <= MaxBase
    BY WorkType DEF Drop, Restrict
  <2>3. IsDb([db EXCEPT !.stock = Drop(@, {i})])
    BY <2>1, <2>2, WorkType, StockReplaced
  <2>4. i \in Ids
    BY <1>2, WorkType DEF IsTable
  <2>5. IsClaim(Claim(i, "gone", 0))
    BY <2>4, ClaimTypes
  <2> QED
    BY <1>2, <2>3, <2>5, HandledKeepsInv
<1> QED
  BY <1>1, <1>2 DEF DeleteInventory

\* Two tables replaced in one step.
LEMMA TwoReplaced ==
  ASSUME NEW db, IsDb(db)
  PROVE  /\ \A lists, lines :
              IsTable(lists, GroceryList) /\ IsTable(lines, GroceryLine) =>
                IsDb([db EXCEPT !.lists = lists, !.lines = lines])
         /\ \A stock, lines :
              /\ IsTable(stock, StockRow)
              /\ \A i \in DOMAIN stock : stock[i].qty <= MaxBase
              /\ IsTable(lines, GroceryLine)
              => IsDb([db EXCEPT !.stock = stock, !.lines = lines])
<1>1. ASSUME NEW lists, NEW lines, IsTable(lists, GroceryList), IsTable(lines, GroceryLine)
      PROVE  IsDb([db EXCEPT !.lists = lists, !.lines = lines])
  <2>1. IsDb([[db EXCEPT !.lists = lists] EXCEPT !.lines = lines])
    BY <1>1, ListsReplaced, LinesReplaced
  <2>2. [[db EXCEPT !.lists = lists] EXCEPT !.lines = lines]
          = [db EXCEPT !.lists = lists, !.lines = lines]
    BY DEF IsDb
  <2> QED
    BY <2>1, <2>2
<1>2. ASSUME NEW stock, NEW lines, IsTable(stock, StockRow), IsTable(lines, GroceryLine),
             \A i \in DOMAIN stock : stock[i].qty <= MaxBase
      PROVE  IsDb([db EXCEPT !.stock = stock, !.lines = lines])
  <2>1. IsDb([[db EXCEPT !.stock = stock] EXCEPT !.lines = lines])
    BY <1>2, StockReplaced, LinesReplaced
  <2>2. [[db EXCEPT !.stock = stock] EXCEPT !.lines = lines]
          = [db EXCEPT !.stock = stock, !.lines = lines]
    BY DEF IsDb
  <2> QED
    BY <2>1, <2>2
<1> QED
  BY <1>1, <1>2

\* Handlers that change the lines of a list by one row.
LEMMA PutLine ==
  ASSUME NEW db, IsDb(db), NEW i \in Ids, NEW line \in GroceryLine
  PROVE  IsDb([db EXCEPT !.lines = Put(@, i, line)])
<1>1. IsTable(Put(db.lines, i, line), GroceryLine)
  BY PutTable DEF IsDb
<1> QED
  BY <1>1, LinesReplaced

LEMMA AddLineKeepsInv ==
  ASSUME Inv, NEW r \in Requests, AddLine(r) PROVE Inv'
<1> DEFINE p    == op[r]
           db   == work[r]
           line == NewLine(p.list, p.item, p.unit, p.amount, "manual", TRUE)
<1>1. CASE Refuse(r, "404") \/ Refuse(r, "409")
  BY <1>1, RefuseKeepsInv DEF Refusals
<1>2. CASE Handled(r, [db EXCEPT !.lines = Put(@, NextId(@), line)], NoClaim)
  <2>1. line \in GroceryLine
    BY WorkType, OpFields DEF AddLine, Running, NewLine, GroceryLine
  <2>2. NextId(db.lines) \in Ids
    BY WorkType, NextIdIsFresh
  <2> HIDE DEF line
  <2>3. IsDb([db EXCEPT !.lines = Put(@, NextId(@), line)])
    BY <2>1, <2>2, WorkType, PutLine
  <2> QED
    BY <1>2, <2>3, ClaimTypes, HandledKeepsInv
<1> QED
  BY <1>1, <1>2 DEF AddLine

LEMMA EditedLineType ==
  ASSUME NEW p, NEW line \in GroceryLine,
         p.item \in Items, p.unit \in Units, p.amount \in Nat \cup {NoQty},
         p.checked \in BOOLEAN
  PROVE  EditedLine(p, line) \in GroceryLine
<1> DEFINE human == p.fields \cap {"item", "quantity", "unit"} # {}
           qty      == IF "quantity" \in p.fields THEN p.amount ELSE line.qty
           unit     == IF "quantity" \in p.fields THEN p.unit ELSE line.unit
           item     == IF "item" \in p.fields THEN p.item ELSE line.item
           checked  == IF "checked" \in p.fields THEN p.checked ELSE line.checked
           source   == IF human THEN "manual" ELSE line.source
           nettable == IF human THEN TRUE ELSE line.nettable
<1>1. qty \in Nat \cup {NoQty} /\ unit \in Units /\ item \in Items
  BY DEF GroceryLine
<1>2. checked \in BOOLEAN
  BY DEF GroceryLine
<1>3. source \in {"generated", "manual"} /\ nettable \in BOOLEAN
  BY DEF GroceryLine
<1>4. EditedLine(p, line) =
        [line EXCEPT !.qty = qty, !.unit = unit, !.item = item, !.checked = checked,
                     !.source = source, !.nettable = nettable]
  BY DEF EditedLine
<1> HIDE DEF qty, unit, item, checked, source, nettable
<1> QED
  BY <1>1, <1>2, <1>3, <1>4 DEF GroceryLine

LEMMA UpdateLineKeepsInv ==
  ASSUME Inv, NEW r \in Requests, UpdateLine(r) PROVE Inv'
<1> DEFINE p    == op[r]
           db   == work[r]
           line == EditedLine(p, db.lines[p.id])
<1>1. CASE Refuse(r, "404") \/ Refuse(r, "409") \/ Refuse(r, "422")
  BY <1>1, RefuseKeepsInv DEF Refusals
<1>2. CASE /\ ~LineMissing(db, p.list, p.id)
           /\ Handled(r, [db EXCEPT !.lines = Put(@, p.id, line)], NoClaim)
  <2>1. /\ p.id \in Ids /\ p.item \in Items /\ p.unit \in Units
        /\ p.amount \in Nat \cup {NoQty} /\ p.checked \in BOOLEAN
    BY WorkType, OpFields DEF UpdateLine, Running
  <2>2. p.id \in DOMAIN db.lines
    BY <1>2 DEF LineMissing, LinesOf
  <2>3. db.lines[p.id] \in GroceryLine
    BY <2>2, WorkType DEF IsTable
  <2>4. line \in GroceryLine
    BY <2>1, <2>3, EditedLineType
  <2> HIDE DEF line
  <2>5. IsDb([db EXCEPT !.lines = Put(@, p.id, line)])
    BY <2>1, <2>4, WorkType, PutLine
  <2> QED
    BY <1>2, <2>5, ClaimTypes, HandledKeepsInv
<1> QED
  BY <1>1, <1>2 DEF UpdateLine

LEMMA DeleteLineKeepsInv ==
  ASSUME Inv, NEW r \in Requests, DeleteLine(r) PROVE Inv'
<1> DEFINE i  == op[r].id
           db == work[r]
<1>1. CASE Refuse(r, "404") \/ Refuse(r, "409")
  BY <1>1, RefuseKeepsInv DEF Refusals
<1>2. CASE Handled(r, [db EXCEPT !.lines = Drop(@, {i})], NoClaim)
  <2>1. IsTable(Drop(db.lines, {i}), GroceryLine)
    BY WorkType, DropTable
  <2>2. IsDb([db EXCEPT !.lines = Drop(@, {i})])
    BY <2>1, WorkType, LinesReplaced
  <2> QED
    BY <1>2, <2>2, ClaimTypes, HandledKeepsInv
<1> QED
  BY <1>1, <1>2 DEF DeleteLine

LEMMA ListHandlersKeepInv ==
  ASSUME Inv, NEW r \in Requests, Archive(r) \/ DeleteList(r) PROVE Inv'
<1> DEFINE l  == op[r].list
           db == work[r]
<1>1. CASE Refuse(r, "404") \/ Refuse(r, "409")
  BY <1>1, RefuseKeepsInv DEF Refusals
<1>2. CASE /\ l \in DOMAIN db.lists
           /\ Handled(r, [db EXCEPT !.lists = Put(@, l, [status |-> "archived"])], NoClaim)
  <2>1. l \in Ids
    BY <1>2, WorkType DEF IsTable
  <2>2. [status |-> "archived"] \in GroceryList
    BY DEF GroceryList
  <2>3. IsTable(Put(db.lists, l, [status |-> "archived"]), GroceryList)
    BY <2>1, <2>2, WorkType, PutTable
  <2>4. IsDb([db EXCEPT !.lists = Put(@, l, [status |-> "archived"])])
    BY <2>3, WorkType, ListsReplaced
  <2> QED
    BY <1>2, <2>4, ClaimTypes, HandledKeepsInv
<1>3. CASE Handled(r, [db EXCEPT !.lists = Drop(@, {l}),
                                 !.lines = Drop(@, LinesOf(db, l))], NoClaim)
  <2>1. IsTable(Drop(db.lists, {l}), GroceryList)
        /\ IsTable(Drop(db.lines, LinesOf(db, l)), GroceryLine)
    BY WorkType, DropTable
  <2>2. IsDb([db EXCEPT !.lists = Drop(@, {l}), !.lines = Drop(@, LinesOf(db, l))])
    BY <2>1, WorkType, TwoReplaced
  <2> QED
    BY <1>3, <2>2, ClaimTypes, HandledKeepsInv
<1> QED
  BY <1>1, <1>2, <1>3 DEF Archive, DeleteList

LEMMA SubmitKeepsInv ==
  ASSUME Inv, NEW r \in Requests, Submit(r) PROVE Inv'
<1> DEFINE l  == op[r].list
           db == work[r]
<1>1. CASE Refuse(r, "404") \/ Refuse(r, "409")
  BY <1>1, RefuseKeepsInv DEF Refusals
<1>2. CASE op[r].kind = "submit" /\ Looping(r, db, LinesOf(db, l))
  <2>1. LoopBounds(r, op[r].kind, db, LinesOf(db, l))
    BY <1>2 DEF LoopBounds, LinesOf
  <2> QED
    BY <1>2, <2>1, WorkType, LoopingKeepsInv
<1> QED
  BY <1>1, <1>2 DEF Submit, Running

LEMMA SubmitLineKeepsInv ==
  ASSUME Inv, NEW r \in Requests, SubmitLine(r) PROVE Inv'
<1> DEFINE db   == work[r]
           i    == Min(todo[r])
           line == db.lines[i]
           k    == AddKey(Norm[line.item], line.unit)
           add  == AddBase(line.qty, line.unit)
           row  == UpsertId(db.stock, k)
           new  == [line EXCEPT !.frozen = TRUE, !.applied = add]
           left == [db EXCEPT !.stock = Upsert(@, k, add), !.lines = Put(@, i, new)]
<1>1. op[r].kind = "submit" /\ todo[r] # {} /\ todo[r] \subseteq DOMAIN db.lines
  BY DEF SubmitLine, InLoop, Inv, LoopsInBounds, LoopBounds
<1>2. i \in todo[r] /\ i \in DOMAIN db.lines /\ i \in Ids
  <2>1. DOMAIN db.lines \in SUBSET Ids /\ IsFiniteSet(DOMAIN db.lines)
    BY WorkType DEF IsTable
  <2>2. todo[r] \in SUBSET Nat /\ IsFiniteSet(todo[r])
    BY <1>1, <2>1, FS_Subset DEF Ids
  <2>3. i \in todo[r]
    BY <1>1, <2>2, MinIsElement
  <2> QED
    BY <1>1, <2>1, <2>3
<1>3. CASE Refuse(r, "409")
  BY <1>3, RefuseKeepsInv DEF Refusals
<1>4. CASE Looping(r, db, todo[r] \ {i})
  <2>1. LoopBounds(r, op[r].kind, db, todo[r] \ {i})
    BY <1>1 DEF LoopBounds
  <2> QED
    BY <1>4, <2>1, WorkType, LoopingKeepsInv
<1>5. CASE /\ Eligible(line)
           /\ Storable(QtyOf(db.stock, k) + add)
           /\ work' = [work EXCEPT ![r] = left]
           /\ claim' = [claim EXCEPT ![r] = More(@, row, add)]
           /\ bought' = [bought EXCEPT ![r] = @ \cup {i}]
           /\ todo' = [todo EXCEPT ![r] = @ \ {i}]
           /\ UNCHANGED <<disk, lock, reading, pc, op, answer, histVars>>
  <2>1. line \in GroceryLine
    BY <1>2, WorkType DEF IsTable
  <2>2. line.item \in Items /\ line.unit \in Units /\ line.qty \in Nat
    BY <1>5, <2>1 DEF Eligible, GroceryLine
  <2>3. k \in Keys /\ add \in Nat
    BY <2>2, AddKeyType, AddBaseType
  <2>4. new \in GroceryLine
    BY <2>1, <2>3 DEF GroceryLine
  <2>5. /\ row \in Ids
        /\ IsTable(Upsert(db.stock, k, add), StockRow)
        /\ \A j \in DOMAIN Upsert(db.stock, k, add) :
             Upsert(db.stock, k, add)[j].qty <= MaxBase
    BY <1>5, <2>3, WorkType, UpsertType
  <2> HIDE DEF new
  <2>6. IsTable(Put(db.lines, i, new), GroceryLine)
        /\ DOMAIN Put(db.lines, i, new) = DOMAIN db.lines \cup {i}
    <3>1. IsTable(db.lines, GroceryLine)
      BY WorkType
    <3>2. i \in Ids
      BY <1>2
    <3> HIDE DEF db, i, line, k, add, row, left
    <3>3. IsTable(Put(db.lines, i, new), GroceryLine)
      BY <2>4, <3>1, <3>2, PutTable
    <3>4. DOMAIN Put(db.lines, i, new) = DOMAIN db.lines \cup {i}
      BY DEF Put
    <3> QED
      BY <3>3, <3>4
  <2>7. IsDb(left)
    BY <2>5, <2>6, WorkType, TwoReplaced
  <2>8. IsClaim(More(claim[r], row, add))
    <3>1. IsClaim(claim[r])
      BY DEF Inv, TypeOK
    <3> HIDE DEF k, add, row
    <3>2. add \in Int
      BY <2>3
    <3>3. row \in Ids
      BY <2>5
    <3> QED
      BY <3>1, <3>2, <3>3, ClaimTypes
  <2>9. DOMAIN left.lines = DOMAIN db.lines
    BY <1>2, <2>6, WorkType DEF IsDb
  <2> HIDE DEF left
  <2>10. TypeOK'
    BY <1>2, <1>5, <2>7, <2>8 DEF Inv, TypeOK, histVars
  <2>11. LoopBounds(r, op[r].kind, left, todo[r] \ {i})
    BY <1>1, <2>9 DEF LoopBounds
  <2>12. LoopsInBounds'
    BY <1>5, <2>11 DEF Inv, TypeOK, LoopsInBounds
  <2> QED
    BY <2>10, <2>12 DEF Inv
<1> QED
  BY <1>3, <1>4, <1>5 DEF SubmitLine, LineOverflows

\* The need of the selected recipes is an amount for every key.
LEMMA TotalNeedType ==
  ASSUME NEW p, NEW db, IsTable(db.recipes, Recipe), ~BadSelection(p, db),
         p.second \in Ids \cup {NoRecipe}, p.first \in Ids,
         p.times[1] \in Nat, p.times[2] \in Nat
  PROVE  TotalNeed(p, db) \in [Keys -> Nat] /\ TotalTaste(p, db) \in SUBSET Names
<1>1. p.first \in DOMAIN db.recipes
  BY DEF BadSelection, NoRecipe, Ids
<1>2. p.second # NoRecipe => p.second \in DOMAIN db.recipes
  BY DEF BadSelection
<1>3. db.recipes[p.first] \in Recipe
  BY <1>1 DEF IsTable
<1>4. p.second # NoRecipe => db.recipes[p.second] \in Recipe
  BY <1>2 DEF IsTable
<1>5. ASSUME NEW k \in Keys
      PROVE  db.recipes[p.first].need[k] * p.times[1]
               + (IF p.second = NoRecipe THEN 0
                  ELSE db.recipes[p.second].need[k] * p.times[2]) \in Nat
  <2>1. db.recipes[p.first].need[k] \in Nat
    BY <1>3 DEF Recipe
  <2>2. p.second # NoRecipe => db.recipes[p.second].need[k] \in Nat
    BY <1>4 DEF Recipe
  <2>3. db.recipes[p.first].need[k] * p.times[1] \in Nat
    BY <2>1
  <2>4. p.second # NoRecipe => db.recipes[p.second].need[k] * p.times[2] \in Nat
    BY <2>2
  <2> QED
    BY <2>3, <2>4
<1>6. TotalNeed(p, db) \in [Keys -> Nat]
  BY <1>5 DEF TotalNeed
<1>7. TotalTaste(p, db) \in SUBSET Names
  BY <1>3, <1>4 DEF TotalTaste, Recipe
<1> QED
  BY <1>6, <1>7

LEMMA CreateListKeepsInv ==
  ASSUME Inv, NEW r \in Requests, CreateList(r) PROVE Inv'
<1> DEFINE p     == op[r]
           db    == work[r]
           l     == NextId(db.lists)
           lists == Put(db.lists, l, [status |-> "active"])
           rest  == GeneratedLines(l, TotalNeed(p, db), TotalTaste(p, db), db.stock)
<1>1. CASE Refuse(r, "422")
  BY <1>1, RefuseKeepsInv DEF Refusals
<1>2. CASE /\ p.kind = "create_list"
           /\ ~BadSelection(p, db)
           /\ Looping(r, [db EXCEPT !.lists = lists], rest)
  <2>1. /\ p.first \in Ids /\ p.second \in Ids \cup {NoRecipe}
        /\ p.times[1] \in Nat /\ p.times[2] \in Nat
    BY <1>2, WorkType, OpFields
  <2>2. TotalNeed(p, db) \in [Keys -> Nat] /\ TotalTaste(p, db) \in SUBSET Names
    BY <1>2, <2>1, WorkType, TotalNeedType
  <2>3. l \in Ids
    BY WorkType, NextIdIsFresh
  <2>4. rest \subseteq GroceryLine
    BY <2>2, <2>3, WorkType, GeneratedLinesType
  <2>5. [status |-> "active"] \in GroceryList
    BY DEF GroceryList
  <2>6. IsTable(lists, GroceryList)
    BY <2>3, <2>5, WorkType, PutTable
  <2> HIDE DEF lists, rest
  <2>7. IsDb([db EXCEPT !.lists = lists])
    BY <2>6, WorkType, ListsReplaced
  <2>8. LoopBounds(r, op[r].kind, [db EXCEPT !.lists = lists], rest)
    BY <1>2, <2>4 DEF LoopBounds
  <2> QED
    BY <1>2, <2>7, <2>8, LoopingKeepsInv
<1> QED
  BY <1>1, <1>2 DEF CreateList, Running

LEMMA InsertLineKeepsInv ==
  ASSUME Inv, NEW r \in Requests, InsertLine(r) PROVE Inv'
<1> DEFINE line == CHOOSE x \in todo[r] : TRUE
           db   == work[r]
           left == [db EXCEPT !.lines = Put(@, NextId(@), line)]
<1>1. /\ op[r].kind = "create_list" /\ todo[r] # {} /\ todo[r] \subseteq GroceryLine
      /\ Looping(r, left, todo[r] \ {line})
  BY DEF InsertLine, InLoop, Inv, LoopsInBounds, LoopBounds
<1>2. line \in GroceryLine
  BY <1>1
<1>3. NextId(db.lines) \in Ids
  BY WorkType, NextIdIsFresh
<1> HIDE DEF line
<1>4. IsDb(left)
  BY <1>2, <1>3, WorkType, PutLine
<1>5. LoopBounds(r, op[r].kind, left, todo[r] \ {line})
  BY <1>1 DEF LoopBounds
<1> QED
  BY <1>1, <1>4, <1>5, LoopingKeepsInv

LEMMA CookKeepsInv ==
  ASSUME Inv, NEW r \in Requests, Cook(r) PROVE Inv'
<1> DEFINE p     == op[r]
           db    == work[r]
           need  == [k \in Keys |-> db.recipes[p.recipe].need[k] * p.times]
           drawn == IF p.deduct THEN Draws(need, db.stock) ELSE NoRows
           log   == [recipe |-> p.recipe, drawn |-> drawn]
           left  == [db EXCEPT !.logs = Put(@, r, log)]
<1>1. CASE Refuse(r, "404")
  BY <1>1, RefuseKeepsInv DEF Refusals
<1>2. CASE /\ p.kind = "cook"
           /\ p.recipe \in DOMAIN db.recipes
           /\ Looping(r, left, DOMAIN drawn)
  <2>1. p.recipe \in Ids /\ p.times \in Nat
    BY <1>2, WorkType, OpFields
  <2>2. db.recipes[p.recipe] \in Recipe
    BY <1>2, WorkType DEF IsTable
  <2>3. need \in [Keys -> Nat]
    <3>1. ASSUME NEW k \in Keys PROVE db.recipes[p.recipe].need[k] * p.times \in Nat
      <4>1. db.recipes[p.recipe].need[k] \in Nat
        BY <2>2 DEF Recipe
      <4> QED
        BY <2>1, <4>1
    <3> QED
      BY <3>1
  <2>4. /\ DOMAIN drawn \subseteq Keys
        /\ drawn \in [DOMAIN drawn -> Draw]
        /\ \A k \in DOMAIN drawn : HasKey(db.stock, k) /\ drawn[k].after <= MaxBase
    <3> HIDE DEF need
    <3>1. CASE p.deduct
      BY <2>3, <3>1, WorkType, DrawsType
    <3>2. CASE ~p.deduct
      BY <3>2 DEF NoRows
    <3> QED
      BY <3>1, <3>2
  <2> HIDE DEF need, drawn
  <2>5. IsLog(log)
    BY <2>1, <2>4 DEF IsLog, Ids
  <2>6. left.logs = Put(db.logs, r, log) /\ left.stock = db.stock
    BY WorkType DEF IsDb
  <2>7. IsDb(left)
    <3>1. DOMAIN Put(db.logs, r, log) \subseteq Requests
      BY WorkType DEF Put
    <3>2. \A q \in DOMAIN Put(db.logs, r, log) : IsLog(Put(db.logs, r, log)[q])
      BY <2>5, WorkType DEF Put
    <3> HIDE DEF log
    <3> QED
      BY <3>1, <3>2, WorkType, LogsReplaced
  <2>8. r \in DOMAIN left.logs /\ left.logs[r].drawn = drawn
    BY <2>6 DEF Put
  <2>9. LoopBounds(r, op[r].kind, left, DOMAIN drawn)
    BY <1>2, <2>4, <2>6, <2>8 DEF LoopBounds
  <2> HIDE DEF left
  <2> QED
    BY <1>2, <2>7, <2>9, LoopingKeepsInv
<1> QED
  BY <1>1, <1>2 DEF Cook, Running

LEMMA CookRowKeepsInv ==
  ASSUME Inv, NEW r \in Requests, CookRow(r) PROVE Inv'
<1> DEFINE k    == CHOOSE x \in todo[r] : TRUE
           db   == work[r]
           draw == db.logs[r].drawn[k]
           i    == TargetOf(db.stock, k)
           row  == [db.stock[i] EXCEPT !.qty = draw.after]
           left == [db EXCEPT !.stock = Put(@, i, row)]
<1>1. /\ op[r].kind = "cook" /\ todo[r] # {}
      /\ r \in DOMAIN db.logs
      /\ todo[r] \subseteq DOMAIN db.logs[r].drawn
      /\ \A x \in todo[r] : HasKey(db.stock, x) /\ db.logs[r].drawn[x].after <= MaxBase
  BY DEF CookRow, InLoop, Inv, LoopsInBounds, LoopBounds
<1>2. /\ work' = [work EXCEPT ![r] = left]
      /\ claim' = [claim EXCEPT ![r] = More(@, i, draw.after - draw.before)]
      /\ todo' = [todo EXCEPT ![r] = @ \ {k}]
      /\ UNCHANGED <<disk, lock, reading, pc, op, bought, answer, histVars>>
  BY DEF CookRow, Inv, TypeOK
<1>3. k \in todo[r]
  BY <1>1
<1> HIDE DEF k
<1>4. draw.before \in Nat /\ draw.after \in Nat /\ draw.after <= MaxBase
  <2>1. IsLog(db.logs[r])
    BY <1>1, WorkType
  <2>2. draw \in Draw
    BY <1>1, <1>3, <2>1 DEF IsLog
  <2> QED
    BY <1>1, <1>3, <2>2 DEF Draw
<1> HIDE DEF draw
<1>5. i \in DOMAIN db.stock /\ i \in Ids
  <2>1. HasKey(db.stock, k)
    BY <1>1, <1>3
  <2>2. i \in DOMAIN db.stock
    BY <2>1, IdOfType DEF TargetOf
  <2> QED
    BY <2>2, WorkType DEF IsTable
<1> HIDE DEF i
<1>6. row \in StockRow /\ row.qty <= MaxBase
      /\ row.name = db.stock[i].name /\ row.bucket = db.stock[i].bucket
  <2>1. db.stock[i] \in StockRow
    BY <1>5, WorkType DEF IsTable
  <2> QED
    BY <1>4, <2>1 DEF StockRow
<1> HIDE DEF row
<1>7. IsDb(left)
  BY <1>5, <1>6, WorkType, PutStock
<1>8. IsClaim(More(claim[r], i, draw.after - draw.before))
  <2>1. IsClaim(claim[r])
    BY DEF Inv, TypeOK
  <2>2. draw.after - draw.before \in Int
    BY <1>4
  <2> QED
    BY <1>5, <2>1, <2>2, ClaimTypes
<1>9. left.logs = db.logs /\ left.stock = Put(db.stock, i, row)
  BY WorkType DEF IsDb
<1>10. ASSUME NEW x, HasKey(db.stock, x) PROVE HasKey(left.stock, x)
  <2>1. PICK j \in DOMAIN db.stock : KeyOf(db.stock[j]) = x
    BY <1>10 DEF HasKey
  <2>2. j \in DOMAIN left.stock /\ KeyOf(left.stock[j]) = x
    BY <1>6, <1>9, <2>1 DEF Put, KeyOf
  <2> QED
    BY <2>2 DEF HasKey
<1> HIDE DEF left
<1>11. LoopBounds(r, op[r].kind, left, todo[r] \ {k})
  BY <1>1, <1>9, <1>10 DEF LoopBounds
<1>12. TypeOK'
  BY <1>2, <1>7, <1>8 DEF Inv, TypeOK, histVars
<1>13. LoopsInBounds'
  BY <1>2, <1>11 DEF Inv, TypeOK, LoopsInBounds
<1> QED
  BY <1>12, <1>13 DEF Inv

LEMMA PutRecipeKeepsInv ==
  ASSUME Inv, NEW r \in Requests, CreateRecipe(r) \/ UpdateRecipe(r) PROVE Inv'
<1> DEFINE p  == op[r]
           db == work[r]
<1>1. CASE Refuse(r, "404") \/ Refuse(r, "422")
  BY <1>1, RefuseKeepsInv DEF Refusals
<1>2. ASSUME NEW i \in Ids, p.recipe \in Recipe,
             Handled(r, [db EXCEPT !.recipes = Put(@, i, p.recipe)], NoClaim)
      PROVE  Inv'
  <2>1. IsTable(Put(db.recipes, i, p.recipe), Recipe)
    BY <1>2, WorkType, PutTable
  <2>2. IsDb([db EXCEPT !.recipes = Put(@, i, p.recipe)])
    BY <2>1, WorkType, RecipesReplaced
  <2> QED
    BY <1>2, <2>2, ClaimTypes, HandledKeepsInv
<1>3. CASE CreateRecipe(r)
  <2>1. p.recipe \in Recipe
    BY <1>3, WorkType, OpFields DEF CreateRecipe, Running
  <2>2. NextId(db.recipes) \in Ids
    BY WorkType, NextIdIsFresh
  <2> QED
    BY <1>1, <1>2, <1>3, <2>1, <2>2 DEF CreateRecipe
<1>4. CASE UpdateRecipe(r)
  <2>1. p.recipe \in Recipe /\ p.id \in Ids
    BY <1>4, WorkType, OpFields DEF UpdateRecipe, Running
  <2> QED
    BY <1>1, <1>2, <1>4, <2>1 DEF UpdateRecipe
<1> QED
  BY <1>3, <1>4

LEMMA DeleteRecipeKeepsInv ==
  ASSUME Inv, NEW r \in Requests, DeleteRecipe(r) PROVE Inv'
<1> DEFINE i       == op[r].id
           db      == work[r]
           recipes == Drop(db.recipes, {i})
           logs    == Detached(db.logs, i)
<1>1. CASE Refuse(r, "404")
  BY <1>1, RefuseKeepsInv DEF Refusals
<1>2. CASE Handled(r, [db EXCEPT !.recipes = recipes, !.logs = logs], NoClaim)
  <2>1. IsTable(recipes, Recipe)
    BY WorkType, DropTable
  <2>2. DOMAIN logs \subseteq Requests
    BY WorkType DEF Detached
  <2>3. ASSUME NEW q \in DOMAIN logs PROVE IsLog(logs[q])
    <3>1. IsLog(db.logs[q]) /\ q \in DOMAIN db.logs
      BY <2>3, WorkType DEF Detached
    <3>2. logs[q] = IF db.logs[q].recipe = i
                    THEN [db.logs[q] EXCEPT !.recipe = NoRecipe] ELSE db.logs[q]
      BY <3>1 DEF Detached
    <3>3. CASE db.logs[q].recipe = i
      BY <3>1, <3>2, <3>3 DEF IsLog, NoRecipe
    <3> QED
      BY <3>1, <3>2, <3>3
  <2> HIDE DEF recipes, logs
  <2>4. IsDb([db EXCEPT !.recipes = recipes])
    BY <2>1, WorkType, RecipesReplaced
  <2>5. [[db EXCEPT !.recipes = recipes] EXCEPT !.logs = logs]
          = [db EXCEPT !.recipes = recipes, !.logs = logs]
    OBVIOUS
  <2>6. IsDb([db EXCEPT !.recipes = recipes, !.logs = logs])
    BY <2>2, <2>3, <2>4, <2>5, LogsReplaced
  <2> QED
    BY <1>2, <2>6, ClaimTypes, HandledKeepsInv
<1> QED
  BY <1>1, <1>2 DEF DeleteRecipe

-----------------------------------------------------------------------------
(* The invariant of the server.                                             *)

LEMMA HandlerKeepsInv ==
  ASSUME Inv, NEW r \in Requests, Handler(r) PROVE Inv'
<1>1. CASE Unauthenticated(r) \/ Read(r)
  BY <1>1, SimpleKeepInv
<1>2. CASE AddInventory(r)
  BY <1>2, AddInventoryKeepsInv
<1>3. CASE UpdateInventory(r)
  BY <1>3, UpdateInventoryKeepsInv
<1>4. CASE DeleteInventory(r)
  BY <1>4, DeleteInventoryKeepsInv
<1>5. CASE CreateList(r)
  BY <1>5, CreateListKeepsInv
<1>6. CASE InsertLine(r)
  BY <1>6, InsertLineKeepsInv
<1>7. CASE DeleteList(r) \/ Archive(r)
  BY <1>7, ListHandlersKeepInv
<1>8. CASE AddLine(r)
  BY <1>8, AddLineKeepsInv
<1>9. CASE UpdateLine(r)
  BY <1>9, UpdateLineKeepsInv
<1>10. CASE DeleteLine(r)
  BY <1>10, DeleteLineKeepsInv
<1>11. CASE Submit(r)
  BY <1>11, SubmitKeepsInv
<1>12. CASE SubmitLine(r)
  BY <1>12, SubmitLineKeepsInv
<1>13. CASE Cook(r)
  BY <1>13, CookKeepsInv
<1>14. CASE CookRow(r)
  BY <1>14, CookRowKeepsInv
<1>15. CASE CreateRecipe(r) \/ UpdateRecipe(r)
  BY <1>15, PutRecipeKeepsInv
<1>16. CASE DeleteRecipe(r)
  BY <1>16, DeleteRecipeKeepsInv
<1>17. CASE LoopDone(r)
  BY <1>17, LoopDoneKeepsInv
<1> QED
  BY <1>1, <1>2, <1>3, <1>4, <1>5, <1>6, <1>7, <1>8, <1>9, <1>10, <1>11, <1>12,
     <1>13, <1>14, <1>15, <1>16, <1>17 DEF Handler

LEMMA NextKeepsInv == Inv /\ [Next]_vars => Inv'
<1> SUFFICES ASSUME Inv, [Next]_vars PROVE Inv'
  OBVIOUS
<1>1. ASSUME NEW r \in Requests, Send(r) PROVE Inv'
  BY <1>1, SendKeepsInv
<1>2. ASSUME NEW r \in Requests, Serve(r) PROVE Inv'
  <2>1. CASE Begin(r) \/ BusyTimeout(r)
    BY <2>1, BeginKeepsInv
  <2>2. CASE Handler(r)
    BY <2>2, HandlerKeepsInv
  <2>3. CASE Commit(r)
    BY <2>3, CommitKeepsInv
  <2>4. CASE CommitBusy(r)
    BY <2>4, SimpleKeepInv
  <2>5. CASE Respond(r)
    BY <2>5, RespondKeepsInv
  <2> QED
    BY <1>2, <2>1, <2>2, <2>3, <2>4, <2>5 DEF Serve
<1>3. CASE Crash
  BY <1>3, CrashKeepsInv
<1>4. CASE BackupStart \/ BackupEnd
  BY <1>4, BackupKeepsInv
<1>5. CASE UNCHANGED vars
  BY <1>5 DEF Inv, TypeOK, LoopsInBounds, vars, txVars, histVars
<1> QED
  BY <1>1, <1>2, <1>3, <1>4, <1>5 DEF Next

\* Every variable keeps its type, in every behaviour and for every value of the
\* constants, and with it the schema of the committed database (models.py).
THEOREM TypeCorrect == Spec => []TypeOK
<1>1. Inv => TypeOK
  BY DEF Inv
<1> QED
  BY <1>1, InitInv, NextKeepsInv, PTL DEF Spec

-----------------------------------------------------------------------------
(* No update is lost and every answer is true.  The write lock makes the    *)
(* transactions exclusive; the open one starts from the committed stock and *)
(* keeps it equal to the book plus its own claims.                          *)

Active == {"open", "looping", "handled"}

\* Only the owner of the write lock is inside a transaction.
Exclusive == \A r \in Requests : pc[r] \in Active => lock = r

\* Who is committed, and what clients may have heard.
Told ==
  \A r \in Requests :
    /\ pc[r] \in {"idle", "waiting"} \cup Active => r \notin committed
    /\ pc[r] = "committed" => r \in committed
    /\ pc[r] # "answered" => answer[r] = "none"
    /\ answer[r] = "ok" => r \in committed
    /\ answer[r] \in Refusals => r \notin committed

\* What a transaction has done to the stock so far.
TxBalanced(r) ==
  /\ pc[r] \in {"idle", "waiting", "open"} => claim[r] = NoClaim
  /\ pc[r] = "open" => work[r] = disk
  /\ pc[r] \in {"looping", "handled"} =>
       /\ UniqueKeys(work[r].stock)
       /\ Amounts(work[r].stock) = Charge(book, claim[r])
  /\ pc[r] = "looping" =>
       /\ \A i \in DOMAIN claim[r] : claim[r][i].how = "by"
       /\ op[r].kind = "cook" =>
            \A k \in todo[r] : QtyOf(work[r].stock, k) = work[r].logs[r].drawn[k].before

Balanced ==
  /\ NoLostUpdate
  /\ UniqueKeys(disk.stock)
  /\ \A r \in Requests : TxBalanced(r)

-----------------------------------------------------------------------------
(* What every step of a handler leaves alone.                               *)

LEMMA HandlerShape ==
  ASSUME Inv, NEW r \in Requests, Handler(r)
  PROVE  /\ pc[r] \in {"open", "looping"}
         /\ UNCHANGED <<disk, reading, op, histVars>>
         /\ \A q \in Requests \ {r} :
              /\ pc'[q] = pc[q] /\ work'[q] = work[q] /\ todo'[q] = todo[q]
              /\ claim'[q] = claim[q] /\ answer'[q] = answer[q]
              /\ bought'[q] = bought[q]
         /\ \/ \E status \in Refusals : Refuse(r, status)
            \/ pc'[r] \in {"looping", "handled"} /\ UNCHANGED <<lock, answer>>
<1> DEFINE Frame == /\ UNCHANGED <<disk, reading, op, histVars>>
                    /\ \A q \in Requests \ {r} :
                         /\ pc'[q] = pc[q] /\ work'[q] = work[q] /\ todo'[q] = todo[q]
                         /\ claim'[q] = claim[q] /\ answer'[q] = answer[q]
                         /\ bought'[q] = bought[q]
           Moves == pc'[r] \in {"looping", "handled"} /\ UNCHANGED <<lock, answer>>
           Fails == \E status \in Refusals : Refuse(r, status)
           Goal  == pc[r] \in {"open", "looping"} /\ Frame /\ (Fails \/ Moves)
<1>0. SUFFICES Goal
  OBVIOUS
<1>1. ASSUME NEW status, Refuse(r, status) PROVE Frame
  BY <1>1 DEF Refuse, Inv, TypeOK
<1>2. ASSUME NEW db, NEW c, Handled(r, db, c) PROVE Frame /\ Moves
  BY <1>2 DEF Handled, Inv, TypeOK
<1>3. ASSUME NEW db, NEW rest, Looping(r, db, rest) PROVE Frame /\ Moves
  BY <1>3 DEF Looping, Inv, TypeOK
<1>4. ASSUME NEW status \in Refusals, Refuse(r, status) PROVE Frame /\ Fails
  BY <1>1, <1>4
<1> HIDE DEF Frame, Moves, Fails
<1>5. "401" \in Refusals /\ "404" \in Refusals /\ "409" \in Refusals /\ "422" \in Refusals
  BY DEF Refusals
<1>6. CASE Unauthenticated(r) \/ Read(r)
  BY <1>2, <1>4, <1>5, <1>6 DEF Unauthenticated, Read, Running
<1>7. CASE AddInventory(r)
  BY <1>2, <1>4, <1>5, <1>7 DEF AddInventory, Running
<1>8. CASE UpdateInventory(r)
  BY <1>2, <1>4, <1>5, <1>8 DEF UpdateInventory, Running
<1>9. CASE DeleteInventory(r)
  BY <1>2, <1>4, <1>5, <1>9 DEF DeleteInventory, Running
<1>10. CASE CreateList(r)
  BY <1>3, <1>4, <1>5, <1>10 DEF CreateList, Running
<1>11. CASE InsertLine(r)
  BY <1>3, <1>11 DEF InsertLine, InLoop
<1>12. CASE DeleteList(r) \/ Archive(r)
  BY <1>2, <1>4, <1>5, <1>12 DEF DeleteList, Archive, Running
<1>13. CASE AddLine(r)
  BY <1>2, <1>4, <1>5, <1>13 DEF AddLine, Running
<1>14. CASE UpdateLine(r)
  BY <1>2, <1>4, <1>5, <1>14 DEF UpdateLine, Running
<1>15. CASE DeleteLine(r)
  BY <1>2, <1>4, <1>5, <1>15 DEF DeleteLine, Running
<1>16. CASE Submit(r)
  BY <1>3, <1>4, <1>5, <1>16 DEF Submit, Running
<1>17. CASE SubmitLine(r)
  <2> DEFINE i == Min(todo[r])
             k == AddKey(Norm[work[r].lines[i].item], work[r].lines[i].unit)
  <2>1. CASE Looping(r, work[r], todo[r] \ {i}) \/ Refuse(r, "409")
    BY <1>3, <1>4, <1>5, <1>17, <2>1 DEF SubmitLine, InLoop
  <2>2. CASE /\ \E db : work' = [work EXCEPT ![r] = db]
             /\ \E c : claim' = [claim EXCEPT ![r] = c]
             /\ \E lines : bought' = [bought EXCEPT ![r] = lines]
             /\ todo' = [todo EXCEPT ![r] = @ \ {i}]
             /\ UNCHANGED <<disk, lock, reading, pc, op, answer, histVars>>
    BY <1>17, <2>2 DEF SubmitLine, InLoop, Frame, Moves, Inv, TypeOK
  <2> QED
    BY <1>17, <2>1, <2>2 DEF SubmitLine, LineOverflows
<1>18. CASE Cook(r)
  BY <1>3, <1>4, <1>5, <1>18 DEF Cook, Running
<1>19. CASE CookRow(r)
  BY <1>19 DEF CookRow, InLoop, Frame, Moves, Inv, TypeOK
<1>20. CASE CreateRecipe(r) \/ UpdateRecipe(r) \/ DeleteRecipe(r)
  BY <1>2, <1>4, <1>5, <1>20 DEF CreateRecipe, UpdateRecipe, DeleteRecipe, Running
<1>21. CASE LoopDone(r)
  BY <1>21 DEF LoopDone, Frame, Moves, Inv, TypeOK, histVars
<1> QED
  BY <1>6, <1>7, <1>8, <1>9, <1>10, <1>11, <1>12, <1>13, <1>14, <1>15, <1>16, <1>17,
     <1>18, <1>19, <1>20, <1>21 DEF Handler

-----------------------------------------------------------------------------
(* The lock and the answers.                                                *)

TxInv == Inv /\ Exclusive /\ Told

LEMMA TxInit == Init => TxInv
  BY InitInv, FreeAssumption DEF Init, TxInv, Exclusive, Told, Active, Refusals

\* A transaction that fails gives the lock up, and its client hears of no success.
LEMMA RefuseKeepsTx ==
  ASSUME TxInv, NEW r \in Requests, NEW status \in Refusals, Refuse(r, status),
         pc[r] \in Active
  PROVE  Exclusive' /\ Told'
<1>1. /\ pc' = [pc EXCEPT ![r] = "answered"] /\ answer' = [answer EXCEPT ![r] = status]
      /\ committed' = committed
  BY DEF Refuse, histVars
<1>2. status # "none" /\ status # "ok"
  BY DEF Refusals
<1>3. \A q \in Requests \ {r} : pc[q] \notin Active
  BY DEF TxInv, Exclusive
<1>4. Exclusive'
  BY <1>1, <1>3 DEF TxInv, Inv, TypeOK, Exclusive, Active
<1>5. Told'
  BY <1>1, <1>2 DEF TxInv, Inv, TypeOK, Told, Active
<1> QED
  BY <1>4, <1>5

LEMMA HandlerKeepsTx ==
  ASSUME TxInv, NEW r \in Requests, Handler(r) PROVE Exclusive' /\ Told'
<1>1. Inv
  BY DEF TxInv
<1>2. pc[r] \in Active
  BY <1>1, HandlerShape DEF Active
<1>3. CASE \E status \in Refusals : Refuse(r, status)
  BY <1>2, <1>3, RefuseKeepsTx
<1>4. CASE pc'[r] \in {"looping", "handled"} /\ UNCHANGED <<lock, answer>>
  <2>1. committed' = committed /\ \A q \in Requests \ {r} : pc'[q] = pc[q]
    BY <1>1, HandlerShape DEF histVars
  <2>2. Exclusive'
    BY <1>2, <1>4, <2>1 DEF TxInv, Exclusive, Active
  <2>3. Told'
    BY <1>2, <1>4, <2>1 DEF TxInv, Told, Active
  <2> QED
    BY <2>2, <2>3
<1> QED
  BY <1>1, <1>3, <1>4, HandlerShape

LEMMA ServeKeepsTx ==
  ASSUME TxInv, NEW r \in Requests, Serve(r) PROVE Exclusive' /\ Told'
<1>1. CASE Begin(r)
  <2>1. \A q \in Requests : pc[q] \notin Active
    BY <1>1, FreeAssumption DEF Begin, TxInv, Exclusive
  <2> QED
    BY <1>1, <2>1 DEF Begin, TxInv, Inv, TypeOK, Exclusive, Told, Active, histVars
<1>2. CASE BusyTimeout(r)
  <2>1. "409" # "none" /\ "409" # "ok"
    OBVIOUS
  <2> QED
    BY <1>2, <2>1 DEF BusyTimeout, TxInv, Inv, TypeOK, Exclusive, Told, Active, histVars
<1>3. CASE Handler(r)
  BY <1>3, HandlerKeepsTx
<1>4. CASE CommitBusy(r)
  BY <1>4, RefuseKeepsTx DEF CommitBusy, Active, Refusals
<1>5. CASE Commit(r)
  <2>1. \A q \in Requests \ {r} : pc[q] \notin Active
    BY <1>5 DEF Commit, TxInv, Exclusive, Active
  <2>2. Exclusive'
    BY <1>5, <2>1 DEF Commit, TxInv, Inv, TypeOK, Exclusive, Active
  <2>3. answer[r] = "none"
    BY <1>5 DEF Commit, TxInv, Told
  <2>4. Told'
    BY <1>5, <2>3 DEF Commit, TxInv, Inv, TypeOK, Told, Active, Refusals
  <2> QED
    BY <2>2, <2>4
<1>6. CASE Respond(r)
  <2>1. PICK status \in {"ok", "lost"} : answer' = [answer EXCEPT ![r] = status]
    BY <1>6 DEF Respond
  <2>2. Exclusive'
    BY <1>6 DEF Respond, TxInv, Inv, TypeOK, Exclusive, Active
  <2>3. Told'
    BY <1>6, <2>1 DEF Respond, TxInv, Inv, TypeOK, Told, Active, Refusals, histVars
  <2> QED
    BY <2>2, <2>3
<1> QED
  BY <1>1, <1>2, <1>3, <1>4, <1>5, <1>6 DEF Serve

LEMMA TxNext == TxInv /\ [Next]_vars => TxInv'
<1> SUFFICES ASSUME TxInv, [Next]_vars PROVE TxInv'
  OBVIOUS
<1>1. Inv'
  BY NextKeepsInv DEF TxInv
<1>2. CASE \E r \in Requests : Send(r)
  BY <1>1, <1>2 DEF Send, TxInv, Inv, TypeOK, Exclusive, Told, Active, histVars
<1>3. CASE \E r \in Requests : Serve(r)
  BY <1>1, <1>3, ServeKeepsTx DEF TxInv
<1>4. CASE Crash
  <2>1. Exclusive'
    BY <1>4 DEF Crash, TxInv, Inv, TypeOK, Exclusive, Active
  <2>2. Told'
    BY <1>4 DEF Crash, TxInv, Inv, TypeOK, Told, Active, Refusals, histVars
  <2> QED
    BY <1>1, <2>1, <2>2 DEF TxInv
<1>5. CASE BackupStart \/ BackupEnd \/ UNCHANGED vars
  BY <1>1, <1>5
     DEF BackupStart, BackupEnd, vars, txVars, histVars, TxInv, Exclusive, Told
<1> QED
  BY <1>2, <1>3, <1>4, <1>5 DEF Next

\* A 2xx is committed and a refusal is not, whatever fails in between: the
\* commit comes before the response and every error rolls back (database.py).
THEOREM AnswersTold == Spec => []AnswersAreTrue
<1>1. TxInv => AnswersAreTrue
  BY DEF TxInv, Told, AnswersAreTrue
<1> QED
  BY <1>1, TxInit, TxNext, PTL DEF Spec

-----------------------------------------------------------------------------
(* Book-keeping: what statements and claims do to the amounts.              *)

\* The amount n added to account i.
Credit(b, i, n) ==
  [j \in DOMAIN b \cup {i} |->
     IF j = i THEN (IF i \in DOMAIN b THEN b[i] ELSE 0) + n ELSE b[j]]

LEMMA ChargeNothing ==
  ASSUME NEW stock PROVE Charge(Amounts(stock), NoClaim) = Amounts(stock)
  BY DEF Charge, Amounts, NoClaim

LEMMA ChargeBy ==
  ASSUME NEW b, NEW i, NEW n
  PROVE  Charge(b, Claim(i, "by", n)) = Credit(b, i, n)
  BY DEF Charge, Claim, Credit

\* A loop that claims once more adds once more.
LEMMA ChargeMore ==
  ASSUME NEW b, b \in [DOMAIN b -> Int], NEW c, IsClaim(c),
         \A j \in DOMAIN c : c[j].how = "by", NEW i \in Ids, NEW n \in Int
  PROVE  /\ Charge(b, More(c, i, n)) = Credit(Charge(b, c), i, n)
         /\ \A j \in DOMAIN More(c, i, n) : More(c, i, n)[j].how = "by"
<1> DEFINE d == More(c, i, n)
<1>1. DOMAIN d = DOMAIN c \cup {i} /\ \A j \in DOMAIN d : d[j].how = "by"
  BY DEF More, Put
<1>2. /\ \A j \in DOMAIN c \ {i} : d[j].n = c[j].n
      /\ d[i].n = (IF i \in DOMAIN c THEN c[i].n ELSE 0) + n
  BY DEF More, Put, Said
<1>3. \A j \in DOMAIN c : c[j].n \in Int
  BY DEF IsClaim
<1>4. DOMAIN Charge(b, d) = DOMAIN b \cup DOMAIN c \cup {i}
  BY <1>1 DEF Charge
<1>5. DOMAIN Charge(b, c) = DOMAIN b \cup DOMAIN c
  BY DEF Charge
<1>6. DOMAIN Credit(Charge(b, c), i, n) = DOMAIN b \cup DOMAIN c \cup {i}
  BY <1>5 DEF Credit
<1>7. ASSUME NEW j \in DOMAIN b \cup DOMAIN c \cup {i}
      PROVE  Charge(b, d)[j] = Credit(Charge(b, c), i, n)[j]
  <2>1. Charge(b, d)[j] = IF j \notin DOMAIN d THEN b[j]
                          ELSE (IF j \in DOMAIN b THEN b[j] ELSE 0) + d[j].n
    BY <1>1, <1>4, <1>7 DEF Charge
  <2>2. j \in DOMAIN b \cup DOMAIN c =>
          Charge(b, c)[j] = IF j \notin DOMAIN c THEN b[j]
                            ELSE (IF j \in DOMAIN b THEN b[j] ELSE 0) + c[j].n
    BY <1>5 DEF Charge
  <2>3. Credit(Charge(b, c), i, n)[j] =
          IF j = i THEN (IF i \in DOMAIN b \cup DOMAIN c THEN Charge(b, c)[i] ELSE 0) + n
          ELSE Charge(b, c)[j]
    BY <1>5, <1>7 DEF Credit
  <2> HIDE DEF d
  <2>4. CASE j = i
    BY <1>1, <1>2, <1>3, <2>1, <2>2, <2>3, <2>4
  <2>5. CASE j # i
    BY <1>1, <1>2, <1>3, <1>7, <2>1, <2>2, <2>3, <2>5
  <2> QED
    BY <2>4, <2>5
<1> HIDE DEF d
<1>8. Charge(b, d) = Credit(Charge(b, c), i, n)
  <2>1. /\ Charge(b, d) = [j \in DOMAIN Charge(b, d) |-> Charge(b, d)[j]]
        /\ Credit(Charge(b, c), i, n)
             = [j \in DOMAIN Credit(Charge(b, c), i, n) |-> Credit(Charge(b, c), i, n)[j]]
    BY DEF Charge, Credit
  <2> QED
    BY <1>4, <1>6, <1>7, <2>1
<1> QED
  BY <1>1, <1>8 DEF d

\* An upsert credits the account of its row, and keeps one row for each key.
LEMMA UpsertBooks ==
  ASSUME NEW stock, IsTable(stock, StockRow), UniqueKeys(stock),
         NEW k \in Keys, NEW add \in Nat
  PROVE  /\ Amounts(Upsert(stock, k, add)) = Credit(Amounts(stock), UpsertId(stock, k), add)
         /\ UniqueKeys(Upsert(stock, k, add))
<1> DEFINE i   == UpsertId(stock, k)
           row == [name |-> k[1], bucket |-> k[2], qty |-> QtyOf(stock, k) + add]
           new == Upsert(stock, k, add)
<1>1. new = [j \in DOMAIN stock \cup {i} |-> IF j = i THEN row ELSE stock[j]]
  BY DEF Upsert, Put
<1>2. KeyOf(row) = k
  BY DEF KeyOf, Keys
<1>3. QtyOf(stock, k) = IF i \in DOMAIN stock THEN stock[i].qty ELSE 0
  BY IdOfType, NextIdIsFresh DEF QtyOf, UpsertId
<1>4. \A j \in DOMAIN stock : KeyOf(stock[j]) = k => j = i
  BY IdOfType DEF UpsertId, HasKey, UniqueKeys
<1>5. row.qty = QtyOf(stock, k) + add
  OBVIOUS
<1> HIDE DEF i, row, new
<1>6. Amounts(new) = Credit(Amounts(stock), i, add)
  BY <1>1, <1>3, <1>5 DEF Amounts, Credit
<1>7. UniqueKeys(new)
  BY <1>1, <1>2, <1>4 DEF UniqueKeys
<1> QED
  BY <1>6, <1>7 DEF i, new

\* Setting the amount of a row credits its account with the difference.
LEMMA SetBooks ==
  ASSUME NEW stock, UniqueKeys(stock), NEW i \in DOMAIN stock, stock[i].qty \in Int,
         NEW row, KeyOf(row) = KeyOf(stock[i]), row.qty \in Int
  PROVE  /\ Amounts(Put(stock, i, row))
              = Credit(Amounts(stock), i, row.qty - stock[i].qty)
         /\ UniqueKeys(Put(stock, i, row))
         /\ QtyOf(Put(stock, i, row), KeyOf(row)) = row.qty
         /\ \A k : k # KeyOf(row) => QtyOf(Put(stock, i, row), k) = QtyOf(stock, k)
<1> DEFINE new == Put(stock, i, row)
<1>1. new = [j \in DOMAIN stock |-> IF j = i THEN row ELSE stock[j]]
  BY DEF Put
<1> HIDE DEF new
<1>2. Amounts(new) = Credit(Amounts(stock), i, row.qty - stock[i].qty)
  <2>1. DOMAIN Amounts(stock) \cup {i} = DOMAIN stock
    BY DEF Amounts
  <2>2. Credit(Amounts(stock), i, row.qty - stock[i].qty)
          = [j \in DOMAIN stock |-> IF j = i THEN stock[i].qty + (row.qty - stock[i].qty)
                                    ELSE stock[j].qty]
    BY <2>1 DEF Credit, Amounts
  <2>3. stock[i].qty + (row.qty - stock[i].qty) = row.qty
    OBVIOUS
  <2>4. Amounts(new) = [j \in DOMAIN stock |-> new[j].qty]
    BY <1>1 DEF Amounts
  <2>5. \A j \in DOMAIN stock : new[j].qty = IF j = i THEN row.qty ELSE stock[j].qty
    BY <1>1
  <2> QED
    BY <2>2, <2>3, <2>4, <2>5
<1>3. \A j \in DOMAIN stock : KeyOf(new[j]) = KeyOf(stock[j])
  BY <1>1
<1>4. DOMAIN new = DOMAIN stock
  BY <1>1
<1>5. UniqueKeys(new)
  BY <1>3, <1>4 DEF UniqueKeys
<1>6. ASSUME NEW k, k # KeyOf(row)
      PROVE  QtyOf(new, k) = QtyOf(stock, k)
  <2>1. HasKey(new, k) <=> HasKey(stock, k)
    BY <1>3, <1>4 DEF HasKey
  <2>2. CASE HasKey(stock, k)
    <3>1. IdOf(stock, k) \in DOMAIN stock /\ KeyOf(stock[IdOf(stock, k)]) = k
      BY <2>2, IdOfType
    <3>2. IdOf(new, k) \in DOMAIN new /\ KeyOf(new[IdOf(new, k)]) = k
      BY <2>1, <2>2, IdOfType
    <3>3. IdOf(new, k) = IdOf(stock, k)
      BY <1>3, <1>4, <3>1, <3>2 DEF UniqueKeys
    <3>4. IdOf(stock, k) # i
      BY <1>6, <3>1
    <3> QED
      BY <1>1, <2>1, <2>2, <3>1, <3>3, <3>4 DEF QtyOf
  <2> QED
    BY <2>1, <2>2 DEF QtyOf
<1>7. QtyOf(new, KeyOf(row)) = row.qty
  <2>1. HasKey(new, KeyOf(row))
    BY <1>1, <1>4 DEF HasKey
  <2>2. IdOf(new, KeyOf(row)) = i
    BY <1>1, <1>3, <1>4, <1>5, <2>1, IdOfType DEF UniqueKeys
  <2> QED
    BY <1>1, <2>1, <2>2 DEF QtyOf
<1> QED
  BY <1>2, <1>5, <1>6, <1>7 DEF new

-----------------------------------------------------------------------------
(* The ways a step of a handler ends, for the books.                        *)

StockInv == TxInv /\ Balanced

LEMMA StockInit == Init => StockInv
<1> SUFFICES ASSUME Init PROVE StockInv
  OBVIOUS
<1>1. UniqueKeys(disk.stock)
  BY SeedAssumption DEF Init
<1>2. \A r \in Requests : TxBalanced(r)
  BY DEF Init, TxBalanced
<1>3. NoLostUpdate
  BY DEF Init, NoLostUpdate
<1> QED
  BY <1>1, <1>2, <1>3, TxInit DEF StockInv, Balanced

LEMMA RefuseBalances ==
  ASSUME Inv, NEW r \in Requests, NEW status, Refuse(r, status)
  PROVE  TxBalanced(r)'
<1>1. pc'[r] = "answered"
  BY DEF Refuse, Inv, TypeOK
<1> QED
  BY <1>1 DEF TxBalanced

LEMMA HandledBalances ==
  ASSUME Inv, NEW r \in Requests, NEW db, NEW c, Handled(r, db, c),
         UniqueKeys(db.stock), Amounts(db.stock) = Charge(book, c)
  PROVE  TxBalanced(r)'
<1>1. pc'[r] = "handled" /\ work'[r] = db /\ claim'[r] = c /\ book' = book
  BY DEF Handled, Inv, TypeOK, histVars
<1> QED
  BY <1>1 DEF TxBalanced

LEMMA LoopingBalances ==
  ASSUME Inv, NEW r \in Requests, NEW db, NEW rest, Looping(r, db, rest),
         UniqueKeys(db.stock), Amounts(db.stock) = Charge(book, claim[r]),
         \A i \in DOMAIN claim[r] : claim[r][i].how = "by",
         op[r].kind = "cook" =>
           \A k \in rest : QtyOf(db.stock, k) = db.logs[r].drawn[k].before
  PROVE  TxBalanced(r)'
<1>1. /\ pc'[r] = "looping" /\ work'[r] = db /\ todo'[r] = rest
      /\ claim' = claim /\ book' = book /\ op' = op
  BY DEF Looping, Inv, TypeOK, histVars
<1> QED
  BY <1>1 DEF TxBalanced

\* What a handler starts from: the committed stock, and the book.
LEMMA OpenedOn ==
  ASSUME StockInv, NEW r \in Requests, pc[r] = "open"
  PROVE  /\ work[r] = disk /\ claim[r] = NoClaim
         /\ UniqueKeys(work[r].stock)
         /\ Amounts(work[r].stock) = book
         /\ book = Charge(book, NoClaim)
         /\ \A i \in DOMAIN claim[r] : claim[r][i].how = "by"
<1>1. /\ work[r] = disk /\ claim[r] = NoClaim /\ UniqueKeys(disk.stock)
      /\ Amounts(disk.stock) = book
  BY DEF StockInv, Balanced, TxBalanced, NoLostUpdate
<1>2. DOMAIN NoClaim = {}
  BY DEF NoClaim
<1> QED
  BY <1>1, <1>2, ChargeNothing

\* A handler that returns with the stock as it found it.
LEMMA UntouchedBalances ==
  ASSUME StockInv, NEW r \in Requests, pc[r] = "open",
         NEW db, Handled(r, db, NoClaim), db.stock = work[r].stock
  PROVE  TxBalanced(r)'
  BY OpenedOn, HandledBalances DEF StockInv, TxInv

LEMMA ReadersBalance ==
  ASSUME StockInv, NEW r \in Requests,
         \/ Unauthenticated(r) \/ Read(r) \/ DeleteList(r) \/ Archive(r)
         \/ AddLine(r) \/ UpdateLine(r) \/ DeleteLine(r)
         \/ CreateRecipe(r) \/ UpdateRecipe(r) \/ DeleteRecipe(r)
  PROVE  TxBalanced(r)'
<1> DEFINE Fails   == \E status : Refuse(r, status)
           Returns == pc[r] = "open" /\ \E db : /\ Handled(r, db, NoClaim)
                                                /\ db.stock = work[r].stock
<1>1. Inv
  BY DEF StockInv, TxInv
<1>2. IsDb(work[r])
  BY <1>1, WorkType
<1>3. SUFFICES Fails \/ Returns
  BY <1>1, RefuseBalances, UntouchedBalances
<1>4. \A db : pc[r] = "open" /\ Handled(r, db, NoClaim) /\ db.stock = work[r].stock => Returns
  OBVIOUS
<1>5. \A status : Refuse(r, status) => Fails
  OBVIOUS
<1> HIDE DEF Fails, Returns
<1>6. CASE Unauthenticated(r) \/ Read(r)
  BY <1>4, <1>5, <1>6 DEF Unauthenticated, Read, Running
<1>7. CASE DeleteList(r)
  <2>1. ASSUME NEW a, NEW b PROVE [work[r] EXCEPT !.lists = a, !.lines = b].stock = work[r].stock
    BY <1>2 DEF IsDb
  <2> QED
    BY <1>4, <1>5, <1>7, <2>1 DEF DeleteList, Running
<1>8. CASE Archive(r)
  <2>1. ASSUME NEW a PROVE [work[r] EXCEPT !.lists = a].stock = work[r].stock
    BY <1>2 DEF IsDb
  <2> QED
    BY <1>4, <1>5, <1>8, <2>1 DEF Archive, Running
<1>9. CASE AddLine(r) \/ UpdateLine(r) \/ DeleteLine(r)
  <2>1. ASSUME NEW a PROVE [work[r] EXCEPT !.lines = a].stock = work[r].stock
    BY <1>2 DEF IsDb
  <2> QED
    BY <1>4, <1>5, <1>9, <2>1 DEF AddLine, UpdateLine, DeleteLine, Running
<1>10. CASE CreateRecipe(r) \/ UpdateRecipe(r)
  <2>1. ASSUME NEW a PROVE [work[r] EXCEPT !.recipes = a].stock = work[r].stock
    BY <1>2 DEF IsDb
  <2> QED
    BY <1>4, <1>5, <1>10, <2>1 DEF CreateRecipe, UpdateRecipe, Running
<1>11. CASE DeleteRecipe(r)
  <2>1. ASSUME NEW a, NEW b PROVE [work[r] EXCEPT !.recipes = a, !.logs = b].stock = work[r].stock
    BY <1>2 DEF IsDb
  <2> QED
    BY <1>4, <1>5, <1>11, <2>1 DEF DeleteRecipe, Running
<1> QED
  BY <1>6, <1>7, <1>8, <1>9, <1>10, <1>11

-----------------------------------------------------------------------------
(* The inventory handlers.                                                  *)

LEMMA AddInventoryBalances ==
  ASSUME StockInv, NEW r \in Requests, AddInventory(r) PROVE TxBalanced(r)'
<1> DEFINE p   == op[r]
           db  == work[r]
           k   == AddKey(p.match, p.unit)
           add == AddBase(p.amount, p.unit)
           i   == UpsertId(db.stock, k)
           new == [db EXCEPT !.stock = Upsert(@, k, add)]
<1>1. Inv
  BY DEF StockInv, TxInv
<1>2. CASE Refuse(r, "422") \/ Refuse(r, "409")
  BY <1>1, <1>2, RefuseBalances
<1>3. CASE Handled(r, new, Claim(i, "by", add))
  <2>1. pc[r] = "open" /\ k \in Keys /\ add \in Nat
    <3>1. p.match \in Items /\ p.unit \in Units /\ p.amount \in Nat
      BY <1>1, WorkType, OpFields DEF AddInventory, Running
    <3> QED
      BY <3>1, AddKeyType, AddBaseType DEF AddInventory, Running
  <2>2. UniqueKeys(db.stock) /\ Amounts(db.stock) = book
    BY <2>1, OpenedOn
  <2>3. IsTable(db.stock, StockRow) /\ new.stock = Upsert(db.stock, k, add)
    <3>1. IsTable(db.stock, StockRow)
      BY <1>1, WorkType
    <3> HIDE DEF k, add
    <3>2. new.stock = Upsert(db.stock, k, add)
      BY <1>1, WorkType DEF IsDb
    <3> QED
      BY <3>1, <3>2
  <2> HIDE DEF db, k, add, new
  <2>4. UniqueKeys(new.stock) /\ Amounts(new.stock) = Credit(book, i, add)
    BY <2>1, <2>2, <2>3, UpsertBooks
  <2> HIDE DEF i
  <2>5. Amounts(new.stock) = Charge(book, Claim(i, "by", add))
    BY <2>4, ChargeBy
  <2> QED
    BY <1>1, <1>3, <2>4, <2>5, HandledBalances
<1> QED
  BY <1>2, <1>3 DEF AddInventory

\* A correction: the book takes the amount it is told.
LEMMA ChargeTo ==
  ASSUME NEW stock, NEW i \in DOMAIN stock, NEW row
  PROVE  Amounts(Put(stock, i, row)) = Charge(Amounts(stock), Claim(i, "to", row.qty))
<1> DEFINE new == Put(stock, i, row)
           c   == Claim(i, "to", row.qty)
           b   == Amounts(stock)
<1>1. new = [j \in DOMAIN stock |-> IF j = i THEN row ELSE stock[j]]
  BY DEF Put
<1>2. DOMAIN c = {i} /\ c[i].how = "to" /\ c[i].n = row.qty
  BY DEF Claim
<1>3. DOMAIN b = DOMAIN stock /\ \A j \in DOMAIN stock : b[j] = stock[j].qty
  BY DEF Amounts
<1>4. {j \in DOMAIN b \cup DOMAIN c : j \in DOMAIN c => c[j].how # "gone"} = DOMAIN stock
  BY <1>2, <1>3
<1> HIDE DEF new, c, b
<1>5. Charge(b, c) = [j \in DOMAIN stock |-> IF j = i THEN row.qty ELSE stock[j].qty]
  BY <1>2, <1>3, <1>4 DEF Charge
<1>6. Amounts(new) = [j \in DOMAIN stock |-> IF j = i THEN row.qty ELSE stock[j].qty]
  BY <1>1 DEF Amounts
<1> QED
  BY <1>5, <1>6 DEF new, c, b

LEMMA ChargeGone ==
  ASSUME NEW stock, NEW i \in DOMAIN stock
  PROVE  Amounts(Drop(stock, {i})) = Charge(Amounts(stock), Claim(i, "gone", 0))
<1> DEFINE c == Claim(i, "gone", 0)
           b == Amounts(stock)
<1>1. DOMAIN c = {i} /\ c[i].how = "gone"
  BY DEF Claim
<1>2. DOMAIN b = DOMAIN stock /\ \A j \in DOMAIN stock : b[j] = stock[j].qty
  BY DEF Amounts
<1>3. {j \in DOMAIN b \cup DOMAIN c : j \in DOMAIN c => c[j].how # "gone"}
        = DOMAIN stock \ {i}
  BY <1>1, <1>2
<1> HIDE DEF c, b
<1>4. Charge(b, c) = [j \in DOMAIN stock \ {i} |-> stock[j].qty]
  BY <1>1, <1>2, <1>3 DEF Charge
<1>5. Drop(stock, {i}) = [j \in DOMAIN stock \ {i} |-> stock[j]]
  BY DEF Drop, Restrict
<1>6. Amounts(Drop(stock, {i})) = [j \in DOMAIN stock \ {i} |-> stock[j].qty]
  BY <1>5 DEF Amounts
<1> QED
  BY <1>4, <1>6 DEF c, b

\* A patch that finds no other row with the new key keeps the keys apart.
LEMMA PatchKeepsKeys ==
  ASSUME NEW p, NEW stock, UniqueKeys(stock), p.id \in DOMAIN stock, ~PatchClash(p, stock)
  PROVE  UniqueKeys(Put(stock, p.id, PatchedRow(p, stock[p.id])))
<1> DEFINE row == PatchedRow(p, stock[p.id])
           new == Put(stock, p.id, row)
<1>1. new = [j \in DOMAIN stock |-> IF j = p.id THEN row ELSE stock[j]]
  BY DEF Put
<1>2. \A j \in DOMAIN stock \ {p.id} : KeyOf(stock[j]) # KeyOf(row)
  <2>1. CASE "match_name" \in p.fields
    BY <2>1 DEF PatchClash, PatchedRow, KeyOf
  <2>2. CASE "match_name" \notin p.fields
    <3>1. KeyOf(row) = KeyOf(stock[p.id])
      BY <2>2 DEF PatchedRow, KeyOf
    <3> QED
      BY <3>1 DEF UniqueKeys
  <2> QED
    BY <2>1, <2>2
<1> HIDE DEF row
<1>3. DOMAIN new = DOMAIN stock
  BY <1>1
<1>4. ASSUME NEW j \in DOMAIN stock, NEW l \in DOMAIN stock, KeyOf(new[j]) = KeyOf(new[l])
      PROVE  j = l
  BY <1>1, <1>2, <1>4 DEF UniqueKeys
<1> HIDE DEF new
<1> QED
  BY <1>3, <1>4 DEF UniqueKeys, new, row

LEMMA UpdateInventoryBalances ==
  ASSUME StockInv, NEW r \in Requests, UpdateInventory(r) PROVE TxBalanced(r)'
<1> DEFINE p   == op[r]
           db  == work[r]
           row == PatchedRow(p, db.stock[p.id])
           c   == IF "quantity" \in p.fields THEN Claim(p.id, "to", row.qty) ELSE NoClaim
           new == [db EXCEPT !.stock = Put(@, p.id, row)]
<1>1. Inv
  BY DEF StockInv, TxInv
<1>2. CASE Refuse(r, "404") \/ Refuse(r, "422") \/ Refuse(r, "409")
  BY <1>1, <1>2, RefuseBalances
<1>3. CASE /\ pc[r] = "open"
           /\ p.id \in DOMAIN db.stock
           /\ ~PatchClash(p, db.stock)
           /\ Handled(r, new, c)
  <2>1. /\ UniqueKeys(db.stock) /\ Amounts(db.stock) = book
        /\ book = Charge(book, NoClaim)
    BY <1>3, OpenedOn
  <2>2. new.stock = Put(db.stock, p.id, row)
    BY <1>1, WorkType DEF IsDb
  <2>3. UniqueKeys(new.stock)
    BY <1>3, <2>1, <2>2, PatchKeepsKeys
  <2>4. Amounts(new.stock) = Charge(book, c)
    <3>1. CASE "quantity" \in p.fields
      BY <1>3, <2>1, <2>2, <3>1, ChargeTo
    <3>2. CASE "quantity" \notin p.fields
      <4>1. row.qty = db.stock[p.id].qty
        BY <3>2 DEF PatchedRow
      <4> HIDE DEF row
      <4>2. Put(db.stock, p.id, row)
              = [j \in DOMAIN db.stock |-> IF j = p.id THEN row ELSE db.stock[j]]
        BY <1>3 DEF Put
      <4>3. Amounts(new.stock) = Amounts(db.stock)
        BY <2>2, <4>1, <4>2 DEF Amounts
      <4> QED
        BY <2>1, <3>2, <4>3
    <3> QED
      BY <3>1, <3>2
  <2> HIDE DEF new, c
  <2> QED
    BY <1>1, <1>3, <2>3, <2>4, HandledBalances
<1> QED
  BY <1>2, <1>3 DEF UpdateInventory, Running

LEMMA DeleteInventoryBalances ==
  ASSUME StockInv, NEW r \in Requests, DeleteInventory(r) PROVE TxBalanced(r)'
<1> DEFINE i   == op[r].id
           db  == work[r]
           new == [db EXCEPT !.stock = Drop(@, {i})]
<1>1. Inv
  BY DEF StockInv, TxInv
<1>2. CASE Refuse(r, "404")
  BY <1>1, <1>2, RefuseBalances
<1>3. CASE pc[r] = "open" /\ i \in DOMAIN db.stock /\ Handled(r, new, Claim(i, "gone", 0))
  <2>1. UniqueKeys(db.stock) /\ Amounts(db.stock) = book
    BY <1>3, OpenedOn
  <2>2. new.stock = Drop(db.stock, {i})
    BY <1>1, WorkType DEF IsDb
  <2>3. Amounts(new.stock) = Charge(book, Claim(i, "gone", 0))
    BY <1>3, <2>1, <2>2, ChargeGone
  <2>4. UniqueKeys(new.stock)
    BY <2>1, <2>2 DEF UniqueKeys, Drop, Restrict
  <2> HIDE DEF new
  <2> QED
    BY <1>1, <1>3, <2>3, <2>4, HandledBalances
<1> QED
  BY <1>2, <1>3 DEF DeleteInventory, Running

-----------------------------------------------------------------------------
(* The loops.                                                               *)

\* What a turn of a loop starts from: the claims made so far are on the stock.
LEMMA InLoopOn ==
  ASSUME StockInv, NEW r \in Requests, pc[r] = "looping"
  PROVE  /\ UniqueKeys(work[r].stock)
         /\ Amounts(work[r].stock) = Charge(book, claim[r])
         /\ \A i \in DOMAIN claim[r] : claim[r][i].how = "by"
         /\ op[r].kind = "cook" =>
              \A k \in todo[r] : QtyOf(work[r].stock, k) = work[r].logs[r].drawn[k].before
  BY DEF StockInv, Balanced, TxBalanced

LEMMA LoopDoneBalances ==
  ASSUME StockInv, NEW r \in Requests, LoopDone(r) PROVE TxBalanced(r)'
<1>1. pc'[r] = "handled" /\ work' = work /\ claim' = claim /\ book' = book
  BY DEF LoopDone, StockInv, TxInv, Inv, TypeOK, histVars
<1>2. pc[r] = "looping"
  BY DEF LoopDone
<1> QED
  BY <1>1, <1>2, InLoopOn DEF TxBalanced

\* The books after a claim of n more on account i: what both loops do.
LEMMA LoopCredits ==
  ASSUME StockInv, NEW r \in Requests, pc[r] = "looping",
         NEW i \in Ids, NEW n \in Int, NEW stock,
         Amounts(stock) = Credit(Amounts(work[r].stock), i, n)
  PROVE  /\ Amounts(stock) = Charge(book, More(claim[r], i, n))
         /\ \A j \in DOMAIN More(claim[r], i, n) : More(claim[r], i, n)[j].how = "by"
<1>1. book \in [DOMAIN book -> Int] /\ IsClaim(claim[r])
  BY DEF StockInv, TxInv, Inv, TypeOK
<1>2. /\ Amounts(work[r].stock) = Charge(book, claim[r])
      /\ \A j \in DOMAIN claim[r] : claim[r][j].how = "by"
  BY InLoopOn
<1> QED
  BY <1>1, <1>2, ChargeMore

LEMMA SubmitBalances ==
  ASSUME StockInv, NEW r \in Requests, Submit(r) PROVE TxBalanced(r)'
<1> DEFINE rest == LinesOf(work[r], op[r].list)
<1>1. Inv
  BY DEF StockInv, TxInv
<1>2. CASE Refuse(r, "404") \/ Refuse(r, "409")
  BY <1>1, <1>2, RefuseBalances
<1>3. CASE pc[r] = "open" /\ op[r].kind = "submit" /\ Looping(r, work[r], rest)
  BY <1>1, <1>3, OpenedOn, LoopingBalances
<1> QED
  BY <1>2, <1>3 DEF Submit, Running

LEMMA CreateListBalances ==
  ASSUME StockInv, NEW r \in Requests, CreateList(r) PROVE TxBalanced(r)'
<1>1. Inv
  BY DEF StockInv, TxInv
<1>2. CASE Refuse(r, "422")
  BY <1>1, <1>2, RefuseBalances
<1>3. ASSUME NEW lists, NEW rest, pc[r] = "open", op[r].kind = "create_list",
             Looping(r, [work[r] EXCEPT !.lists = lists], rest)
      PROVE  TxBalanced(r)'
  <2>1. [work[r] EXCEPT !.lists = lists].stock = work[r].stock
    BY <1>1, WorkType DEF IsDb
  <2> QED
    BY <1>1, <1>3, <2>1, OpenedOn, LoopingBalances
<1> QED
  BY <1>2, <1>3 DEF CreateList, Running

LEMMA InsertLineBalances ==
  ASSUME StockInv, NEW r \in Requests, InsertLine(r) PROVE TxBalanced(r)'
<1>1. Inv
  BY DEF StockInv, TxInv
<1>2. ASSUME NEW lines, NEW rest, pc[r] = "looping", op[r].kind = "create_list",
             Looping(r, [work[r] EXCEPT !.lines = lines], rest)
      PROVE  TxBalanced(r)'
  <2>1. [work[r] EXCEPT !.lines = lines].stock = work[r].stock
    BY <1>1, WorkType DEF IsDb
  <2> QED
    BY <1>1, <1>2, <2>1, InLoopOn, LoopingBalances
<1> QED
  BY <1>2 DEF InsertLine, InLoop

LEMMA SubmitLineBalances ==
  ASSUME StockInv, NEW r \in Requests, SubmitLine(r) PROVE TxBalanced(r)'
<1> DEFINE db   == work[r]
           i    == Min(todo[r])
           line == db.lines[i]
           k    == AddKey(Norm[line.item], line.unit)
           add  == AddBase(line.qty, line.unit)
           row  == UpsertId(db.stock, k)
           lines == Put(db.lines, i, [line EXCEPT !.frozen = TRUE, !.applied = add])
           left == [db EXCEPT !.stock = Upsert(@, k, add), !.lines = lines]
<1>1. Inv /\ pc[r] = "looping" /\ op[r].kind = "submit"
  BY DEF StockInv, TxInv, SubmitLine, InLoop
<1>2. CASE Refuse(r, "409")
  BY <1>1, <1>2, RefuseBalances
<1>3. CASE Looping(r, db, todo[r] \ {i})
  BY <1>1, <1>3, InLoopOn, LoopingBalances
<1>4. CASE /\ Eligible(line)
           /\ Storable(QtyOf(db.stock, k) + add)
           /\ work' = [work EXCEPT ![r] = left]
           /\ claim' = [claim EXCEPT ![r] = More(@, row, add)]
           /\ UNCHANGED <<pc, op, histVars>>
  <2>1. line \in GroceryLine
    <3>1. todo[r] # {} /\ todo[r] \subseteq DOMAIN db.lines
      BY <1>1 DEF SubmitLine, Inv, LoopsInBounds, LoopBounds
    <3>2. DOMAIN db.lines \in SUBSET Ids /\ IsFiniteSet(DOMAIN db.lines)
      BY <1>1, WorkType DEF IsTable
    <3>3. todo[r] \in SUBSET Nat /\ IsFiniteSet(todo[r])
      BY <3>1, <3>2, FS_Subset DEF Ids
    <3>4. i \in DOMAIN db.lines
      BY <3>1, <3>3, MinIsElement
    <3> QED
      BY <1>1, <3>4, WorkType DEF IsTable
  <2>2. line.item \in Items /\ line.unit \in Units /\ line.qty \in Nat
    BY <1>4, <2>1 DEF Eligible, GroceryLine
  <2>3. k \in Keys /\ add \in Nat
    BY <2>2, AddKeyType, AddBaseType
  <2>4. row \in Ids
    BY <1>1, <1>4, <2>3, WorkType, UpsertType
  <2>5. UniqueKeys(db.stock) /\ IsTable(db.stock, StockRow)
    BY <1>1, InLoopOn, WorkType
  <2> HIDE DEF k, add, lines
  <2>6. left.stock = Upsert(db.stock, k, add)
    BY <1>1, WorkType DEF IsDb
  <2>7. /\ Amounts(left.stock) = Credit(Amounts(db.stock), row, add)
        /\ UniqueKeys(left.stock)
    BY <2>3, <2>5, <2>6, UpsertBooks
  <2> HIDE DEF left, row
  <2>8. /\ Amounts(left.stock) = Charge(book, More(claim[r], row, add))
        /\ \A j \in DOMAIN More(claim[r], row, add) : More(claim[r], row, add)[j].how = "by"
    BY <1>1, <2>3, <2>4, <2>7, LoopCredits
  <2>9. work'[r] = left /\ claim'[r] = More(claim[r], row, add) /\ book' = book
    BY <1>1, <1>4 DEF Inv, TypeOK, histVars
  <2> QED
    BY <1>1, <1>4, <2>7, <2>8, <2>9 DEF TxBalanced
<1> QED
  BY <1>2, <1>3, <1>4 DEF SubmitLine, LineOverflows

LEMMA CookBalances ==
  ASSUME StockInv, NEW r \in Requests, Cook(r) PROVE TxBalanced(r)'
<1> DEFINE p     == op[r]
           db    == work[r]
           need  == [k \in Keys |-> db.recipes[p.recipe].need[k] * p.times]
           drawn == IF p.deduct THEN Draws(need, db.stock) ELSE NoRows
           log   == [recipe |-> p.recipe, drawn |-> drawn]
           left  == [db EXCEPT !.logs = Put(@, r, log)]
<1>1. Inv
  BY DEF StockInv, TxInv
<1>2. CASE Refuse(r, "404")
  BY <1>1, <1>2, RefuseBalances
<1>3. CASE pc[r] = "open" /\ Looping(r, left, DOMAIN drawn)
  <2>1. \A k \in DOMAIN drawn : drawn[k].before = QtyOf(db.stock, k)
    <3> HIDE DEF need
    <3> QED
      BY DEF Draws, NoRows
  <2> HIDE DEF need, drawn
  <2>2. left.logs = Put(db.logs, r, log) /\ left.stock = db.stock
    BY <1>1, WorkType DEF IsDb
  <2>3. left.logs[r].drawn = drawn
    BY <2>2 DEF Put
  <2> HIDE DEF left
  <2>4. \A k \in DOMAIN drawn : QtyOf(left.stock, k) = left.logs[r].drawn[k].before
    BY <2>1, <2>2, <2>3
  <2> QED
    BY <1>1, <1>3, <2>2, <2>4, OpenedOn, LoopingBalances
<1> QED
  BY <1>2, <1>3 DEF Cook, Running

\* A draw is claimed as the difference of the amounts the log tells; it is the
\* difference the stock sees, because the row still holds what was proposed.
LEMMA CookRowBalances ==
  ASSUME StockInv, NEW r \in Requests, CookRow(r) PROVE TxBalanced(r)'
<1> DEFINE k    == CHOOSE x \in todo[r] : TRUE
           db   == work[r]
           draw == db.logs[r].drawn[k]
           i    == TargetOf(db.stock, k)
           row  == [db.stock[i] EXCEPT !.qty = draw.after]
           left == [db EXCEPT !.stock = Put(@, i, row)]
           n    == draw.after - draw.before
<1>1. Inv /\ pc[r] = "looping" /\ op[r].kind = "cook"
  BY DEF StockInv, TxInv, CookRow, InLoop
<1>2. /\ pc' = pc /\ op' = op /\ book' = book
      /\ work'[r] = left /\ claim'[r] = More(claim[r], i, n) /\ todo'[r] = todo[r] \ {k}
  BY DEF StockInv, TxInv, Inv, TypeOK, CookRow, histVars
<1>3. /\ r \in DOMAIN db.logs
      /\ k \in todo[r] /\ k \in DOMAIN db.logs[r].drawn
      /\ \A x \in todo[r] : HasKey(db.stock, x)
  BY <1>1 DEF CookRow, Inv, LoopsInBounds, LoopBounds
<1> HIDE DEF k
<1>4. draw.before \in Nat /\ draw.after \in Nat
  <2>1. IsLog(db.logs[r])
    BY <1>1, <1>3, WorkType
  <2>2. draw \in Draw
    BY <1>3, <2>1 DEF IsLog
  <2> QED
    BY <2>2 DEF Draw
<1>5. i \in DOMAIN db.stock /\ i \in Ids /\ KeyOf(db.stock[i]) = k
  BY <1>1, <1>3, IdOfType, WorkType DEF TargetOf, IsTable
<1>6. db.stock[i].qty = draw.before
  <2>1. QtyOf(db.stock, k) = draw.before
    BY <1>1, <1>3, InLoopOn
  <2> QED
    BY <1>3, <2>1 DEF QtyOf, TargetOf
<1> HIDE DEF draw, i
<1>7. row.qty = draw.after /\ KeyOf(row) = k
  <2>1. db.stock[i] \in StockRow
    BY <1>1, <1>5, WorkType DEF IsTable
  <2> QED
    BY <1>5, <2>1 DEF StockRow, KeyOf
<1> HIDE DEF row
<1>8. left.stock = Put(db.stock, i, row) /\ left.logs = db.logs
  BY <1>1, WorkType DEF IsDb
<1> HIDE DEF left
<1>9. UniqueKeys(db.stock)
  BY <1>1, InLoopOn
<1>10. /\ Amounts(left.stock) = Credit(Amounts(db.stock), i, n)
       /\ UniqueKeys(left.stock)
       /\ \A x : x # k => QtyOf(left.stock, x) = QtyOf(db.stock, x)
  BY <1>4, <1>5, <1>6, <1>7, <1>8, <1>9, SetBooks
<1>11. n \in Int
  BY <1>4
<1> HIDE DEF n
<1>12. /\ Amounts(left.stock) = Charge(book, More(claim[r], i, n))
       /\ \A j \in DOMAIN More(claim[r], i, n) : More(claim[r], i, n)[j].how = "by"
  BY <1>1, <1>5, <1>10, <1>11, LoopCredits
<1>13. \A x \in todo[r] \ {k} : QtyOf(left.stock, x) = left.logs[r].drawn[x].before
  BY <1>1, <1>3, <1>8, <1>10, InLoopOn
<1> QED
  BY <1>1, <1>2, <1>10, <1>12, <1>13 DEF TxBalanced

LEMMA HandlerBalances ==
  ASSUME StockInv, NEW r \in Requests, Handler(r) PROVE TxBalanced(r)'
<1>1. CASE \/ Unauthenticated(r) \/ Read(r) \/ DeleteList(r) \/ Archive(r)
           \/ AddLine(r) \/ UpdateLine(r) \/ DeleteLine(r)
           \/ CreateRecipe(r) \/ UpdateRecipe(r) \/ DeleteRecipe(r)
  BY <1>1, ReadersBalance
<1>2. CASE AddInventory(r) \/ UpdateInventory(r) \/ DeleteInventory(r)
  BY <1>2, AddInventoryBalances, UpdateInventoryBalances, DeleteInventoryBalances
<1>3. CASE Submit(r) \/ SubmitLine(r) \/ Cook(r) \/ CookRow(r)
  BY <1>3, SubmitBalances, SubmitLineBalances, CookBalances, CookRowBalances
<1>4. CASE CreateList(r) \/ InsertLine(r) \/ LoopDone(r)
  BY <1>4, CreateListBalances, InsertLineBalances, LoopDoneBalances
<1> QED
  BY <1>1, <1>2, <1>3, <1>4 DEF Handler

-----------------------------------------------------------------------------
(* The whole system.                                                        *)

LEMMA CommitBalances ==
  ASSUME StockInv, NEW r \in Requests, Commit(r) PROVE Balanced'
<1>1. /\ pc[r] = "handled" /\ disk' = work[r] /\ book' = Charge(book, claim[r])
      /\ pc' = [pc EXCEPT ![r] = "committed"]
  BY DEF Commit
<1>2. UniqueKeys(work[r].stock) /\ Amounts(work[r].stock) = Charge(book, claim[r])
  BY <1>1 DEF StockInv, Balanced, TxBalanced
<1>3. \A q \in Requests : pc'[q] \notin Active
  BY <1>1 DEF StockInv, TxInv, Exclusive, Inv, TypeOK, Active
<1>4. \A q \in Requests : TxBalanced(q)'
  <2>1. pc'[r] = "committed" /\ \A q \in Requests \ {r} : pc'[q] = pc[q] /\ claim'[q] = claim[q]
    BY DEF Commit, StockInv, TxInv, Inv, TypeOK
  <2> QED
    BY <1>3, <2>1 DEF StockInv, Balanced, TxBalanced, Active
<1>5. NoLostUpdate' /\ UniqueKeys(disk.stock)'
  BY <1>1, <1>2 DEF NoLostUpdate
<1> QED
  BY <1>4, <1>5 DEF Balanced

LEMMA StockNext == StockInv /\ [Next]_vars => StockInv'
<1> SUFFICES ASSUME StockInv, [Next]_vars PROVE StockInv'
  OBVIOUS
<1>1. TxInv'
  BY TxNext DEF StockInv
<1>2. SUFFICES Balanced'
  BY <1>1 DEF StockInv
<1>3. Inv /\ TypeOK
  BY DEF StockInv, TxInv, Inv
\* A step that leaves the books alone and opens no transaction.
<1>4. ASSUME UNCHANGED <<disk, book>>,
             \A q \in Requests : \/ pc'[q] \in {"committed", "answered"}
                                 \/ /\ pc[q] = "idle" /\ pc'[q] = "waiting"
                                    /\ claim'[q] = claim[q]
                                 \/ /\ pc'[q] = pc[q] /\ op'[q] = op[q]
                                    /\ work'[q] = work[q] /\ todo'[q] = todo[q]
                                    /\ claim'[q] = claim[q]
      PROVE  Balanced'
  <2>1. NoLostUpdate' /\ UniqueKeys(disk.stock)'
    BY <1>4 DEF StockInv, Balanced, NoLostUpdate
  <2>2. \A q \in Requests : TxBalanced(q)'
    BY <1>4 DEF StockInv, Balanced, TxBalanced, Active
  <2> QED
    BY <2>1, <2>2 DEF Balanced
<1>5. ASSUME NEW r \in Requests, Handler(r) \/ Begin(r) PROVE Balanced'
  <2>1. /\ UNCHANGED <<disk, book, op>>
        /\ \A q \in Requests \ {r} :
             /\ pc'[q] = pc[q] /\ work'[q] = work[q] /\ todo'[q] = todo[q]
             /\ claim'[q] = claim[q]
    BY <1>3, <1>5, HandlerShape DEF Begin, TypeOK, histVars
  <2>2. TxBalanced(r)'
    <3>1. CASE Handler(r)
      BY <3>1, HandlerBalances
    <3>2. CASE Begin(r)
      <4>1. claim[r] = NoClaim
        BY <3>2 DEF StockInv, Balanced, TxBalanced, Begin
      <4> QED
        BY <3>2, <4>1, <1>3 DEF Begin, TypeOK, TxBalanced
    <3> QED
      BY <1>5, <3>1, <3>2
  <2>3. \A q \in Requests \ {r} : TxBalanced(q)'
    BY <2>1 DEF StockInv, Balanced, TxBalanced
  <2>4. NoLostUpdate' /\ UniqueKeys(disk.stock)'
    BY <2>1 DEF StockInv, Balanced, NoLostUpdate
  <2> QED
    BY <2>2, <2>3, <2>4 DEF Balanced
<1>6. ASSUME NEW r \in Requests, Send(r) PROVE Balanced'
  <2>1. \A q \in Requests \ {r} : pc'[q] = pc[q] /\ op'[q] = op[q]
    BY <1>3, <1>6 DEF Send, TypeOK
  <2>2. pc[r] = "idle" /\ pc'[r] = "waiting"
    BY <1>3, <1>6 DEF Send, TypeOK
  <2> QED
    BY <1>4, <1>6, <2>1, <2>2 DEF Send, histVars
<1>7. ASSUME NEW r \in Requests, BusyTimeout(r) \/ CommitBusy(r) \/ Respond(r)
      PROVE  Balanced'
  <2>1. pc'[r] = "answered"
    BY <1>3, <1>7 DEF BusyTimeout, CommitBusy, Refuse, Respond, TypeOK
  <2>2. \A q \in Requests \ {r} : /\ pc'[q] = pc[q] /\ work'[q] = work[q]
                                  /\ todo'[q] = todo[q] /\ claim'[q] = claim[q]
    BY <1>3, <1>7 DEF BusyTimeout, CommitBusy, Refuse, Respond, TypeOK
  <2>3. UNCHANGED <<disk, book, op>>
    BY <1>7 DEF BusyTimeout, CommitBusy, Refuse, Respond, histVars
  <2> QED
    BY <1>4, <2>1, <2>2, <2>3
<1>8. CASE Crash
  <2>1. \A q \in Requests : pc'[q] \in {"idle", "answered"} /\ claim'[q] = NoClaim
    BY <1>3, <1>8 DEF Crash, TypeOK
  <2>2. \A q \in Requests : TxBalanced(q)'
    BY <2>1 DEF TxBalanced
  <2> QED
    BY <1>8, <2>2 DEF Crash, histVars, StockInv, Balanced, NoLostUpdate
<1>9. CASE BackupStart \/ BackupEnd \/ UNCHANGED vars
  BY <1>4, <1>9 DEF BackupStart, BackupEnd, vars, txVars, histVars
<1> QED
  BY <1>5, <1>6, <1>7, <1>8, <1>9, CommitBalances DEF Next, Serve

\* Lost updates are impossible: the stock on disk is what the committed requests
\* told their clients, added up, for any requests, items, units and amounts
\* (the BEGIN IMMEDIATE transactions of database.py).
THEOREM NothingLost == Spec => []NoLostUpdate
<1>1. StockInv => NoLostUpdate
  BY DEF StockInv, Balanced
<1> QED
  BY <1>1, StockInit, StockNext, PTL DEF Spec
-----------------------------------------------------------------------------
(* The constraints of the schema.  That every row a handler links to is still  *)
(* there when it commits is what the write lock is worth to the foreign keys.  *)

\* The links of an open transaction: those of its tables, and those of the
\* generated lines the flush has still to insert.
TxLinked(r) ==
  pc[r] \in Active =>
    /\ ForeignKeys(work[r])
    /\ pc[r] = "looping" /\ op[r].kind = "create_list" =>
         \A line \in todo[r] : line.list \in DOMAIN work[r].lists

Linked == ForeignKeys(disk) /\ \A r \in Requests : TxLinked(r)

LinkInv == StockInv /\ Linked

LEMMA LinkInit == Init => LinkInv
<1> SUFFICES ASSUME Init PROVE LinkInv
  OBVIOUS
<1>1. \A r \in Requests : TxLinked(r)
  BY DEF Init, TxLinked, Active
<1>2. ForeignKeys(disk)
  BY SeedAssumption DEF Init
<1> QED
  BY <1>1, <1>2, StockInit DEF LinkInv, Linked

-----------------------------------------------------------------------------
(* The ways a step of a handler ends, for the links.                        *)

LEMMA RefuseLinks ==
  ASSUME Inv, NEW r \in Requests, NEW status, Refuse(r, status) PROVE TxLinked(r)'
<1>1. pc'[r] = "answered"
  BY DEF Refuse, Inv, TypeOK
<1> QED
  BY <1>1 DEF TxLinked, Active

LEMMA HandledLinks ==
  ASSUME Inv, NEW r \in Requests, NEW db, NEW c, Handled(r, db, c), ForeignKeys(db)
  PROVE  TxLinked(r)'
<1>1. pc'[r] = "handled" /\ work'[r] = db
  BY DEF Handled, Inv, TypeOK
<1> QED
  BY <1>1 DEF TxLinked

LEMMA LoopingLinks ==
  ASSUME Inv, NEW r \in Requests, NEW db, NEW rest, Looping(r, db, rest), ForeignKeys(db),
         op[r].kind = "create_list" => \A line \in rest : line.list \in DOMAIN db.lists
  PROVE  TxLinked(r)'
<1>1. pc'[r] = "looping" /\ work'[r] = db /\ todo'[r] = rest /\ op' = op
  BY DEF Looping, Inv, TypeOK
<1> QED
  BY <1>1 DEF TxLinked

\* What a handler may rely on.
LEMMA LinkedOn ==
  ASSUME LinkInv, NEW r \in Requests, pc[r] \in {"open", "looping"}
  PROVE  Inv /\ IsDb(work[r]) /\ ForeignKeys(work[r])
<1>1. Inv
  BY DEF LinkInv, StockInv, TxInv
<1> QED
  BY <1>1, WorkType DEF LinkInv, Linked, TxLinked, Active

-----------------------------------------------------------------------------
(* Statements that keep the foreign keys.                                   *)

LEMMA StockKeepsLinks ==
  ASSUME NEW db, IsDb(db), ForeignKeys(db), NEW stock
  PROVE  ForeignKeys([db EXCEPT !.stock = stock])
<1> DEFINE new == [db EXCEPT !.stock = stock]
<1>1. new.lists = db.lists /\ new.lines = db.lines
  BY DEF IsDb
<1>2. new.recipes = db.recipes /\ new.logs = db.logs
  BY DEF IsDb
<1> HIDE DEF new
<1>3. ForeignKeys(new)
  BY <1>1, <1>2 DEF ForeignKeys
<1> QED
  BY <1>3 DEF new

\* A line put into a list that is there.
LEMMA PutLineKeepsLinks ==
  ASSUME NEW db, IsDb(db), ForeignKeys(db), NEW i, NEW line, line.list \in DOMAIN db.lists
  PROVE  ForeignKeys([db EXCEPT !.lines = Put(@, i, line)])
<1> DEFINE new == [db EXCEPT !.lines = Put(@, i, line)]
<1>1. new.lists = db.lists /\ new.lines = Put(db.lines, i, line)
  BY DEF IsDb
<1>2. new.recipes = db.recipes /\ new.logs = db.logs
  BY DEF IsDb
<1> HIDE DEF new
<1>3. \A j \in DOMAIN new.lines : new.lines[j].list \in DOMAIN new.lists
  BY <1>1 DEF Put, ForeignKeys
<1>4. ForeignKeys(new)
  BY <1>2, <1>3 DEF ForeignKeys
<1> QED
  BY <1>4 DEF new

LEMMA PutListKeepsLinks ==
  ASSUME NEW db, IsDb(db), ForeignKeys(db), NEW l, NEW list
  PROVE  /\ ForeignKeys([db EXCEPT !.lists = Put(@, l, list)])
         /\ l \in DOMAIN [db EXCEPT !.lists = Put(@, l, list)].lists
<1> DEFINE new == [db EXCEPT !.lists = Put(@, l, list)]
<1>1. new.lines = db.lines /\ new.lists = Put(db.lists, l, list)
  BY DEF IsDb
<1>2. new.recipes = db.recipes /\ new.logs = db.logs
  BY DEF IsDb
<1> HIDE DEF new
<1>3. l \in DOMAIN new.lists /\ DOMAIN db.lists \subseteq DOMAIN new.lists
  BY <1>1 DEF Put
<1>4. \A i \in DOMAIN new.lines : new.lines[i].list \in DOMAIN new.lists
  BY <1>1, <1>3 DEF ForeignKeys
<1>5. ForeignKeys(new)
  BY <1>2, <1>4 DEF ForeignKeys
<1> QED
  BY <1>3, <1>5 DEF new

LEMMA DropLineKeepsLinks ==
  ASSUME NEW db, IsDb(db), ForeignKeys(db), NEW S
  PROVE  ForeignKeys([db EXCEPT !.lines = Drop(@, S)])
<1> DEFINE new == [db EXCEPT !.lines = Drop(@, S)]
<1>1. new.lists = db.lists /\ new.lines = Drop(db.lines, S)
  BY DEF IsDb
<1>2. new.recipes = db.recipes /\ new.logs = db.logs
  BY DEF IsDb
<1> HIDE DEF new
<1>3. \A j \in DOMAIN new.lines : new.lines[j].list \in DOMAIN new.lists
  BY <1>1 DEF Drop, Restrict, ForeignKeys
<1>4. ForeignKeys(new)
  BY <1>2, <1>3 DEF ForeignKeys
<1> QED
  BY <1>4 DEF new

\* A list goes with its lines.
LEMMA DropListKeepsLinks ==
  ASSUME NEW db, IsDb(db), ForeignKeys(db), NEW l
  PROVE  ForeignKeys([db EXCEPT !.lists = Drop(@, {l}), !.lines = Drop(@, LinesOf(db, l))])
<1> DEFINE new == [db EXCEPT !.lists = Drop(@, {l}), !.lines = Drop(@, LinesOf(db, l))]
<1>1. new.lists = Drop(db.lists, {l}) /\ new.lines = Drop(db.lines, LinesOf(db, l))
  BY DEF IsDb
<1>2. new.recipes = db.recipes /\ new.logs = db.logs
  BY DEF IsDb
<1> HIDE DEF new
<1>3. DOMAIN new.lists = DOMAIN db.lists \ {l}
  BY <1>1 DEF Drop, Restrict
<1>4. ASSUME NEW j \in DOMAIN new.lines PROVE new.lines[j].list \in DOMAIN new.lists
  <2>1. j \in DOMAIN db.lines /\ j \notin LinesOf(db, l) /\ new.lines[j] = db.lines[j]
    BY <1>1 DEF Drop, Restrict
  <2> QED
    BY <1>3, <2>1 DEF ForeignKeys, LinesOf
<1>5. ForeignKeys(new)
  BY <1>2, <1>4 DEF ForeignKeys
<1> QED
  BY <1>5 DEF new

LEMMA PutRecipeKeepsLinks ==
  ASSUME NEW db, IsDb(db), ForeignKeys(db), NEW i, NEW recipe
  PROVE  ForeignKeys([db EXCEPT !.recipes = Put(@, i, recipe)])
<1> DEFINE new == [db EXCEPT !.recipes = Put(@, i, recipe)]
<1>1. new.lists = db.lists /\ new.lines = db.lines
  BY DEF IsDb
<1>2. new.recipes = Put(db.recipes, i, recipe) /\ new.logs = db.logs
  BY DEF IsDb
<1> HIDE DEF new
<1>3. DOMAIN db.recipes \subseteq DOMAIN new.recipes
  BY <1>2 DEF Put
<1>4. ForeignKeys(new)
  BY <1>1, <1>2, <1>3 DEF ForeignKeys
<1> QED
  BY <1>4 DEF new

\* The logs of a recipe that goes are detached from it.
LEMMA DropRecipeKeepsLinks ==
  ASSUME NEW db, IsDb(db), ForeignKeys(db), NEW i
  PROVE  ForeignKeys([db EXCEPT !.recipes = Drop(@, {i}), !.logs = Detached(@, i)])
<1> DEFINE new == [db EXCEPT !.recipes = Drop(@, {i}), !.logs = Detached(@, i)]
<1>1. new.lists = db.lists /\ new.lines = db.lines
  BY DEF IsDb
<1>2. new.recipes = Drop(db.recipes, {i}) /\ new.logs = Detached(db.logs, i)
  BY DEF IsDb
<1> HIDE DEF new
<1>3. DOMAIN new.recipes = DOMAIN db.recipes \ {i}
  BY <1>2 DEF Drop, Restrict
<1>4. ASSUME NEW q \in DOMAIN new.logs
      PROVE  new.logs[q].recipe \in DOMAIN new.recipes \cup {NoRecipe}
  <2>1. /\ q \in DOMAIN db.logs
        /\ new.logs[q] = IF db.logs[q].recipe = i
                         THEN [db.logs[q] EXCEPT !.recipe = NoRecipe] ELSE db.logs[q]
    BY <1>2 DEF Detached
  <2>2. CASE db.logs[q].recipe = i
    <3>1. db.logs[q] = [recipe |-> db.logs[q].recipe, drawn |-> db.logs[q].drawn]
      BY <2>1 DEF IsDb, IsLog
    <3>2. new.logs[q].recipe = NoRecipe
      BY <2>1, <2>2, <3>1
    <3> QED
      BY <3>2
  <2>3. CASE db.logs[q].recipe # i
    BY <1>3, <2>1, <2>3 DEF ForeignKeys
  <2> QED
    BY <2>2, <2>3
<1>5. ForeignKeys(new)
  BY <1>1, <1>4 DEF ForeignKeys
<1> QED
  BY <1>5 DEF new

\* A log names a recipe that is there.
LEMMA PutLogKeepsLinks ==
  ASSUME NEW db, IsDb(db), ForeignKeys(db), NEW r, NEW log, log.recipe \in DOMAIN db.recipes
  PROVE  ForeignKeys([db EXCEPT !.logs = Put(@, r, log)])
<1> DEFINE new == [db EXCEPT !.logs = Put(@, r, log)]
<1>1. new.lists = db.lists /\ new.lines = db.lines
  BY DEF IsDb
<1>2. new.recipes = db.recipes /\ new.logs = Put(db.logs, r, log)
  BY DEF IsDb
<1> HIDE DEF new
<1>3. \A q \in DOMAIN new.logs : new.logs[q].recipe \in DOMAIN new.recipes \cup {NoRecipe}
  BY <1>2 DEF Put, ForeignKeys
<1>4. ForeignKeys(new)
  BY <1>1, <1>3 DEF ForeignKeys
<1> QED
  BY <1>4 DEF new

-----------------------------------------------------------------------------
(* The handlers.                                                            *)

LEMMA StockHandlersLink ==
  ASSUME LinkInv, NEW r \in Requests,
         \/ Unauthenticated(r) \/ Read(r)
         \/ AddInventory(r) \/ UpdateInventory(r) \/ DeleteInventory(r)
  PROVE  TxLinked(r)'
<1>1. pc[r] = "open"
  BY DEF Unauthenticated, Read, AddInventory, UpdateInventory, DeleteInventory, Running
<1>2. Inv /\ IsDb(work[r]) /\ ForeignKeys(work[r])
  BY <1>1, LinkedOn
<1>3. ASSUME NEW status, Refuse(r, status) PROVE TxLinked(r)'
  BY <1>2, <1>3, RefuseLinks
<1>4. ASSUME NEW stock, NEW c, Handled(r, [work[r] EXCEPT !.stock = stock], c)
      PROVE  TxLinked(r)'
  BY <1>2, <1>4, StockKeepsLinks, HandledLinks
<1>5. CASE Unauthenticated(r) \/ Read(r)
  BY <1>2, <1>3, <1>5, HandledLinks DEF Unauthenticated, Read
<1>6. CASE AddInventory(r)
  BY <1>3, <1>4, <1>6 DEF AddInventory
<1>7. CASE UpdateInventory(r)
  BY <1>3, <1>4, <1>7 DEF UpdateInventory
<1>8. CASE DeleteInventory(r)
  BY <1>3, <1>4, <1>8 DEF DeleteInventory
<1> QED
  BY <1>5, <1>6, <1>7, <1>8

LEMMA LineHandlersLink ==
  ASSUME LinkInv, NEW r \in Requests, AddLine(r) \/ UpdateLine(r) \/ DeleteLine(r)
  PROVE  TxLinked(r)'
<1> DEFINE p  == op[r]
           db == work[r]
<1>1. pc[r] = "open"
  BY DEF AddLine, UpdateLine, DeleteLine, Running
<1>2. Inv /\ IsDb(db) /\ ForeignKeys(db)
  BY <1>1, LinkedOn
<1>3. ASSUME NEW status, Refuse(r, status) PROVE TxLinked(r)'
  BY <1>2, <1>3, RefuseLinks
<1>4. ASSUME NEW i, NEW line, line.list \in DOMAIN db.lists,
             Handled(r, [db EXCEPT !.lines = Put(@, i, line)], NoClaim)
      PROVE  TxLinked(r)'
  BY <1>2, <1>4, PutLineKeepsLinks, HandledLinks
<1>5. CASE AddLine(r)
  <2>1. NewLine(p.list, p.item, p.unit, p.amount, "manual", TRUE).list = p.list
    BY DEF NewLine
  <2> QED
    BY <1>3, <1>4, <1>5, <2>1 DEF AddLine
<1>6. CASE UpdateLine(r)
  <2>1. CASE /\ ~LineMissing(db, p.list, p.id)
             /\ Handled(r, [db EXCEPT !.lines =
                              Put(@, p.id, EditedLine(p, db.lines[p.id]))], NoClaim)
    <3>1. p.id \in DOMAIN db.lines /\ db.lines[p.id].list \in DOMAIN db.lists
      BY <1>2, <2>1 DEF LineMissing, LinesOf, ForeignKeys
    <3>2. db.lines[p.id] \in GroceryLine
      BY <1>2, <3>1 DEF IsDb, IsTable
    <3>3. EditedLine(p, db.lines[p.id]).list = db.lines[p.id].list
      BY <3>2 DEF EditedLine, GroceryLine
    <3> QED
      BY <1>4, <2>1, <3>1, <3>3
  <2> QED
    BY <1>3, <1>6, <2>1 DEF UpdateLine
<1>7. CASE DeleteLine(r)
  <2>1. ForeignKeys([db EXCEPT !.lines = Drop(@, {p.id})])
    BY <1>2, DropLineKeepsLinks
  <2> QED
    BY <1>2, <1>3, <1>7, <2>1, HandledLinks DEF DeleteLine
<1> QED
  BY <1>5, <1>6, <1>7

LEMMA ListHandlersLink ==
  ASSUME LinkInv, NEW r \in Requests, Archive(r) \/ DeleteList(r) \/ Submit(r) \/ CreateList(r)
  PROVE  TxLinked(r)'
<1> DEFINE p  == op[r]
           db == work[r]
<1>1. pc[r] = "open"
  BY DEF Archive, DeleteList, Submit, CreateList, Running
<1>2. Inv /\ IsDb(db) /\ ForeignKeys(db)
  BY <1>1, LinkedOn
<1>3. ASSUME NEW status, Refuse(r, status) PROVE TxLinked(r)'
  BY <1>2, <1>3, RefuseLinks
<1>4. CASE Archive(r)
  <2>1. ForeignKeys([db EXCEPT !.lists = Put(@, p.list, [status |-> "archived"])])
    BY <1>2, PutListKeepsLinks
  <2> QED
    BY <1>2, <1>3, <1>4, <2>1, HandledLinks DEF Archive
<1>5. CASE DeleteList(r)
  <2>1. ForeignKeys([db EXCEPT !.lists = Drop(@, {p.list}),
                               !.lines = Drop(@, LinesOf(db, p.list))])
    BY <1>2, DropListKeepsLinks
  <2> QED
    BY <1>2, <1>3, <1>5, <2>1, HandledLinks DEF DeleteList
<1>6. CASE Submit(r)
  BY <1>2, <1>3, <1>6, LoopingLinks DEF Submit, Running
<1>7. CASE CreateList(r)
  <2> DEFINE l    == NextId(db.lists)
             new  == [db EXCEPT !.lists = Put(@, l, [status |-> "active"])]
             rest == GeneratedLines(l, TotalNeed(p, db), TotalTaste(p, db), db.stock)
  <2>1. ForeignKeys(new) /\ l \in DOMAIN new.lists
    BY <1>2, PutListKeepsLinks
  <2>2. \A line \in rest : line.list = l
    BY DEF GeneratedLines, NewLine
  <2>3. Refuse(r, "422") \/ Looping(r, new, rest)
    BY <1>7 DEF CreateList
  <2> HIDE DEF l, new, rest
  <2> QED
    BY <1>2, <1>3, <2>1, <2>2, <2>3, LoopingLinks
<1> QED
  BY <1>4, <1>5, <1>6, <1>7

LEMMA RecipeHandlersLink ==
  ASSUME LinkInv, NEW r \in Requests,
         CreateRecipe(r) \/ UpdateRecipe(r) \/ DeleteRecipe(r) \/ Cook(r)
  PROVE  TxLinked(r)'
<1> DEFINE p  == op[r]
           db == work[r]
<1>1. pc[r] = "open"
  BY DEF CreateRecipe, UpdateRecipe, DeleteRecipe, Cook, Running
<1>2. Inv /\ IsDb(db) /\ ForeignKeys(db)
  BY <1>1, LinkedOn
<1>3. ASSUME NEW status, Refuse(r, status) PROVE TxLinked(r)'
  BY <1>2, <1>3, RefuseLinks
<1>4. CASE CreateRecipe(r) \/ UpdateRecipe(r)
  <2>1. ASSUME NEW i, Handled(r, [db EXCEPT !.recipes = Put(@, i, p.recipe)], NoClaim)
        PROVE  TxLinked(r)'
    BY <1>2, <2>1, PutRecipeKeepsLinks, HandledLinks
  <2> QED
    BY <1>3, <1>4, <2>1 DEF CreateRecipe, UpdateRecipe
<1>5. CASE DeleteRecipe(r)
  <2>1. ForeignKeys([db EXCEPT !.recipes = Drop(@, {p.id}), !.logs = Detached(@, p.id)])
    BY <1>2, DropRecipeKeepsLinks
  <2> QED
    BY <1>2, <1>3, <1>5, <2>1, HandledLinks DEF DeleteRecipe
<1>6. CASE Cook(r)
  <2>1. ASSUME NEW drawn, NEW rest, p.kind = "cook", p.recipe \in DOMAIN db.recipes,
               Looping(r, [db EXCEPT !.logs =
                             Put(@, r, [recipe |-> p.recipe, drawn |-> drawn])], rest)
        PROVE  TxLinked(r)'
    <3> DEFINE log == [recipe |-> p.recipe, drawn |-> drawn]
    <3>1. log.recipe \in DOMAIN db.recipes
      BY <2>1
    <3> HIDE DEF log
    <3>2. ForeignKeys([db EXCEPT !.logs = Put(@, r, log)])
      BY <1>2, <3>1, PutLogKeepsLinks
    <3> QED
      BY <1>2, <2>1, <3>2, LoopingLinks DEF log
  <2> QED
    BY <1>3, <1>6, <2>1 DEF Cook, Running
<1> QED
  BY <1>4, <1>5, <1>6

LEMMA LoopsLink ==
  ASSUME LinkInv, NEW r \in Requests,
         InsertLine(r) \/ SubmitLine(r) \/ CookRow(r) \/ LoopDone(r)
  PROVE  TxLinked(r)'
<1> DEFINE db == work[r]
<1>1. pc[r] = "looping"
  BY DEF InsertLine, SubmitLine, CookRow, LoopDone, InLoop
<1>2. Inv /\ IsDb(db) /\ ForeignKeys(db)
  BY <1>1, LinkedOn
<1>3. op[r].kind = "create_list" => \A line \in todo[r] : line.list \in DOMAIN db.lists
  BY <1>1 DEF LinkInv, Linked, TxLinked, Active
<1>4. CASE LoopDone(r)
  <2>1. pc'[r] = "handled" /\ work' = work
    BY <1>2, <1>4 DEF LoopDone, Inv, TypeOK
  <2> QED
    BY <1>2, <2>1 DEF TxLinked
<1>5. CASE InsertLine(r)
  <2>1. PICK line \in todo[r] :
          Looping(r, [db EXCEPT !.lines = Put(@, NextId(@), line)], todo[r] \ {line})
    BY <1>5 DEF InsertLine
  <2> DEFINE new == [db EXCEPT !.lines = Put(@, NextId(@), line)]
  <2>2. line.list \in DOMAIN db.lists
    BY <1>3, <1>5 DEF InsertLine, InLoop
  <2>3. ForeignKeys(new)
    BY <1>2, <2>2, PutLineKeepsLinks
  <2>4. new.lists = db.lists
    BY <1>2 DEF IsDb
  <2> HIDE DEF new
  <2>5. op[r].kind = "create_list" =>
          \A x \in todo[r] \ {line} : x.list \in DOMAIN new.lists
    BY <1>3, <2>4
  <2> QED
    BY <1>2, <2>1, <2>3, <2>5, LoopingLinks DEF new
<1>6. CASE CookRow(r)
  <2>1. \E stock : work'[r] = [db EXCEPT !.stock = stock]
    BY <1>2, <1>6 DEF CookRow, Inv, TypeOK
  <2>2. op' = op /\ op[r].kind = "cook"
    BY <1>6 DEF CookRow, InLoop
  <2>3. ForeignKeys(work'[r])
    BY <1>2, <2>1, StockKeepsLinks
  <2> QED
    BY <2>2, <2>3 DEF TxLinked
<1>7. CASE SubmitLine(r)
  <2> DEFINE i    == Min(todo[r])
             line == db.lines[i]
  <2>1. /\ op' = op /\ op[r].kind = "submit"
        /\ todo[r] # {} /\ todo[r] \subseteq DOMAIN db.lines
    BY <1>1, <1>2, <1>7
       DEF SubmitLine, InLoop, LineOverflows, Refuse, Looping, Inv, LoopsInBounds, LoopBounds
  <2>2. i \in DOMAIN db.lines
    <3>1. DOMAIN db.lines \in SUBSET Ids /\ IsFiniteSet(DOMAIN db.lines)
      BY <1>2, WorkType DEF IsTable
    <3>2. todo[r] \in SUBSET Nat /\ IsFiniteSet(todo[r])
      BY <2>1, <3>1, FS_Subset DEF Ids
    <3> QED
      BY <2>1, <3>2, MinIsElement
  <2>3. CASE Refuse(r, "409")
    BY <1>2, <2>3, RefuseLinks
  <2>4. CASE Looping(r, db, todo[r] \ {i})
    BY <1>2, <2>1, <2>4, LoopingLinks
  <2>5. ASSUME NEW stock, NEW add,
               work'[r] = [db EXCEPT !.stock = stock,
                                     !.lines = Put(@, i, [line EXCEPT !.frozen = TRUE,
                                                                      !.applied = add])]
        PROVE  TxLinked(r)'
    <3> DEFINE new == [line EXCEPT !.frozen = TRUE, !.applied = add]
               mid == [db EXCEPT !.lines = Put(@, i, new)]
    <3>1. line \in GroceryLine /\ line.list \in DOMAIN db.lists
      BY <1>2, <2>2, WorkType DEF IsTable, ForeignKeys
    <3>2. new.list = line.list
      BY <3>1 DEF GroceryLine
    <3>3. work'[r] = [mid EXCEPT !.stock = stock]
      BY <2>5
    <3>4. /\ mid.lists = db.lists /\ mid.recipes = db.recipes /\ mid.logs = db.logs
          /\ mid.lines = Put(db.lines, i, new)
          /\ mid = [stock |-> mid.stock, lists |-> mid.lists, lines |-> mid.lines,
                    recipes |-> mid.recipes, logs |-> mid.logs]
      BY <1>2 DEF IsDb
    <3> HIDE DEF new
    <3>5. ForeignKeys(mid)
      BY <1>2, <3>1, <3>2, PutLineKeepsLinks
    <3> HIDE DEF mid
    <3>6. ForeignKeys([mid EXCEPT !.stock = stock])
      BY <3>4, <3>5 DEF ForeignKeys
    <3> QED
      BY <2>1, <3>3, <3>6 DEF TxLinked
  <2>6. ASSUME NEW stock, NEW add,
               work' = [work EXCEPT ![r] =
                 [db EXCEPT !.stock = stock,
                            !.lines = Put(@, i, [line EXCEPT !.frozen = TRUE,
                                                             !.applied = add])]]
        PROVE  TxLinked(r)'
    <3>1. work'[r] = [db EXCEPT !.stock = stock,
                                !.lines = Put(@, i, [line EXCEPT !.frozen = TRUE,
                                                                 !.applied = add])]
      BY <1>2, <2>6 DEF Inv, TypeOK
    <3> QED
      BY <2>5, <3>1
  <2> QED
    BY <1>7, <2>3, <2>4, <2>6 DEF SubmitLine, LineOverflows
<1> QED
  BY <1>4, <1>5, <1>6, <1>7

LEMMA HandlerLinks ==
  ASSUME LinkInv, NEW r \in Requests, Handler(r) PROVE TxLinked(r)'
  BY StockHandlersLink, LineHandlersLink, ListHandlersLink, RecipeHandlersLink, LoopsLink
     DEF Handler

-----------------------------------------------------------------------------
(* The whole system.                                                        *)

LEMMA LinkNext == LinkInv /\ [Next]_vars => LinkInv'
<1> SUFFICES ASSUME LinkInv, [Next]_vars PROVE LinkInv'
  OBVIOUS
<1>1. StockInv'
  BY StockNext DEF LinkInv
<1>2. SUFFICES Linked'
  BY <1>1 DEF LinkInv
<1>3. Inv /\ TypeOK
  BY DEF LinkInv, StockInv, TxInv, Inv
\* A step after which every open transaction is as it was.
<1>4. ASSUME UNCHANGED disk,
             \A q \in Requests : \/ pc'[q] \notin Active
                                 \/ /\ pc'[q] = pc[q] /\ op'[q] = op[q]
                                    /\ work'[q] = work[q] /\ todo'[q] = todo[q]
      PROVE  Linked'
  BY <1>4 DEF LinkInv, Linked, TxLinked
<1>5. ASSUME NEW r \in Requests, Handler(r) \/ Begin(r) PROVE Linked'
  <2>1. /\ UNCHANGED <<disk, op>>
        /\ \A q \in Requests \ {r} :
             pc'[q] = pc[q] /\ work'[q] = work[q] /\ todo'[q] = todo[q]
    BY <1>3, <1>5, HandlerShape DEF Begin, TypeOK
  <2>2. TxLinked(r)'
    <3>1. CASE Handler(r)
      BY <3>1, HandlerLinks
    <3>2. CASE Begin(r)
      <4>1. pc'[r] = "open" /\ work'[r] = disk
        BY <1>3, <3>2 DEF Begin, TypeOK
      <4> QED
        BY <4>1 DEF LinkInv, Linked, TxLinked
    <3> QED
      BY <1>5, <3>1, <3>2
  <2> QED
    BY <2>1, <2>2 DEF LinkInv, Linked, TxLinked
<1>6. ASSUME NEW r \in Requests, Send(r) \/ BusyTimeout(r) \/ CommitBusy(r) \/ Respond(r)
      PROVE  Linked'
  <2>1. pc'[r] \notin Active
    BY <1>3, <1>6 DEF Send, BusyTimeout, CommitBusy, Refuse, Respond, TypeOK, Active
  <2>2. \A q \in Requests \ {r} : /\ pc'[q] = pc[q] /\ op'[q] = op[q]
                                  /\ work'[q] = work[q] /\ todo'[q] = todo[q]
    BY <1>3, <1>6 DEF Send, BusyTimeout, CommitBusy, Refuse, Respond, TypeOK
  <2>3. UNCHANGED disk
    BY <1>6 DEF Send, BusyTimeout, CommitBusy, Refuse, Respond
  <2> QED
    BY <1>4, <2>1, <2>2, <2>3
<1>7. ASSUME NEW r \in Requests, Commit(r) PROVE Linked'
  <2>1. ForeignKeys(disk)'
    BY <1>7 DEF Commit, LinkInv, Linked, TxLinked, Active
  <2>2. \A q \in Requests : pc'[q] \notin Active
    BY <1>3, <1>7 DEF Commit, LinkInv, StockInv, TxInv, Exclusive, TypeOK, Active
  <2> QED
    BY <2>1, <2>2 DEF Linked, TxLinked
<1>8. CASE Crash
  <2>1. \A q \in Requests : pc'[q] \notin Active
    BY <1>3, <1>8 DEF Crash, TypeOK, Active
  <2> QED
    BY <1>4, <1>8, <2>1 DEF Crash
<1>9. CASE BackupStart \/ BackupEnd \/ UNCHANGED vars
  BY <1>4, <1>9 DEF BackupStart, BackupEnd, vars, txVars
<1> QED
  BY <1>5, <1>6, <1>7, <1>8, <1>9 DEF Next, Serve

\* Every committed database satisfies its schema: no line without its list, no
\* log naming a recipe that is gone, one stock row per key (models.py).
THEOREM ConstraintsHold == Spec => []Constraints
<1>1. LinkInv => Constraints
  BY DEF LinkInv, StockInv, Balanced, Linked, Constraints
<1> QED
  BY <1>1, LinkInit, LinkNext, PTL DEF Spec

-----------------------------------------------------------------------------
(* Cook logs.                                                               *)

\* The logs of an open transaction: those on disk, and the one its cook made.  That
\* one tells the amounts on disk, and the amounts of every row it has visited.
TxLogged(r) ==
  pc[r] \in Active =>
    /\ LogsStay(disk, work[r])
    /\ \A q \in DOMAIN work[r].logs \ DOMAIN disk.logs :
         /\ q = r /\ op[r].kind = "cook"
         /\ \A k \in DOMAIN work[r].logs[q].drawn :
              /\ QtyOf(disk.stock, k) = work[r].logs[q].drawn[k].before
              /\ \/ pc[r] = "looping" /\ k \in todo[r]
                 \/ QtyOf(work[r].stock, k) = work[r].logs[q].drawn[k].after

Logged == DOMAIN disk.logs \subseteq committed /\ \A r \in Requests : TxLogged(r)

LogInv == LinkInv /\ Logged

LEMMA LogInit == Init => LogInv
<1> SUFFICES ASSUME Init PROVE LogInv
  OBVIOUS
<1>1. \A r \in Requests : TxLogged(r)
  BY DEF Init, TxLogged, Active
<1>2. DOMAIN disk.logs \subseteq committed
  BY DEF Init
<1> QED
  BY <1>1, <1>2, LinkInit DEF LogInv, Logged

\* What a handler starts from.
LEMMA LoggedOn ==
  ASSUME LogInv, NEW r \in Requests
  PROVE  /\ Inv /\ IsDb(work[r])
         /\ pc[r] \in Active => r \notin DOMAIN disk.logs
         /\ pc[r] = "open" => work[r] = disk
         /\ pc[r] = "looping" => /\ UniqueKeys(work[r].stock)
                                /\ LoopBounds(r, op[r].kind, work[r], todo[r])
<1>1. Inv /\ Told /\ Balanced
  BY DEF LogInv, LinkInv, StockInv, TxInv
<1>2. IsDb(work[r])
  BY <1>1, WorkType
<1>3. pc[r] \in Active => r \notin DOMAIN disk.logs
  BY <1>1 DEF Told, LogInv, Logged
<1> QED
  BY <1>1, <1>2, <1>3 DEF Inv, LoopsInBounds, Balanced, TxBalanced

LEMMA RefuseLogs ==
  ASSUME Inv, NEW r \in Requests, NEW status, Refuse(r, status) PROVE TxLogged(r)'
<1>1. pc'[r] = "answered"
  BY DEF Refuse, Inv, TypeOK
<1> QED
  BY <1>1 DEF TxLogged, Active

\* A handler that makes no log.
LEMMA UnloggedLogs ==
  ASSUME LogInv, NEW r \in Requests, NEW db,
         pc[r] = "open" \/ (pc[r] = "looping" /\ op[r].kind # "cook"),
         \/ db.logs = work[r].logs
         \/ pc[r] = "open" /\ LogsStay(work[r], db) /\ DOMAIN db.logs = DOMAIN work[r].logs,
         \/ \E c : Handled(r, db, c)
         \/ \E rest : Looping(r, db, rest)
  PROVE  TxLogged(r)'
<1>1. Inv /\ (pc[r] = "open" => work[r] = disk)
  BY LoggedOn
<1>2. disk' = disk /\ work'[r] = db
  BY <1>1 DEF Handled, Looping, Inv, TypeOK
<1>3. LogsStay(disk, work[r]) /\ DOMAIN work[r].logs \subseteq DOMAIN disk.logs
  <2>1. CASE pc[r] = "open"
    BY <1>1, <2>1 DEF LogsStay
  <2>2. CASE pc[r] = "looping" /\ op[r].kind # "cook"
    BY <2>2 DEF LogInv, Logged, TxLogged, Active
  <2> QED
    BY <2>1, <2>2
<1>4. LogsStay(disk, db) /\ DOMAIN db.logs \subseteq DOMAIN disk.logs
  BY <1>1, <1>3 DEF LogsStay
<1> QED
  BY <1>2, <1>4 DEF TxLogged

LEMMA StockHandlersLog ==
  ASSUME LogInv, NEW r \in Requests,
         \/ Unauthenticated(r) \/ Read(r)
         \/ AddInventory(r) \/ UpdateInventory(r) \/ DeleteInventory(r)
         \/ AddLine(r) \/ UpdateLine(r) \/ DeleteLine(r)
  PROVE  TxLogged(r)'
<1>1. Inv /\ IsDb(work[r])
  BY LoggedOn
<1>2. ASSUME NEW status, Refuse(r, status) PROVE TxLogged(r)'
  BY <1>1, <1>2, RefuseLogs
<1>3. ASSUME NEW new, NEW c, pc[r] = "open",
             \/ new = work[r]
             \/ \E t : new = [work[r] EXCEPT !.stock = t]
             \/ \E t : new = [work[r] EXCEPT !.lines = t],
             Handled(r, new, c)
      PROVE  TxLogged(r)'
  <2>1. new.logs = work[r].logs
    BY <1>1, <1>3 DEF IsDb
  <2> QED
    BY <1>3, <2>1, UnloggedLogs
<1>4. CASE Unauthenticated(r) \/ Read(r)
  BY <1>2, <1>3, <1>4 DEF Unauthenticated, Read, Running
<1>5. CASE AddInventory(r)
  BY <1>2, <1>3, <1>5 DEF AddInventory, Running
<1>6. CASE UpdateInventory(r)
  BY <1>2, <1>3, <1>6 DEF UpdateInventory, Running
<1>7. CASE DeleteInventory(r)
  BY <1>2, <1>3, <1>7 DEF DeleteInventory, Running
<1>8. CASE AddLine(r)
  BY <1>2, <1>3, <1>8 DEF AddLine, Running
<1>9. CASE UpdateLine(r)
  BY <1>2, <1>3, <1>9 DEF UpdateLine, Running
<1>10. CASE DeleteLine(r)
  BY <1>2, <1>3, <1>10 DEF DeleteLine, Running
<1> QED
  BY <1>4, <1>5, <1>6, <1>7, <1>8, <1>9, <1>10

LEMMA ListHandlersLog ==
  ASSUME LogInv, NEW r \in Requests,
         Archive(r) \/ DeleteList(r) \/ Submit(r) \/ CreateList(r) \/ InsertLine(r)
  PROVE  TxLogged(r)'
<1>1. Inv /\ IsDb(work[r])
  BY LoggedOn
<1>2. ASSUME NEW status, Refuse(r, status) PROVE TxLogged(r)'
  BY <1>1, <1>2, RefuseLogs
<1>3. ASSUME NEW new, pc[r] = "open" \/ (pc[r] = "looping" /\ op[r].kind = "create_list"),
             \/ new = work[r]
             \/ \E t : new = [work[r] EXCEPT !.lists = t]
             \/ \E t : new = [work[r] EXCEPT !.lines = t]
             \/ \E t, u : new = [work[r] EXCEPT !.lists = t, !.lines = u],
             \/ \E c : Handled(r, new, c)
             \/ \E rest : Looping(r, new, rest)
      PROVE  TxLogged(r)'
  <2>1. new.logs = work[r].logs
    BY <1>1, <1>3 DEF IsDb
  <2> QED
    BY <1>3, <2>1, UnloggedLogs
<1>4. CASE Archive(r)
  BY <1>2, <1>3, <1>4 DEF Archive, Running
<1>5. CASE DeleteList(r)
  BY <1>2, <1>3, <1>5 DEF DeleteList, Running
<1>6. CASE Submit(r)
  BY <1>2, <1>3, <1>6 DEF Submit, Running
<1>7. CASE CreateList(r)
  BY <1>2, <1>3, <1>7 DEF CreateList, Running
<1>8. CASE InsertLine(r)
  BY <1>2, <1>3, <1>8 DEF InsertLine, InLoop
<1> QED
  BY <1>4, <1>5, <1>6, <1>7, <1>8

LEMMA SubmitLineLogs ==
  ASSUME LogInv, NEW r \in Requests, SubmitLine(r) \/ LoopDone(r)
  PROVE  TxLogged(r)'
<1>1. Inv /\ IsDb(work[r]) /\ pc[r] = "looping"
  BY LoggedOn DEF SubmitLine, LoopDone, InLoop
<1>2. TxLogged(r)
  BY DEF LogInv, Logged
<1>3. CASE LoopDone(r)
  <2>1. disk' = disk /\ work' = work /\ op' = op /\ todo[r] = {} /\ pc'[r] = "handled"
    BY <1>1, <1>3 DEF LoopDone, Inv, TypeOK
  <2> QED
    BY <1>1, <1>2, <2>1 DEF TxLogged, Active
<1>4. CASE SubmitLine(r)
  <2>1. CASE \E status : Refuse(r, status)
    BY <1>1, <2>1, RefuseLogs
  <2>2. CASE \E rest : Looping(r, work[r], rest)
    BY <1>1, <1>4, <2>2, UnloggedLogs DEF SubmitLine, InLoop
  <2>3. ASSUME NEW stock, NEW lines, UNCHANGED <<disk, op, pc>>,
               work' = [work EXCEPT ![r] = [work[r] EXCEPT !.stock = stock, !.lines = lines]]
        PROVE  TxLogged(r)'
    <3>1. work'[r].logs = work[r].logs /\ op[r].kind = "submit"
      BY <1>1, <1>4, <2>3 DEF SubmitLine, InLoop, IsDb, Inv, TypeOK
    <3> QED
      BY <1>1, <1>2, <2>3, <3>1 DEF TxLogged, Active, LogsStay
  <2> QED
    BY <1>4, <2>1, <2>2, <2>3 DEF SubmitLine, LineOverflows
<1> QED
  BY <1>3, <1>4

LEMMA RecipeHandlersLog ==
  ASSUME LogInv, NEW r \in Requests, CreateRecipe(r) \/ UpdateRecipe(r) \/ DeleteRecipe(r)
  PROVE  TxLogged(r)'
<1> DEFINE db == work[r]
<1>1. Inv /\ IsDb(db)
  BY LoggedOn
<1>2. ASSUME NEW status, Refuse(r, status) PROVE TxLogged(r)'
  BY <1>1, <1>2, RefuseLogs
<1>3. CASE CreateRecipe(r) \/ UpdateRecipe(r)
  <2>1. ASSUME NEW t, pc[r] = "open", Handled(r, [db EXCEPT !.recipes = t], NoClaim)
        PROVE  TxLogged(r)'
    <3>1. [db EXCEPT !.recipes = t].logs = db.logs
      BY <1>1 DEF IsDb
    <3> QED
      BY <2>1, <3>1, UnloggedLogs
  <2> QED
    BY <1>2, <1>3, <2>1 DEF CreateRecipe, UpdateRecipe, Running
<1>4. CASE DeleteRecipe(r)
  <2> DEFINE i   == op[r].id
             new == [db EXCEPT !.recipes = Drop(@, {i}), !.logs = Detached(@, i)]
  <2>1. new.logs = Detached(db.logs, i)
    BY <1>1 DEF IsDb
  <2>2. DOMAIN new.logs = DOMAIN db.logs
    BY <2>1 DEF Detached
  <2>3. LogsStay(db, new)
    <3>1. ASSUME NEW q \in DOMAIN db.logs
          PROVE  /\ new.logs[q].drawn = db.logs[q].drawn
                 /\ new.logs[q].recipe \in {db.logs[q].recipe, NoRecipe}
      <4>1. db.logs[q] = [recipe |-> db.logs[q].recipe, drawn |-> db.logs[q].drawn]
        BY <1>1 DEF IsDb, IsLog
      <4>2. new.logs[q] = IF db.logs[q].recipe = i
                          THEN [db.logs[q] EXCEPT !.recipe = NoRecipe] ELSE db.logs[q]
        BY <2>1 DEF Detached
      <4>3. [db.logs[q] EXCEPT !.recipe = NoRecipe].drawn = db.logs[q].drawn
        BY <4>1
      <4>4. [db.logs[q] EXCEPT !.recipe = NoRecipe].recipe = NoRecipe
        BY <4>1
      <4> QED
        BY <4>2, <4>3, <4>4
    <3> QED
      BY <2>2, <3>1 DEF LogsStay
  <2> HIDE DEF new
  <2> QED
    BY <1>2, <1>4, <2>2, <2>3, UnloggedLogs DEF DeleteRecipe, Running, new
<1> QED
  BY <1>3, <1>4

\* The log is made with the amounts the stock on disk has.
LEMMA CookLogs ==
  ASSUME LogInv, NEW r \in Requests, Cook(r) PROVE TxLogged(r)'
<1> DEFINE p     == op[r]
           db    == work[r]
           need  == [k \in Keys |-> db.recipes[p.recipe].need[k] * p.times]
           drawn == IF p.deduct THEN Draws(need, db.stock) ELSE NoRows
           log   == [recipe |-> p.recipe, drawn |-> drawn]
           left  == [db EXCEPT !.logs = Put(@, r, log)]
<1>1. Inv /\ IsDb(db) /\ pc[r] = "open" /\ op[r].kind = "cook"
  BY LoggedOn DEF Cook, Running
<1>2. db = disk /\ r \notin DOMAIN disk.logs
  BY <1>1, LoggedOn DEF Active
<1>3. CASE Refuse(r, "404")
  BY <1>1, <1>3, RefuseLogs
<1>4. CASE Looping(r, left, DOMAIN drawn)
  <2>1. \A k \in DOMAIN drawn : drawn[k].before = QtyOf(db.stock, k)
    <3> HIDE DEF need
    <3> QED
      BY DEF Draws, NoRows
  <2> HIDE DEF drawn
  <2>2. left.logs = Put(db.logs, r, log)
    BY <1>1 DEF IsDb
  <2>3. /\ DOMAIN left.logs = DOMAIN db.logs \cup {r} /\ left.logs[r].drawn = drawn
        /\ \A q \in DOMAIN db.logs : left.logs[q] = db.logs[q]
    BY <1>2, <2>2 DEF Put
  <2> HIDE DEF left
  <2>4. /\ disk' = disk /\ op' = op
        /\ pc'[r] = "looping" /\ work'[r] = left /\ todo'[r] = DOMAIN drawn
    BY <1>1, <1>4 DEF Looping, Inv, TypeOK
  <2>5. LogsStay(disk, left)
    BY <1>2, <2>3 DEF LogsStay
  <2> QED
    BY <1>1, <1>2, <2>1, <2>3, <2>4, <2>5 DEF TxLogged
<1> QED
  BY <1>3, <1>4 DEF Cook

\* A row gets the amount the log tells, and no other row moves.
LEMMA CookRowLogs ==
  ASSUME LogInv, NEW r \in Requests, CookRow(r) PROVE TxLogged(r)'
<1> DEFINE k    == CHOOSE x \in todo[r] : TRUE
           db   == work[r]
           draw == db.logs[r].drawn[k]
           i    == TargetOf(db.stock, k)
           row  == [db.stock[i] EXCEPT !.qty = draw.after]
           left == [db EXCEPT !.stock = Put(@, i, row)]
<1>1. Inv /\ IsDb(db) /\ pc[r] = "looping" /\ op[r].kind = "cook" /\ TxLogged(r)
  BY LoggedOn DEF CookRow, InLoop, LogInv, Logged
<1>2. /\ UniqueKeys(db.stock) /\ r \in DOMAIN db.logs /\ r \notin DOMAIN disk.logs
      /\ k \in todo[r] /\ k \in DOMAIN db.logs[r].drawn /\ HasKey(db.stock, k)
  BY <1>1, LoggedOn DEF CookRow, LoopBounds, Active
<1>3. /\ disk' = disk /\ pc' = pc /\ op' = op
      /\ work'[r] = left /\ todo'[r] = todo[r] \ {k}
  BY <1>1 DEF CookRow, Inv, TypeOK
<1> HIDE DEF k
<1>4. i \in DOMAIN db.stock /\ KeyOf(db.stock[i]) = k
  BY <1>2, IdOfType DEF TargetOf
<1>5. db.stock[i] \in StockRow /\ draw \in Draw
  BY <1>1, <1>2, <1>4 DEF IsDb, IsTable, IsLog
<1>6. draw.after \in Nat
  BY <1>5 DEF Draw
<1> HIDE DEF draw, i
<1>7. KeyOf(row) = k /\ row.qty = draw.after /\ db.stock[i].qty \in Int
  BY <1>4, <1>5 DEF StockRow, KeyOf
<1> HIDE DEF row
<1>8. left.stock = Put(db.stock, i, row) /\ left.logs = db.logs
  BY <1>1 DEF IsDb
<1> HIDE DEF left
<1>9. /\ QtyOf(left.stock, k) = draw.after
      /\ \A x : x # k => QtyOf(left.stock, x) = QtyOf(db.stock, x)
  BY <1>2, <1>4, <1>6, <1>7, <1>8, SetBooks
<1>10. LogsStay(disk, left)
  BY <1>1, <1>8 DEF TxLogged, LogsStay, Active
<1>11. ASSUME NEW q \in DOMAIN left.logs \ DOMAIN disk.logs
       PROVE  /\ q = r
              /\ \A x \in DOMAIN left.logs[q].drawn :
                   /\ QtyOf(disk.stock, x) = left.logs[q].drawn[x].before
                   /\ \/ x \in todo[r] \ {k}
                      \/ QtyOf(left.stock, x) = left.logs[q].drawn[x].after
  <2>1. q = r
    BY <1>1, <1>8 DEF TxLogged, Active
  <2>2. ASSUME NEW x \in DOMAIN left.logs[q].drawn
        PROVE  /\ QtyOf(disk.stock, x) = left.logs[q].drawn[x].before
               /\ \/ x \in todo[r] \ {k}
                  \/ QtyOf(left.stock, x) = left.logs[q].drawn[x].after
    <3>1. /\ QtyOf(disk.stock, x) = db.logs[r].drawn[x].before
          /\ x \in todo[r] \/ QtyOf(db.stock, x) = db.logs[r].drawn[x].after
      BY <1>1, <1>8, <2>1, <2>2 DEF TxLogged, Active
    <3>2. CASE x = k
      BY <1>8, <1>9, <2>1, <3>1, <3>2 DEF draw
    <3>3. CASE x # k
      BY <1>8, <1>9, <2>1, <3>1, <3>3
    <3> QED
      BY <3>2, <3>3
  <2> QED
    BY <2>1, <2>2
<1> QED
  BY <1>1, <1>3, <1>10, <1>11 DEF TxLogged

LEMMA HandlerLogs ==
  ASSUME LogInv, NEW r \in Requests, Handler(r) PROVE TxLogged(r)'
  BY StockHandlersLog, ListHandlersLog, SubmitLineLogs, RecipeHandlersLog, CookLogs, CookRowLogs
     DEF Handler

\* What every step does to the committed logs: nothing, or what a commit publishes.
LEMMA DiskMoves ==
  ASSUME Inv, [Next]_vars
  PROVE  \/ disk' = disk
         \/ \E r \in Requests : Commit(r)
<1>1. ASSUME NEW r \in Requests, Handler(r) PROVE disk' = disk
  BY <1>1, HandlerShape
<1>2. ASSUME NEW r \in Requests, Send(r) \/ Begin(r) \/ BusyTimeout(r) \/ CommitBusy(r) \/ Respond(r)
      PROVE  disk' = disk
  BY <1>2 DEF Send, Begin, BusyTimeout, CommitBusy, Refuse, Respond
<1>3. CASE Crash \/ BackupStart \/ BackupEnd \/ UNCHANGED vars
  BY <1>3 DEF Crash, BackupStart, BackupEnd, vars
<1> QED
  BY <1>1, <1>2, <1>3 DEF Next, Serve

\* No statement makes a second log: what a commit adds is the log of its request.
LEMMA LogNext == LogInv /\ [Next]_vars => LogInv'
<1> SUFFICES ASSUME LogInv, [Next]_vars PROVE LogInv'
  OBVIOUS
<1>1. LinkInv'
  BY LinkNext DEF LogInv
<1>2. SUFFICES Logged'
  BY <1>1 DEF LogInv
<1>3. Inv /\ TypeOK
  BY DEF LogInv, LinkInv, StockInv, TxInv, Inv
<1>4. ASSUME UNCHANGED <<disk, committed>>,
             \A q \in Requests : \/ pc'[q] \notin Active
                                 \/ /\ pc'[q] = pc[q] /\ op'[q] = op[q]
                                    /\ work'[q] = work[q] /\ todo'[q] = todo[q]
      PROVE  Logged'
  <2>1. ASSUME NEW q \in Requests PROVE TxLogged(q)'
    <3>1. CASE pc'[q] \notin Active
      BY <3>1 DEF TxLogged
    <3>2. CASE /\ pc'[q] = pc[q] /\ op'[q] = op[q]
               /\ work'[q] = work[q] /\ todo'[q] = todo[q]
      BY <1>4, <3>2 DEF LogInv, Logged, TxLogged
    <3> QED
      BY <1>4, <3>1, <3>2
  <2> QED
    BY <1>4, <2>1 DEF LogInv, Logged
<1>5. ASSUME NEW r \in Requests, Handler(r) \/ Begin(r) PROVE Logged'
  <2>1. /\ UNCHANGED <<disk, op, committed>>
        /\ \A q \in Requests \ {r} :
             pc'[q] = pc[q] /\ work'[q] = work[q] /\ todo'[q] = todo[q]
    BY <1>3, <1>5, HandlerShape DEF Begin, TypeOK, histVars
  <2>2. TxLogged(r)'
    <3>1. CASE Handler(r)
      BY <3>1, HandlerLogs
    <3>2. CASE Begin(r)
      <4>1. pc'[r] = "open" /\ work'[r] = disk /\ disk' = disk
        BY <1>3, <3>2 DEF Begin, TypeOK
      <4> QED
        BY <4>1 DEF TxLogged, LogsStay
    <3> QED
      BY <1>5, <3>1, <3>2
  <2>3. ASSUME NEW q \in Requests \ {r} PROVE TxLogged(q)'
    BY <2>1 DEF LogInv, Logged, TxLogged
  <2> QED
    BY <2>1, <2>2, <2>3 DEF LogInv, Logged
<1>6. ASSUME NEW r \in Requests, Send(r) \/ BusyTimeout(r) \/ CommitBusy(r) \/ Respond(r)
      PROVE  Logged'
  <2>1. pc'[r] \notin Active
    BY <1>3, <1>6 DEF Send, BusyTimeout, CommitBusy, Refuse, Respond, TypeOK, Active
  <2>2. \A q \in Requests \ {r} : /\ pc'[q] = pc[q] /\ op'[q] = op[q]
                                  /\ work'[q] = work[q] /\ todo'[q] = todo[q]
    BY <1>3, <1>6 DEF Send, BusyTimeout, CommitBusy, Refuse, Respond, TypeOK
  <2>3. UNCHANGED <<disk, committed>>
    BY <1>6 DEF Send, BusyTimeout, CommitBusy, Refuse, Respond, histVars
  <2> QED
    BY <1>4, <2>1, <2>2, <2>3
<1>7. ASSUME NEW r \in Requests, Commit(r) PROVE Logged'
  <2>1. disk' = work[r] /\ committed' = committed \cup {r} /\ pc[r] \in Active
    BY <1>7 DEF Commit, Active
  <2>2. DOMAIN work[r].logs \subseteq DOMAIN disk.logs \cup {r}
    BY <2>1 DEF LogInv, Logged, TxLogged
  <2>3. \A q \in Requests : pc'[q] \notin Active
    BY <1>3, <1>7 DEF Commit, LogInv, LinkInv, StockInv, TxInv, Exclusive, TypeOK, Active
  <2>4. \A q \in Requests : TxLogged(q)'
    BY <2>3 DEF TxLogged
  <2> QED
    BY <2>1, <2>2, <2>4 DEF LogInv, Logged
<1>8. CASE Crash
  <2>1. \A q \in Requests : pc'[q] \notin Active
    BY <1>3, <1>8 DEF Crash, TypeOK, Active
  <2> QED
    BY <1>4, <1>8, <2>1 DEF Crash, histVars
<1>9. CASE BackupStart \/ BackupEnd \/ UNCHANGED vars
  BY <1>4, <1>9 DEF BackupStart, BackupEnd, vars, txVars, histVars
<1> QED
  BY <1>5, <1>6, <1>7, <1>8, <1>9 DEF Next, Serve

\* Made-history is never rewritten: whatever recipes are edited, deleted or given a
\* deleted one's id, a cook log keeps its draws and at most loses the link to its
\* recipe (ON DELETE SET NULL of cook_logs.recipe_id, models.py).
THEOREM HistoryKept == Spec => HistoryStays
<1>1. LogInv /\ [Next]_vars => [LogsStay(disk, disk')]_vars
  <2> SUFFICES ASSUME LogInv, [Next]_vars PROVE LogsStay(disk, disk')
    OBVIOUS
  <2>1. Inv
    BY DEF LogInv, LinkInv, StockInv, TxInv
  <2>2. CASE disk' = disk
    BY <2>2 DEF LogsStay
  <2>3. ASSUME NEW r \in Requests, Commit(r) PROVE LogsStay(disk, disk')
    BY <2>3 DEF Commit, LogInv, Logged, TxLogged, Active
  <2> QED
    BY <2>1, <2>2, <2>3, DiskMoves
<1> QED
  BY <1>1, LogInit, LogNext, PTL DEF Spec, HistoryStays

\* The amounts a cook log tells are those of the stock it was committed on and of the
\* stock it left, although the handler read them before it wrote (cook_recipe of recipes.py).
THEOREM LogsToldTrue == Spec => HonestCookLog
<1>1. LogInv /\ [Next]_vars => [LogsAreHonest(disk, disk')]_vars
  <2> SUFFICES ASSUME LogInv, [Next]_vars PROVE LogsAreHonest(disk, disk')
    OBVIOUS
  <2>1. Inv
    BY DEF LogInv, LinkInv, StockInv, TxInv
  <2>2. CASE disk' = disk
    BY <2>2 DEF LogsAreHonest
  <2>3. ASSUME NEW r \in Requests, Commit(r) PROVE LogsAreHonest(disk, disk')
    <3>1. pc[r] = "handled" /\ disk' = work[r] /\ TxLogged(r)
      BY <2>3 DEF Commit, LogInv, Logged
    <3> QED
      BY <3>1 DEF TxLogged, Active, LogsAreHonest
  <2> QED
    BY <2>1, <2>2, <2>3, DiskMoves
<1> QED
  BY <1>1, LogInit, LogNext, PTL DEF Spec, HonestCookLog

-----------------------------------------------------------------------------
(* What a transaction has done to the grocery lines so far.                 *)

\* A line is frozen if it was found frozen or is one of the lines bought, and
\* these were found unfrozen.
Buys(old, new, lines) ==
  /\ \A i \in lines : /\ i \in DOMAIN old.lines /\ ~old.lines[i].frozen
                      /\ i \in DOMAIN new.lines /\ new.lines[i].frozen
  /\ \A i \in DOMAIN new.lines \ lines :
       new.lines[i].frozen <=> (i \in DOMAIN old.lines /\ old.lines[i].frozen)

\* The loops: a submit has still to visit lines as they are on disk, of a list that is
\* active there; a generation has still to insert open lines of a list that is new.
LoopTouches(r) ==
  /\ op[r].kind = "submit" =>
       /\ op[r].list \in DOMAIN disk.lists /\ disk.lists[op[r].list].status = "active"
       /\ \A i \in todo[r] : /\ i \in LinesOf(disk, op[r].list)
                             /\ SameLine(disk, work[r], i)
  /\ op[r].kind = "create_list" =>
       /\ DOMAIN disk.lines \subseteq DOMAIN work[r].lines
       /\ \A line \in todo[r] : ~line.frozen /\ line.list \notin DOMAIN disk.lists

TxShopped(r) ==
  /\ pc[r] \in {"idle", "waiting", "open"} => bought[r] = {}
  /\ pc[r] \in Active => /\ Buys(disk, work[r], bought[r])
                         /\ ClosedStays(disk, work[r])
  /\ pc[r] = "looping" => LoopTouches(r)

Shopped == PaidOnce /\ \A r \in Requests : TxShopped(r)

LineInv == LogInv /\ Shopped

-----------------------------------------------------------------------------
(* What one statement does to lines that are closed.                        *)

LEMMA ClosedReflexive ==
  ASSUME NEW db PROVE ClosedStays(db, db)
  BY DEF ClosedStays, SameLine, LinesOf

\* A statement that puts a line touches nothing closed, if the list of the new line
\* and that of the old one are not archived and the old one is not frozen.
LEMMA PutKeepsClosed ==
  ASSUME NEW old, NEW mid, NEW new, ClosedStays(old, mid), new.lists = mid.lists,
         NEW i, NEW line, new.lines = Put(mid.lines, i, line),
         line.list \in DOMAIN old.lists => old.lists[line.list].status # "archived",
         i \in DOMAIN mid.lines /\ mid.lines[i].list \in DOMAIN old.lists =>
           old.lists[mid.lines[i].list].status # "archived",
         i \in DOMAIN old.lines =>
           /\ ~old.lines[i].frozen
           /\ old.lines[i].list \in DOMAIN old.lists =>
                old.lists[old.lines[i].list].status # "archived"
  PROVE  ClosedStays(old, new)
<1> SUFFICES ASSUME NEW l \in DOMAIN old.lists \cap DOMAIN new.lists
             PROVE  /\ \A j \in LinesOf(old, l) : old.lines[j].frozen => SameLine(old, new, j)
                    /\ old.lists[l].status = "archived" =>
                         /\ new.lists[l].status = "archived"
                         /\ LinesOf(new, l) = LinesOf(old, l)
                         /\ \A j \in LinesOf(old, l) : SameLine(old, new, j)
  BY DEF ClosedStays
<1>1. /\ \A j \in LinesOf(old, l) : old.lines[j].frozen => SameLine(old, mid, j)
      /\ old.lists[l].status = "archived" =>
           /\ mid.lists[l].status = "archived"
           /\ LinesOf(mid, l) = LinesOf(old, l)
           /\ \A j \in LinesOf(old, l) : SameLine(old, mid, j)
  BY DEF ClosedStays
<1>2. /\ DOMAIN new.lines = DOMAIN mid.lines \cup {i} /\ new.lines[i] = line
      /\ \A j \in DOMAIN mid.lines \ {i} : new.lines[j] = mid.lines[j]
  BY DEF Put
<1>3. \A j \in DOMAIN old.lines \ {i} : SameLine(old, mid, j) => SameLine(old, new, j)
  BY <1>2 DEF SameLine
<1>4. \A j \in LinesOf(old, l) : j \in DOMAIN old.lines /\ old.lines[j].list = l
  BY DEF LinesOf
<1>5. \A j \in LinesOf(old, l) : old.lines[j].frozen => SameLine(old, new, j)
  BY <1>1, <1>3, <1>4
<1>6. ASSUME old.lists[l].status = "archived"
      PROVE  /\ new.lists[l].status = "archived"
             /\ LinesOf(new, l) = LinesOf(old, l)
             /\ \A j \in LinesOf(old, l) : SameLine(old, new, j)
  <2>1. line.list # l /\ i \notin LinesOf(mid, l) /\ i \notin LinesOf(old, l)
    BY <1>6 DEF LinesOf
  <2>2. LinesOf(new, l) = LinesOf(mid, l)
    BY <1>2, <2>1 DEF LinesOf
  <2> QED
    BY <1>1, <1>3, <1>4, <1>6, <2>1, <2>2
<1> QED
  BY <1>5, <1>6

-----------------------------------------------------------------------------
(* The ways a step of a handler ends, for the lines.                        *)

LEMMA LineInit == Init => LineInv
<1> SUFFICES ASSUME Init PROVE LineInv
  OBVIOUS
<1>1. PaidOnce
  BY DEF Init, PaidOnce
<1>2. \A r \in Requests : TxShopped(r)
  BY DEF Init, TxShopped, Active
<1> QED
  BY <1>1, <1>2, LogInit DEF LineInv, Shopped

LEMMA RefuseShops ==
  ASSUME Inv, NEW r \in Requests, NEW status, Refuse(r, status) PROVE TxShopped(r)'
<1>1. pc'[r] = "answered"
  BY DEF Refuse, Inv, TypeOK
<1> QED
  BY <1>1 DEF TxShopped, Active

\* What a handler starts from.
LEMMA ShoppedOn ==
  ASSUME LineInv, NEW r \in Requests
  PROVE  /\ Inv /\ IsDb(work[r]) /\ TxShopped(r) /\ PaidOnce
         /\ IsTable(work[r].lines, GroceryLine) /\ IsTable(disk.lines, GroceryLine)
         /\ IsTable(work[r].lists, GroceryList)
         /\ pc[r] = "open" => work[r] = disk /\ bought[r] = {} /\ ForeignKeys(disk)
<1>1. LogInv /\ TxShopped(r) /\ PaidOnce
  BY DEF LineInv, Shopped
<1>2. Inv /\ IsDb(work[r]) /\ (pc[r] = "open" => work[r] = disk)
  BY <1>1, LoggedOn
<1>3. ForeignKeys(disk)
  BY <1>1 DEF LogInv, LinkInv, Linked
<1>4. IsDb(disk)
  BY <1>2 DEF Inv, TypeOK
<1> QED
  BY <1>1, <1>2, <1>3, <1>4 DEF TxShopped, IsDb

\* A handler that returns.
LEMMA HandledShops ==
  ASSUME LineInv, NEW r \in Requests, pc[r] = "open", NEW db, NEW c, Handled(r, db, c),
         \A i \in DOMAIN db.lines :
           db.lines[i].frozen <=> (i \in DOMAIN disk.lines /\ disk.lines[i].frozen),
         ClosedStays(disk, db)
  PROVE  TxShopped(r)'
<1>1. Inv /\ bought[r] = {}
  BY ShoppedOn
<1>2. /\ pc'[r] = "handled" /\ work'[r] = db
      /\ bought' = bought /\ disk' = disk
  BY <1>1 DEF Handled, Inv, TypeOK
<1> QED
  BY <1>1, <1>2 DEF TxShopped, Buys

\* A handler that returns with the lines and lists as it found them.
LEMMA UnshoppedShops ==
  ASSUME LineInv, NEW r \in Requests, pc[r] = "open", NEW db, NEW c, Handled(r, db, c),
         db.lines = work[r].lines, db.lists = work[r].lists
  PROVE  TxShopped(r)'
<1>1. work[r] = disk
  BY ShoppedOn
<1>2. ClosedStays(disk, db)
  BY <1>1 DEF ClosedStays, SameLine, LinesOf
<1> QED
  BY <1>1, <1>2, HandledShops

LEMMA StockHandlersShop ==
  ASSUME LineInv, NEW r \in Requests,
         \/ Unauthenticated(r) \/ Read(r)
         \/ AddInventory(r) \/ UpdateInventory(r) \/ DeleteInventory(r)
         \/ CreateRecipe(r) \/ UpdateRecipe(r) \/ DeleteRecipe(r)
  PROVE  TxShopped(r)'
<1>1. Inv /\ IsDb(work[r])
  BY ShoppedOn
<1>2. ASSUME NEW status, Refuse(r, status) PROVE TxShopped(r)'
  BY <1>1, <1>2, RefuseShops
<1>3. ASSUME NEW new, NEW c, pc[r] = "open",
             \/ new = work[r]
             \/ \E t : new = [work[r] EXCEPT !.stock = t]
             \/ \E t : new = [work[r] EXCEPT !.recipes = t]
             \/ \E t, u : new = [work[r] EXCEPT !.recipes = t, !.logs = u],
             Handled(r, new, c)
      PROVE  TxShopped(r)'
  <2>1. new.lines = work[r].lines /\ new.lists = work[r].lists
    BY <1>1, <1>3 DEF IsDb
  <2> QED
    BY <1>3, <2>1, UnshoppedShops
<1>4. CASE Unauthenticated(r) \/ Read(r)
  BY <1>2, <1>3, <1>4 DEF Unauthenticated, Read, Running
<1>5. CASE AddInventory(r)
  BY <1>2, <1>3, <1>5 DEF AddInventory, Running
<1>6. CASE UpdateInventory(r)
  BY <1>2, <1>3, <1>6 DEF UpdateInventory, Running
<1>7. CASE DeleteInventory(r)
  BY <1>2, <1>3, <1>7 DEF DeleteInventory, Running
<1>8. CASE CreateRecipe(r) \/ UpdateRecipe(r)
  BY <1>2, <1>3, <1>8 DEF CreateRecipe, UpdateRecipe, Running
<1>9. CASE DeleteRecipe(r)
  BY <1>2, <1>3, <1>9 DEF DeleteRecipe, Running
<1> QED
  BY <1>4, <1>5, <1>6, <1>7, <1>8, <1>9

-----------------------------------------------------------------------------
(* The handlers of lines and lists.                                         *)

LEMMA AddLineShops ==
  ASSUME LineInv, NEW r \in Requests, AddLine(r) PROVE TxShopped(r)'
<1> DEFINE p    == op[r]
           db   == work[r]
           i    == NextId(db.lines)
           line == NewLine(p.list, p.item, p.unit, p.amount, "manual", TRUE)
           new  == [db EXCEPT !.lines = Put(@, i, line)]
<1>1. Inv /\ IsDb(db) /\ pc[r] = "open" /\ db = disk
  BY ShoppedOn DEF AddLine, Running
<1>2. CASE Refuse(r, "404") \/ Refuse(r, "409")
  BY <1>1, <1>2, RefuseShops
<1>3. CASE /\ db.lists[p.list].status # "archived" /\ Handled(r, new, NoClaim)
  <2>1. i \notin DOMAIN db.lines
    BY ShoppedOn, NextIdIsFresh DEF IsTable
  <2>2. line.list = p.list /\ ~line.frozen
    BY DEF NewLine
  <2>3. new.lines = Put(db.lines, i, line) /\ new.lists = db.lists
    BY <1>1 DEF IsDb
  <2> HIDE DEF i, line, new
  <2>4. ClosedStays(disk, new)
    BY <1>1, <1>3, <2>1, <2>2, <2>3, ClosedReflexive, PutKeepsClosed
  <2>5. \A j \in DOMAIN new.lines :
          new.lines[j].frozen <=> (j \in DOMAIN disk.lines /\ disk.lines[j].frozen)
    BY <1>1, <2>1, <2>2, <2>3 DEF Put
  <2> QED
    BY <1>1, <1>3, <2>4, <2>5, HandledShops
<1> QED
  BY <1>2, <1>3 DEF AddLine

\* Only an open line of a list that is not archived is edited.
LEMMA UpdateLineShops ==
  ASSUME LineInv, NEW r \in Requests, UpdateLine(r) PROVE TxShopped(r)'
<1> DEFINE p    == op[r]
           db   == work[r]
           line == EditedLine(p, db.lines[p.id])
           new  == [db EXCEPT !.lines = Put(@, p.id, line)]
<1>1. Inv /\ IsDb(db) /\ pc[r] = "open" /\ db = disk
  BY ShoppedOn DEF UpdateLine, Running
<1>2. CASE Refuse(r, "404") \/ Refuse(r, "409") \/ Refuse(r, "422")
  BY <1>1, <1>2, RefuseShops
<1>3. CASE /\ ~LineMissing(db, p.list, p.id) /\ ~LineClosed(db, p.list, p.id)
           /\ Handled(r, new, NoClaim)
  <2>1. /\ p.id \in DOMAIN db.lines /\ db.lines[p.id].list = p.list
        /\ ~db.lines[p.id].frozen /\ db.lists[p.list].status # "archived"
    BY <1>3 DEF LineMissing, LineClosed, LinesOf
  <2>2. db.lines[p.id] \in GroceryLine
    BY <2>1, ShoppedOn DEF IsTable
  <2>3. line.list = p.list /\ ~line.frozen
    BY <2>1, <2>2 DEF EditedLine, GroceryLine
  <2>4. new.lines = Put(db.lines, p.id, line) /\ new.lists = db.lists
    BY <1>1 DEF IsDb
  <2> HIDE DEF line, new
  <2>5. ClosedStays(disk, new)
    BY <1>1, <2>1, <2>3, <2>4, ClosedReflexive, PutKeepsClosed
  <2>6. \A j \in DOMAIN new.lines :
          new.lines[j].frozen <=> (j \in DOMAIN disk.lines /\ disk.lines[j].frozen)
    BY <1>1, <2>1, <2>3, <2>4 DEF Put
  <2> QED
    BY <1>1, <1>3, <2>5, <2>6, HandledShops
<1> QED
  BY <1>2, <1>3 DEF UpdateLine

LEMMA DeleteLineShops ==
  ASSUME LineInv, NEW r \in Requests, DeleteLine(r) PROVE TxShopped(r)'
<1> DEFINE p   == op[r]
           db  == work[r]
           new == [db EXCEPT !.lines = Drop(@, {p.id})]
<1>1. Inv /\ IsDb(db) /\ pc[r] = "open" /\ db = disk
  BY ShoppedOn DEF DeleteLine, Running
<1>2. CASE Refuse(r, "404") \/ Refuse(r, "409")
  BY <1>1, <1>2, RefuseShops
<1>3. CASE /\ ~LineMissing(db, p.list, p.id) /\ ~LineClosed(db, p.list, p.id)
           /\ Handled(r, new, NoClaim)
  <2>1. /\ p.id \in DOMAIN db.lines /\ db.lines[p.id].list = p.list
        /\ ~db.lines[p.id].frozen /\ db.lists[p.list].status # "archived"
    BY <1>3 DEF LineMissing, LineClosed, LinesOf
  <2>2. /\ DOMAIN new.lines = DOMAIN db.lines \ {p.id} /\ new.lists = db.lists
        /\ \A j \in DOMAIN new.lines : new.lines[j] = db.lines[j]
    BY <1>1 DEF IsDb, Drop, Restrict
  <2> HIDE DEF new
  <2>3. ClosedStays(disk, new)
    BY <1>1, <2>1, <2>2 DEF ClosedStays, SameLine, LinesOf
  <2>4. \A j \in DOMAIN new.lines :
          new.lines[j].frozen <=> (j \in DOMAIN disk.lines /\ disk.lines[j].frozen)
    BY <1>1, <2>2
  <2> QED
    BY <1>1, <1>3, <2>3, <2>4, HandledShops
<1> QED
  BY <1>2, <1>3 DEF DeleteLine

LEMMA ArchiveShops ==
  ASSUME LineInv, NEW r \in Requests, Archive(r) PROVE TxShopped(r)'
<1> DEFINE l   == op[r].list
           db  == work[r]
           new == [db EXCEPT !.lists = Put(@, l, [status |-> "archived"])]
<1>1. Inv /\ IsDb(db) /\ pc[r] = "open" /\ db = disk
  BY ShoppedOn DEF Archive, Running
<1>2. CASE Refuse(r, "404") \/ Refuse(r, "409")
  BY <1>1, <1>2, RefuseShops
<1>3. CASE db.lists[l].status = "active" /\ Handled(r, new, NoClaim)
  <2>1. new.lines = db.lines /\ new.lists = Put(db.lists, l, [status |-> "archived"])
    BY <1>1 DEF IsDb
  <2> HIDE DEF new
  <2>2. \A m \in DOMAIN db.lists : new.lists[m].status \in {db.lists[m].status, "archived"}
    BY <2>1 DEF Put
  <2>3. ClosedStays(disk, new)
    BY <1>1, <2>1, <2>2 DEF ClosedStays, SameLine, LinesOf
  <2> QED
    BY <1>1, <1>3, <2>1, <2>3, HandledShops
<1> QED
  BY <1>2, <1>3 DEF Archive

LEMMA DeleteListShops ==
  ASSUME LineInv, NEW r \in Requests, DeleteList(r) PROVE TxShopped(r)'
<1> DEFINE l   == op[r].list
           db  == work[r]
           new == [db EXCEPT !.lists = Drop(@, {l}), !.lines = Drop(@, LinesOf(db, l))]
<1>1. Inv /\ IsDb(db) /\ pc[r] = "open" /\ db = disk
  BY ShoppedOn DEF DeleteList, Running
<1>2. CASE Refuse(r, "404")
  BY <1>1, <1>2, RefuseShops
<1>3. CASE Handled(r, new, NoClaim)
  <2>1. new.lists = Drop(db.lists, {l}) /\ new.lines = Drop(db.lines, LinesOf(db, l))
    BY <1>1 DEF IsDb
  <2>2. /\ DOMAIN new.lists = DOMAIN db.lists \ {l}
        /\ \A m \in DOMAIN new.lists : new.lists[m] = db.lists[m]
        /\ DOMAIN new.lines = DOMAIN db.lines \ LinesOf(db, l)
        /\ \A j \in DOMAIN new.lines : new.lines[j] = db.lines[j]
    BY <2>1 DEF Drop, Restrict
  <2> HIDE DEF new
  <2>3. \A m \in DOMAIN new.lists : LinesOf(new, m) = LinesOf(db, m)
    BY <2>2 DEF LinesOf
  <2>4. \A m \in DOMAIN new.lists : \A j \in LinesOf(db, m) : SameLine(db, new, j)
    BY <2>2 DEF LinesOf, SameLine
  <2>5. ClosedStays(disk, new)
    BY <1>1, <2>2, <2>3, <2>4 DEF ClosedStays
  <2> QED
    BY <1>1, <1>3, <2>2, <2>5, HandledShops
<1> QED
  BY <1>2, <1>3 DEF DeleteList

\* A step of a loop that buys nothing.
LEMMA LoopingShops ==
  ASSUME LineInv, NEW r \in Requests, NEW db, NEW rest, Looping(r, db, rest),
         Buys(disk, db, bought[r]), ClosedStays(disk, db),
         op[r].kind = "submit" =>
           /\ op[r].list \in DOMAIN disk.lists /\ disk.lists[op[r].list].status = "active"
           /\ \A i \in rest : i \in LinesOf(disk, op[r].list) /\ SameLine(disk, db, i),
         op[r].kind = "create_list" =>
           /\ DOMAIN disk.lines \subseteq DOMAIN db.lines
           /\ \A line \in rest : ~line.frozen /\ line.list \notin DOMAIN disk.lists
  PROVE  TxShopped(r)'
<1>1. Inv
  BY ShoppedOn
<1>2. /\ pc'[r] = "looping" /\ work'[r] = db /\ todo'[r] = rest
      /\ op' = op /\ bought' = bought /\ disk' = disk
  BY <1>1 DEF Looping, Inv, TypeOK
<1> QED
  BY <1>2 DEF TxShopped, LoopTouches

LEMMA SubmitShops ==
  ASSUME LineInv, NEW r \in Requests, Submit(r) PROVE TxShopped(r)'
<1> DEFINE l  == op[r].list
           db == work[r]
<1>1. Inv /\ pc[r] = "open" /\ op[r].kind = "submit" /\ db = disk /\ bought[r] = {}
  BY ShoppedOn DEF Submit, Running
<1>2. CASE Refuse(r, "404") \/ Refuse(r, "409")
  BY <1>1, <1>2, RefuseShops
<1>3. CASE /\ l \in DOMAIN db.lists /\ db.lists[l].status = "active"
           /\ Looping(r, db, LinesOf(db, l))
  <2>1. Buys(disk, db, {}) /\ ClosedStays(disk, db)
    BY <1>1, ClosedReflexive DEF Buys
  <2>2. \A i \in LinesOf(db, l) : SameLine(disk, db, i)
    BY <1>1 DEF SameLine, LinesOf
  <2> QED
    BY <1>1, <1>3, <2>1, <2>2, LoopingShops
<1> QED
  BY <1>2, <1>3 DEF Submit

\* The lines to insert are open, and of a list nobody has seen.
LEMMA CreateListShops ==
  ASSUME LineInv, NEW r \in Requests, CreateList(r) PROVE TxShopped(r)'
<1> DEFINE p    == op[r]
           db   == work[r]
           l    == NextId(db.lists)
           new  == [db EXCEPT !.lists = Put(@, l, [status |-> "active"])]
           rest == GeneratedLines(l, TotalNeed(p, db), TotalTaste(p, db), db.stock)
<1>1. /\ Inv /\ IsDb(db) /\ pc[r] = "open" /\ p.kind = "create_list"
      /\ db = disk /\ bought[r] = {}
  BY ShoppedOn DEF CreateList, Running
<1>2. CASE Refuse(r, "422")
  BY <1>1, <1>2, RefuseShops
<1>3. CASE Looping(r, new, rest)
  <2>1. l \notin DOMAIN db.lists
    BY ShoppedOn, NextIdIsFresh DEF IsTable
  <2>2. \A line \in rest : ~line.frozen /\ line.list = l
    BY DEF GeneratedLines, NewLine
  <2>3. new.lines = db.lines /\ new.lists = Put(db.lists, l, [status |-> "active"])
    BY <1>1 DEF IsDb
  <2> HIDE DEF l, new, rest
  <2>4. \A m \in DOMAIN db.lists : new.lists[m] = db.lists[m]
    BY <2>1, <2>3 DEF Put
  <2>5. ClosedStays(disk, new)
    BY <1>1, <2>3, <2>4 DEF ClosedStays, SameLine, LinesOf
  <2>6. Buys(disk, new, bought[r])
    BY <1>1, <2>3 DEF Buys
  <2> QED
    BY <1>1, <1>3, <2>1, <2>2, <2>3, <2>5, <2>6, LoopingShops
<1> QED
  BY <1>2, <1>3 DEF CreateList

LEMMA InsertLineShops ==
  ASSUME LineInv, NEW r \in Requests, InsertLine(r) PROVE TxShopped(r)'
<1> DEFINE db == work[r]
<1>1. /\ Inv /\ IsDb(db) /\ pc[r] = "looping" /\ op[r].kind = "create_list"
      /\ Buys(disk, db, bought[r]) /\ ClosedStays(disk, db) /\ LoopTouches(r)
  BY ShoppedOn DEF InsertLine, InLoop, TxShopped, Active
<1>2. PICK line \in todo[r] :
        Looping(r, [db EXCEPT !.lines = Put(@, NextId(@), line)], todo[r] \ {line})
  BY DEF InsertLine
<1> DEFINE i   == NextId(db.lines)
           new == [db EXCEPT !.lines = Put(@, NextId(@), line)]
<1>3. i \notin DOMAIN db.lines
  BY ShoppedOn, NextIdIsFresh DEF IsTable
<1>4. new.lines = Put(db.lines, i, line) /\ new.lists = db.lists
  BY <1>1 DEF IsDb
<1> HIDE DEF i, new
<1>5. /\ DOMAIN disk.lines \subseteq DOMAIN db.lines
      /\ ~line.frozen /\ line.list \notin DOMAIN disk.lists
  BY <1>1 DEF LoopTouches
<1>6. ClosedStays(disk, new)
  BY <1>1, <1>3, <1>4, <1>5, PutKeepsClosed
<1>7. Buys(disk, new, bought[r])
  <2>1. /\ DOMAIN new.lines = DOMAIN db.lines \cup {i} /\ new.lines[i] = line
        /\ \A j \in DOMAIN db.lines : new.lines[j] = db.lines[j]
    BY <1>3, <1>4 DEF Put
  <2> QED
    BY <1>1, <1>3, <1>5, <2>1 DEF Buys
<1>8. DOMAIN disk.lines \subseteq DOMAIN new.lines
  BY <1>4, <1>5 DEF Put
<1> QED
  BY <1>1, <1>2, <1>6, <1>7, <1>8, LoopingShops DEF LoopTouches, new

\* A line is bought as it is on disk: no other request can have bought it meanwhile, and
\* the loop does not come by it twice.
LEMMA SubmitLineShops ==
  ASSUME LineInv, NEW r \in Requests, SubmitLine(r) PROVE TxShopped(r)'
<1> DEFINE db   == work[r]
           i    == Min(todo[r])
           line == db.lines[i]
<1>1. /\ Inv /\ IsDb(db) /\ pc[r] = "looping" /\ op[r].kind = "submit" /\ todo[r] # {}
      /\ Buys(disk, db, bought[r]) /\ ClosedStays(disk, db) /\ LoopTouches(r)
  BY ShoppedOn DEF SubmitLine, InLoop, TxShopped, Active
<1>2. i \in todo[r]
  <2>1. /\ DOMAIN disk.lines \in SUBSET Nat /\ IsFiniteSet(DOMAIN disk.lines)
        /\ todo[r] \subseteq DOMAIN disk.lines
    BY <1>1, ShoppedOn DEF IsTable, Ids, LoopTouches, LinesOf
  <2>2. todo[r] \in SUBSET Nat /\ IsFiniteSet(todo[r])
    BY <2>1, FS_Subset
  <2> QED
    BY <1>1, <2>2, MinIsElement
<1> HIDE DEF i
<1>3. /\ i \in DOMAIN disk.lines /\ disk.lines[i].list = op[r].list
      /\ op[r].list \in DOMAIN disk.lists /\ disk.lists[op[r].list].status = "active"
      /\ i \in DOMAIN db.lines /\ line = disk.lines[i] /\ line \in GroceryLine
  BY <1>1, <1>2, ShoppedOn DEF LoopTouches, LinesOf, SameLine, IsTable
<1>4. CASE Refuse(r, "409")
  BY <1>1, <1>4, RefuseShops
<1>5. CASE Looping(r, db, todo[r] \ {i})
  BY <1>1, <1>5, LoopingShops DEF LoopTouches
<1>6. ASSUME NEW stock, NEW add, Eligible(line),
             work' = [work EXCEPT ![r] =
               [db EXCEPT !.stock = stock,
                          !.lines = Put(@, i, [line EXCEPT !.frozen = TRUE,
                                                           !.applied = add])]],
             bought' = [bought EXCEPT ![r] = @ \cup {i}],
             todo' = [todo EXCEPT ![r] = @ \ {i}],
             UNCHANGED <<disk, pc, op>>
      PROVE  TxShopped(r)'
  <2> DEFINE put == [line EXCEPT !.frozen = TRUE, !.applied = add]
             new == [db EXCEPT !.stock = stock, !.lines = Put(@, i, put)]
  <2>1. put.list = op[r].list /\ put.frozen /\ ~line.frozen
    BY <1>3, <1>6 DEF GroceryLine, Eligible
  <2> HIDE DEF put
  <2>2. new.lines = Put(db.lines, i, put) /\ new.lists = db.lists
    BY <1>1 DEF IsDb
  <2>3. work'[r] = new
    BY <1>1, <1>6 DEF Inv, TypeOK, put
  <2> HIDE DEF new
  <2>4. ClosedStays(disk, new)
    <3>1. /\ db.lines[i].list = op[r].list /\ ~disk.lines[i].frozen
          /\ disk.lists[op[r].list].status # "archived"
      BY <1>3, <2>1
    <3> HIDE DEF db
    <3> QED
      BY <1>1, <1>3, <2>1, <2>2, <3>1, PutKeepsClosed
  <2>5. /\ DOMAIN new.lines = DOMAIN db.lines \cup {i} /\ new.lines[i] = put
        /\ \A j \in DOMAIN db.lines \ {i} : new.lines[j] = db.lines[j]
    BY <2>2 DEF Put
  <2>6. Buys(disk, new, bought[r] \cup {i})
    BY <1>1, <1>3, <2>1, <2>5 DEF Buys
  <2>7. \A j \in todo[r] \ {i} : j \in LinesOf(disk, op[r].list) /\ SameLine(disk, new, j)
    BY <1>1, <2>5 DEF LoopTouches, SameLine
  <2>8. bought'[r] = bought[r] \cup {i} /\ todo'[r] = todo[r] \ {i}
    BY <1>1, <1>6 DEF Inv, TypeOK
  <2> QED
    BY <1>1, <1>3, <1>6, <2>3, <2>4, <2>6, <2>7, <2>8 DEF TxShopped, LoopTouches
<1> QED
  BY <1>1, <1>4, <1>5, <1>6 DEF SubmitLine, LineOverflows, i

\* A cook leaves the lines and the lists alone.
LEMMA CookingShops ==
  ASSUME LineInv, NEW r \in Requests, Cook(r) \/ CookRow(r) \/ LoopDone(r)
  PROVE  TxShopped(r)'
<1> DEFINE db == work[r]
<1>1. /\ Inv /\ IsDb(db)
      /\ pc[r] \in Active /\ Buys(disk, db, bought[r]) /\ ClosedStays(disk, db)
  BY ShoppedOn DEF Cook, CookRow, LoopDone, Running, InLoop, TxShopped, Active
<1>2. CASE Cook(r)
  <2>1. ASSUME NEW logs, NEW rest, op[r].kind = "cook",
               Looping(r, [db EXCEPT !.logs = logs], rest)
        PROVE  TxShopped(r)'
    <3>1. [db EXCEPT !.logs = logs].lines = db.lines /\ [db EXCEPT !.logs = logs].lists = db.lists
      BY <1>1 DEF IsDb
    <3>2. /\ Buys(disk, [db EXCEPT !.logs = logs], bought[r])
          /\ ClosedStays(disk, [db EXCEPT !.logs = logs])
      BY <1>1, <3>1 DEF Buys, ClosedStays, SameLine, LinesOf
    <3> QED
      BY <2>1, <3>2, LoopingShops
  <2> QED
    BY <1>1, <1>2, <2>1, RefuseShops DEF Cook, Running
<1>3. CASE CookRow(r)
  <2>1. PICK stock : work'[r] = [db EXCEPT !.stock = stock]
    BY <1>1, <1>3 DEF CookRow, Inv, TypeOK
  <2>2. work'[r].lines = db.lines /\ work'[r].lists = db.lists
    BY <1>1, <2>1 DEF IsDb
  <2>3. Buys(disk, work'[r], bought[r]) /\ ClosedStays(disk, work'[r])
    BY <1>1, <2>2 DEF Buys, ClosedStays, SameLine, LinesOf
  <2>4. pc'[r] = "looping" /\ op'[r].kind = "cook" /\ bought' = bought /\ disk' = disk
    BY <1>3 DEF CookRow, InLoop
  <2> QED
    BY <2>3, <2>4 DEF TxShopped, LoopTouches
<1>4. CASE LoopDone(r)
  <2>1. pc'[r] = "handled" /\ work' = work /\ bought' = bought /\ disk' = disk
    BY <1>1, <1>4 DEF LoopDone, Inv, TypeOK
  <2> QED
    BY <1>1, <2>1 DEF TxShopped
<1> QED
  BY <1>2, <1>3, <1>4

LEMMA HandlerShops ==
  ASSUME LineInv, NEW r \in Requests, Handler(r) PROVE TxShopped(r)'
  BY StockHandlersShop, AddLineShops, UpdateLineShops, DeleteLineShops, ArchiveShops,
     DeleteListShops, SubmitShops, CreateListShops, InsertLineShops, SubmitLineShops,
     CookingShops
     DEF Handler

-----------------------------------------------------------------------------
(* The whole system.                                                        *)

LEMMA LineNext == LineInv /\ [Next]_vars => LineInv'
<1> SUFFICES ASSUME LineInv, [Next]_vars PROVE LineInv'
  OBVIOUS
<1>1. LogInv'
  BY LogNext DEF LineInv
<1>2. SUFFICES Shopped'
  BY <1>1 DEF LineInv
<1>3. Inv /\ TypeOK /\ Exclusive
  BY DEF LineInv, LogInv, LinkInv, StockInv, TxInv, Inv
\* A step after which every open transaction is as it was.
<1>4. ASSUME UNCHANGED <<disk, paid>>,
             \A q \in Requests :
               \/ pc'[q] \notin {"idle", "waiting"} \cup Active
               \/ /\ pc'[q] = pc[q] \/ (pc[q] = "idle" /\ pc'[q] = "waiting")
                  /\ op'[q] = op[q] \/ pc'[q] = "waiting"
                  /\ work'[q] = work[q] /\ todo'[q] = todo[q] /\ bought'[q] = bought[q]
      PROVE  Shopped'
  <2>1. ASSUME NEW q \in Requests PROVE TxShopped(q)'
    <3>1. TxShopped(q)
      BY DEF LineInv, Shopped
    <3>2. CASE pc'[q] \notin {"idle", "waiting"} \cup Active
      BY <3>2 DEF TxShopped, Active
    <3>3. CASE /\ pc[q] = "idle" /\ pc'[q] = "waiting" /\ bought'[q] = bought[q]
      BY <3>1, <3>3 DEF TxShopped, Active
    <3>4. CASE /\ \/ pc'[q] = pc[q] /\ op'[q] = op[q]
                  \/ pc'[q] = "waiting"
               /\ work'[q] = work[q] /\ todo'[q] = todo[q] /\ bought'[q] = bought[q]
      BY <1>4, <3>1, <3>4 DEF TxShopped, LoopTouches, Active
    <3> QED
      BY <1>4, <3>2, <3>3, <3>4
  <2>2. PaidOnce'
    BY <1>4 DEF LineInv, Shopped, PaidOnce
  <2> QED
    BY <2>1, <2>2 DEF Shopped
<1>5. ASSUME NEW r \in Requests, Handler(r) \/ Begin(r) PROVE Shopped'
  <2>1. /\ UNCHANGED <<disk, op, paid>>
        /\ \A q \in Requests \ {r} : /\ pc'[q] = pc[q] /\ work'[q] = work[q]
                                     /\ todo'[q] = todo[q] /\ bought'[q] = bought[q]
    BY <1>3, <1>5, HandlerShape DEF Begin, TypeOK, histVars
  <2>2. TxShopped(r)'
    <3>1. CASE Handler(r)
      BY <3>1, HandlerShops
    <3>2. CASE Begin(r)
      <4>1. /\ pc[r] = "waiting" /\ pc'[r] = "open" /\ work'[r] = disk
            /\ disk' = disk /\ bought' = bought
        BY <1>3, <3>2 DEF Begin, TypeOK
      <4>2. bought[r] = {}
        BY <4>1 DEF LineInv, Shopped, TxShopped
      <4> QED
        BY <4>1, <4>2, ClosedReflexive DEF TxShopped, Buys
    <3> QED
      BY <1>5, <3>1, <3>2
  <2>3. ASSUME NEW q \in Requests \ {r} PROVE TxShopped(q)'
    BY <2>1 DEF LineInv, Shopped, TxShopped, LoopTouches
  <2>4. PaidOnce'
    BY <2>1 DEF LineInv, Shopped, PaidOnce
  <2> QED
    BY <2>2, <2>3, <2>4 DEF Shopped
<1>6. ASSUME NEW r \in Requests, Send(r) \/ BusyTimeout(r) \/ CommitBusy(r) \/ Respond(r)
      PROVE  Shopped'
  <2>1. \/ pc'[r] = "answered"
        \/ /\ pc[r] = "idle" /\ pc'[r] = "waiting" /\ work'[r] = work[r]
           /\ todo'[r] = todo[r] /\ bought'[r] = bought[r]
    BY <1>3, <1>6 DEF Send, BusyTimeout, CommitBusy, Refuse, Respond, TypeOK
  <2>2. \A q \in Requests \ {r} :
          /\ pc'[q] = pc[q] /\ op'[q] = op[q]
          /\ work'[q] = work[q] /\ todo'[q] = todo[q] /\ bought'[q] = bought[q]
    BY <1>3, <1>6 DEF Send, BusyTimeout, CommitBusy, Refuse, Respond, TypeOK
  <2>3. UNCHANGED <<disk, paid>>
    BY <1>6 DEF Send, BusyTimeout, CommitBusy, Refuse, Respond, histVars
  <2> QED
    BY <1>4, <2>1, <2>2, <2>3 DEF Active
\* What the commit publishes as frozen was frozen and paid, or is bought and was neither.
<1>7. ASSUME NEW r \in Requests, Commit(r) PROVE Shopped'
  <2>1. /\ pc[r] \in Active /\ disk' = work[r]
        /\ paid' = [i \in DOMAIN work[r].lines |->
                      (IF i \in DOMAIN paid THEN paid[i] ELSE 0)
                      + (IF i \in bought[r] THEN 1 ELSE 0)]
    BY <1>7 DEF Commit, Active
  <2>2. Buys(disk, work[r], bought[r]) /\ PaidOnce
    BY <2>1 DEF LineInv, Shopped, TxShopped
  <2>3. ASSUME NEW i \in DOMAIN paid'
        PROVE  paid'[i] = IF work[r].lines[i].frozen THEN 1 ELSE 0
    <3>1. CASE i \in bought[r]
      BY <2>1, <2>2, <2>3, <3>1 DEF Buys, PaidOnce
    <3>2. CASE i \notin bought[r]
      <4>1. work[r].lines[i].frozen <=> (i \in DOMAIN disk.lines /\ disk.lines[i].frozen)
        BY <2>1, <2>2, <2>3, <3>2 DEF Buys
      <4> QED
        BY <2>1, <2>2, <2>3, <3>2, <4>1 DEF PaidOnce
    <3> QED
      BY <3>1, <3>2
  <2>4. PaidOnce'
    BY <2>1, <2>3 DEF PaidOnce
  <2>5. ASSUME NEW q \in Requests PROVE TxShopped(q)'
    <3>1. pc'[q] \notin Active
      BY <1>3, <1>7 DEF Commit, Exclusive, TypeOK, Active
    <3>2. bought'[q] = {} \/ (bought'[q] = bought[q] /\ pc'[q] = pc[q])
      BY <1>3, <1>7 DEF Commit, TypeOK
    <3> QED
      BY <3>1, <3>2 DEF LineInv, Shopped, TxShopped, Active
  <2> QED
    BY <2>4, <2>5 DEF Shopped
<1>8. CASE Crash
  <2>1. /\ UNCHANGED <<disk, paid>>
        /\ \A q \in Requests : bought'[q] = {} /\ pc'[q] \notin Active
    BY <1>3, <1>8 DEF Crash, TypeOK, Active, histVars
  <2> QED
    BY <2>1 DEF LineInv, Shopped, PaidOnce, TxShopped, Active
<1>9. CASE BackupStart \/ BackupEnd \/ UNCHANGED vars
  BY <1>4, <1>9 DEF BackupStart, BackupEnd, vars, txVars, histVars
<1> QED
  BY <1>5, <1>6, <1>7, <1>8, <1>9 DEF Next, Serve

\* A grocery line enters the stock once, however many submits race, repeat or are
\* retried after a lost answer, and it is frozen if and only if it has entered it
\* (submit_grocery_list of grocery.py).
THEOREM BoughtOnce == Spec => []PaidOnce
<1>1. LineInv => PaidOnce
  BY DEF LineInv, Shopped
<1> QED
  BY <1>1, LineInit, LineNext, PTL DEF Spec

\* A frozen line is never edited, unfrozen or removed, and an archived list neither
\* gains, loses nor changes a line nor opens again, until the whole list is deleted
\* (_check_line_mutable of grocery.py).
THEOREM ClosedKept == Spec => ClosedStaysClosed
<1>1. LineInv /\ [Next]_vars => [ClosedStays(disk, disk')]_vars
  <2> SUFFICES ASSUME LineInv, [Next]_vars PROVE ClosedStays(disk, disk')
    OBVIOUS
  <2>1. Inv
    BY DEF LineInv, LogInv, LinkInv, StockInv, TxInv
  <2>2. CASE disk' = disk
    BY <2>2, ClosedReflexive
  <2>3. ASSUME NEW r \in Requests, Commit(r) PROVE ClosedStays(disk, disk')
    BY <2>3 DEF Commit, LineInv, Shopped, TxShopped, Active
  <2> QED
    BY <2>1, <2>2, <2>3, DiskMoves
<1> QED
  BY <1>1, LineInit, LineNext, PTL DEF Spec, ClosedStaysClosed

-----------------------------------------------------------------------------
(* Generated lists.                                                         *)

\* The line that generate_lines makes for a key the stock falls short of.
ShortLine(l, need, stock, k) ==
  NewLine(l, Author[k[1]], CanonUnit[k[2]], need[k] - QtyOf(stock, k),
          "generated", ~Incompatible(stock, k))

\* A line that stands for an amount of a key.
Stands(line, k) ==
  line.qty # NoQty /\ line.item = Author[k[1]] /\ BucketOf[line.unit] = k[2]

\* Of the generated lines only the one made for a key stands for the key, and with
\* the stock it makes up the need: Author gives every name a text of its own, and
\* the canonical unit of a bucket has the scale 1.
LEMMA ShortLinesStand ==
  ASSUME NEW l, NEW need \in [Keys -> Nat], NEW taste, NEW stock,
         \A k : QtyOf(stock, k) \in Nat, NEW k \in Keys
  PROVE  /\ \A line \in GeneratedLines(l, need, taste, stock) :
              Stands(line, k) => /\ k \in Shortfalls(need, stock)
                                 /\ line = ShortLine(l, need, stock, k)
         /\ k \in Shortfalls(need, stock) =>
              /\ ShortLine(l, need, stock, k) \in GeneratedLines(l, need, taste, stock)
              /\ Stands(ShortLine(l, need, stock, k), k)
              /\ AddBase(ShortLine(l, need, stock, k).qty, ShortLine(l, need, stock, k).unit)
                   + QtyOf(stock, k) = need[k]
<1>1. \A x \in Keys :
        /\ x[1] \in Names /\ x[2] \in Buckets /\ x = <<x[1], x[2]>>
        /\ Norm[Author[x[1]]] = x[1]
        /\ BucketOf[CanonUnit[x[2]]] = x[2] /\ Scale[CanonUnit[x[2]]] = 1
  BY TextAssumption, UnitAssumption DEF Keys
<1>2. ASSUME NEW line \in GeneratedLines(l, need, taste, stock), Stands(line, k)
      PROVE  k \in Shortfalls(need, stock) /\ line = ShortLine(l, need, stock, k)
  <2>1. CASE \E n : line = NewLine(l, Author[n], NoUnit, NoQty, "generated", FALSE)
    BY <1>2, <2>1 DEF Stands, NewLine
  <2>2. ASSUME NEW x \in Shortfalls(need, stock), line = ShortLine(l, need, stock, x)
        PROVE  k \in Shortfalls(need, stock) /\ line = ShortLine(l, need, stock, k)
    <3>1. line.item = Author[x[1]] /\ line.unit = CanonUnit[x[2]]
      BY <2>2 DEF ShortLine, NewLine
    <3>2. x \in Keys
      BY DEF Shortfalls
    <3>3. x[1] = k[1] /\ x[2] = k[2]
      BY <1>1, <1>2, <3>1, <3>2 DEF Stands
    <3>4. x = k
      BY <1>1, <3>2, <3>3
    <3> QED
      BY <2>2, <3>4
  <2> QED
    BY <2>1, <2>2 DEF GeneratedLines, ShortLine
<1>3. ASSUME k \in Shortfalls(need, stock)
      PROVE  /\ ShortLine(l, need, stock, k) \in GeneratedLines(l, need, taste, stock)
             /\ Stands(ShortLine(l, need, stock, k), k)
             /\ AddBase(ShortLine(l, need, stock, k).qty, ShortLine(l, need, stock, k).unit)
                  + QtyOf(stock, k) = need[k]
  <2>1. /\ ShortLine(l, need, stock, k).qty = need[k] - QtyOf(stock, k)
        /\ ShortLine(l, need, stock, k).item = Author[k[1]]
        /\ ShortLine(l, need, stock, k).unit = CanonUnit[k[2]]
    BY DEF ShortLine, NewLine
  <2>2. need[k] \in Nat /\ QtyOf(stock, k) \in Nat /\ need[k] > QtyOf(stock, k)
    BY <1>3 DEF Shortfalls
  <2>3. need[k] - QtyOf(stock, k) \in Nat
    BY <2>2
  <2>4. ShortLine(l, need, stock, k) \in GeneratedLines(l, need, taste, stock)
    BY <1>3 DEF GeneratedLines, ShortLine
  <2>5. Stands(ShortLine(l, need, stock, k), k)
    BY <1>1, <2>1, <2>3, AmountAssumption DEF Stands
  <2>6. AddBase(need[k] - QtyOf(stock, k), CanonUnit[k[2]]) + QtyOf(stock, k) = need[k]
    BY <1>1, <2>2 DEF AddBase
  <2> QED
    BY <2>1, <2>4, <2>5, <2>6
<1> QED
  BY <1>2, <1>3

\* What a transaction that generates a list wants to list.
Generated(r, l) ==
  GeneratedLines(l, TotalNeed(op[r], disk), TotalTaste(op[r], disk), disk.stock)

\* A generation on its way: one list is new, and every generated line is inserted
\* into it once or still to come.
Lists(r, l) ==
  /\ l \notin DOMAIN disk.lists /\ DOMAIN work[r].lists = DOMAIN disk.lists \cup {l}
  /\ todo[r] \subseteq Generated(r, l)
  /\ \A i \in LinesOf(work[r], l) : work[r].lines[i] \in Generated(r, l) \ todo[r]
  /\ \A i, j \in LinesOf(work[r], l) : work[r].lines[i] = work[r].lines[j] => i = j
  /\ \A line \in Generated(r, l) \ todo[r] :
       \E i \in LinesOf(work[r], l) : work[r].lines[i] = line

TxListed(r) ==
  pc[r] \in {"looping", "handled"} /\ op[r].kind = "create_list" =>
    /\ ~BadSelection(op[r], disk)
    /\ work[r].stock = disk.stock
    /\ pc[r] = "handled" => todo[r] = {}
    /\ \E l \in Ids : Lists(r, l)

ListInv == LineInv /\ \A r \in Requests : TxListed(r)

LEMMA ListInit == Init => ListInv
  BY LineInit DEF Init, ListInv, TxListed

LEMMA CreateListLists ==
  ASSUME ListInv, NEW r \in Requests, CreateList(r) PROVE TxListed(r)'
<1> PICK l : l = NextId(work[r].lists)
  OBVIOUS
<1> DEFINE p    == op[r]
           db   == work[r]
           new  == [db EXCEPT !.lists = Put(@, l, [status |-> "active"])]
           rest == GeneratedLines(l, TotalNeed(p, db), TotalTaste(p, db), db.stock)
<1>1. /\ Inv /\ IsDb(db) /\ pc[r] = "open" /\ p.kind = "create_list"
      /\ db = disk /\ ForeignKeys(disk)
  BY ShoppedOn DEF CreateList, Running, ListInv
<1>2. CASE Refuse(r, "422")
  <2>1. pc'[r] = "answered"
    BY <1>1, <1>2 DEF Refuse, Inv, TypeOK
  <2> QED
    BY <2>1 DEF TxListed
<1>3. CASE ~BadSelection(p, db) /\ Looping(r, new, rest)
  <2>1. l \in Ids /\ l \notin DOMAIN db.lists
    BY ShoppedOn, NextIdIsFresh DEF IsTable, ListInv
  <2>2. rest = Generated(r, l)
    BY <1>1 DEF Generated
  <2>3. /\ new.lines = db.lines /\ new.stock = db.stock
        /\ new.lists = Put(db.lists, l, [status |-> "active"])
    BY <1>1 DEF IsDb
  <2>4. /\ pc'[r] = "looping" /\ work'[r] = new /\ todo'[r] = rest
        /\ op' = op /\ disk' = disk
    BY <1>1, <1>3 DEF Looping, Inv, TypeOK
  <2> HIDE DEF new, rest
  <2>5. Generated(r, l)' = Generated(r, l)
    BY <2>4 DEF Generated
  <2>6. LinesOf(new, l) = {}
    BY <1>1, <2>1, <2>3 DEF ForeignKeys, LinesOf
  <2>7. DOMAIN new.lists = DOMAIN disk.lists \cup {l}
    BY <1>1, <2>3 DEF Put
  <2>8. Lists(r, l)'
    BY <1>1, <2>1, <2>2, <2>4, <2>5, <2>6, <2>7 DEF Lists
  <2> QED
    BY <1>1, <1>3, <2>1, <2>3, <2>4, <2>8 DEF TxListed
<1> QED
  BY <1>2, <1>3 DEF CreateList

LEMMA InsertLineLists ==
  ASSUME ListInv, NEW r \in Requests, InsertLine(r) PROVE TxListed(r)'
<1> DEFINE db == work[r]
<1>1. /\ Inv /\ IsDb(db) /\ pc[r] = "looping" /\ op[r].kind = "create_list" /\ TxListed(r)
  BY ShoppedOn DEF InsertLine, InLoop, ListInv
<1>2. PICK line \in todo[r] :
        Looping(r, [db EXCEPT !.lines = Put(@, NextId(@), line)], todo[r] \ {line})
  BY DEF InsertLine
<1>3. PICK l \in Ids : Lists(r, l)
  BY <1>1 DEF TxListed
<1> DEFINE i   == NextId(db.lines)
           new == [db EXCEPT !.lines = Put(@, NextId(@), line)]
<1>4. i \notin DOMAIN db.lines
  BY ShoppedOn, NextIdIsFresh DEF IsTable, ListInv
<1>5. new.lines = Put(db.lines, i, line) /\ new.lists = db.lists /\ new.stock = db.stock
  BY <1>1 DEF IsDb
<1>6. /\ pc'[r] = "looping" /\ work'[r] = new /\ todo'[r] = todo[r] \ {line}
      /\ op' = op /\ disk' = disk
  BY <1>1, <1>2 DEF Looping, Inv, TypeOK
<1> HIDE DEF i, new
<1>7. Generated(r, l)' = Generated(r, l)
  BY <1>6 DEF Generated
<1>8. /\ DOMAIN new.lines = DOMAIN db.lines \cup {i} /\ new.lines[i] = line
      /\ \A j \in DOMAIN db.lines : new.lines[j] = db.lines[j]
  BY <1>4, <1>5 DEF Put
<1>9. line \in Generated(r, l) /\ line.list = l
  <2>1. line \in Generated(r, l)
    BY <1>3 DEF Lists
  <2>2. \A x \in Generated(r, l) : x.list = l
    BY DEF Generated, GeneratedLines, NewLine
  <2> QED
    BY <2>1, <2>2
<1>10. LinesOf(new, l) = LinesOf(db, l) \cup {i}
  BY <1>4, <1>8, <1>9 DEF LinesOf
<1>11. \A j \in LinesOf(db, l) : j # i /\ new.lines[j] = db.lines[j]
  BY <1>4, <1>8 DEF LinesOf
<1>12. /\ \A j \in LinesOf(new, l) : new.lines[j] \in Generated(r, l) \ (todo[r] \ {line})
       /\ \A j, k \in LinesOf(new, l) : new.lines[j] = new.lines[k] => j = k
       /\ \A x \in Generated(r, l) \ (todo[r] \ {line}) :
            \E j \in LinesOf(new, l) : new.lines[j] = x
  BY <1>3, <1>8, <1>9, <1>10, <1>11 DEF Lists
<1>13. Lists(r, l)'
  BY <1>3, <1>5, <1>6, <1>7, <1>12 DEF Lists
<1> QED
  BY <1>1, <1>3, <1>5, <1>6, <1>13 DEF TxListed

LEMMA HandlerLists ==
  ASSUME ListInv, NEW r \in Requests, Handler(r) PROVE TxListed(r)'
<1>1. Inv /\ op' = op
  BY ShoppedOn, HandlerShape DEF ListInv
<1>2. CASE Unauthenticated(r)
  <2>1. pc'[r] = "answered"
    BY <1>1, <1>2 DEF Unauthenticated, Refuse, Inv, TypeOK
  <2> QED
    BY <2>1 DEF TxListed
<1>3. CASE CreateList(r) \/ InsertLine(r)
  BY <1>3, CreateListLists, InsertLineLists
<1>4. CASE LoopDone(r)
  <2>1. /\ pc[r] = "looping" /\ pc'[r] = "handled" /\ todo[r] = {}
        /\ work' = work /\ todo' = todo /\ disk' = disk
    BY <1>1, <1>4 DEF LoopDone, Inv, TypeOK
  <2>2. \A l : Lists(r, l) => Lists(r, l)'
    BY <1>1, <2>1 DEF Lists, Generated
  <2> QED
    BY <1>1, <2>1, <2>2 DEF ListInv, TxListed
<1>5. CASE op[r].kind # "create_list"
  BY <1>1, <1>5 DEF TxListed
<1>6. \/ Unauthenticated(r) \/ CreateList(r) \/ InsertLine(r) \/ LoopDone(r)
      \/ op[r].kind # "create_list"
  BY DEF Handler, Read, AddInventory, UpdateInventory, DeleteInventory, DeleteList, AddLine,
         UpdateLine, DeleteLine, Submit, SubmitLine, Archive, Cook, CookRow, CreateRecipe,
         UpdateRecipe, DeleteRecipe, Running, InLoop
<1> QED
  BY <1>2, <1>3, <1>4, <1>5, <1>6

LEMMA ListNext == ListInv /\ [Next]_vars => ListInv'
<1> SUFFICES ASSUME ListInv, [Next]_vars PROVE ListInv'
  OBVIOUS
<1>1. LineInv'
  BY LineNext DEF ListInv
<1>2. SUFFICES ASSUME NEW q \in Requests PROVE TxListed(q)'
  BY <1>1 DEF ListInv
<1>3. Inv /\ TypeOK /\ Exclusive /\ TxListed(q)
  BY DEF ListInv, LineInv, LogInv, LinkInv, StockInv, TxInv, Inv
<1>4. CASE pc'[q] \notin {"looping", "handled"}
  BY <1>4 DEF TxListed
<1>5. CASE UNCHANGED <<disk, pc, op, work, todo>>
  <2>1. \A l : Lists(q, l) => Lists(q, l)'
    BY <1>5 DEF Lists, Generated
  <2> QED
    BY <1>3, <1>5, <2>1 DEF TxListed
<1>6. ASSUME pc'[q] = pc[q], op'[q] = op[q], work'[q] = work[q], todo'[q] = todo[q],
             disk' = disk
      PROVE  TxListed(q)'
  <2>1. \A l : Lists(q, l) => Lists(q, l)'
    BY <1>6 DEF Lists, Generated
  <2> QED
    BY <1>3, <1>6, <2>1 DEF TxListed
<1>7. ASSUME NEW r \in Requests, Handler(r) PROVE TxListed(q)'
  <2>1. CASE q = r
    BY <1>7, <2>1, HandlerLists
  <2>2. CASE q # r
    BY <1>3, <1>6, <1>7, <2>2, HandlerShape
  <2> QED
    BY <2>1, <2>2
<1>8. ASSUME NEW r \in Requests,
             Send(r) \/ Begin(r) \/ BusyTimeout(r) \/ CommitBusy(r) \/ Respond(r)
      PROVE  TxListed(q)'
  <2>1. /\ disk' = disk
        /\ \/ pc'[q] \notin {"looping", "handled"}
           \/ /\ pc'[q] = pc[q] /\ op'[q] = op[q]
              /\ work'[q] = work[q] /\ todo'[q] = todo[q]
    BY <1>3, <1>8 DEF Send, Begin, BusyTimeout, CommitBusy, Refuse, Respond, TypeOK
  <2> QED
    BY <1>4, <1>6, <2>1
<1>9. ASSUME NEW r \in Requests, Commit(r) PROVE TxListed(q)'
  <2>1. pc'[q] \notin {"looping", "handled"}
    BY <1>3, <1>9 DEF Commit, Exclusive, TypeOK, Active
  <2> QED
    BY <1>4, <2>1
<1>10. CASE Crash
  <2>1. pc'[q] \notin {"looping", "handled"}
    BY <1>3, <1>10 DEF Crash, TypeOK
  <2> QED
    BY <1>4, <2>1
<1>11. CASE BackupStart \/ BackupEnd \/ UNCHANGED vars
  BY <1>5, <1>11 DEF BackupStart, BackupEnd, vars, txVars
<1> QED
  BY <1>7, <1>8, <1>9, <1>10, <1>11 DEF Next, Serve

\* A generation that is done has listed what the property asks for.
LEMMA ListedCovers ==
  ASSUME ListInv, NEW r \in Requests, pc[r] = "handled", op[r].kind = "create_list"
  PROVE  ListCovers(op[r], disk, work[r])
<1> DEFINE p    == op[r]
           new  == work[r]
           need == TotalNeed(p, disk)
<1>1. /\ Inv /\ TxListed(r) /\ IsDb(disk) /\ p \in OpType
      /\ \A k : QtyOf(disk.stock, k) \in Nat
  <2>1. Inv /\ IsDb(disk)
    BY ShoppedOn DEF ListInv, Inv, TypeOK
  <2>2. \A k : QtyOf(disk.stock, k) \in Nat
    BY <2>1, QtyOfType DEF IsDb
  <2> QED
    BY <2>1, <2>2, WorkType DEF ListInv
<1>2. /\ new.stock = disk.stock /\ todo[r] = {} /\ ~BadSelection(p, disk)
      /\ \E l \in Ids : Lists(r, l)
  BY <1>1 DEF TxListed
<1>3. PICK l \in Ids : Lists(r, l)
  BY <1>2
<1>4. need \in [Keys -> Nat]
  <2>1. /\ p.first \in Ids /\ p.second \in Ids \cup {NoRecipe}
        /\ p.times[1] \in Nat /\ p.times[2] \in Nat
    BY <1>1, OpFields DEF Ids
  <2> QED
    BY <1>1, <1>2, <2>1, TotalNeedType DEF IsDb
<1>5. l = CHOOSE x \in DOMAIN new.lists : x \notin DOMAIN disk.lists
  BY <1>3 DEF Lists
<1>6. /\ \A i \in LinesOf(new, l) : new.lines[i] \in Generated(r, l)
      /\ \A i, j \in LinesOf(new, l) : new.lines[i] = new.lines[j] => i = j
      /\ \A line \in Generated(r, l) : \E i \in LinesOf(new, l) : new.lines[i] = line
  BY <1>2, <1>3 DEF Lists
<1>7. Generated(r, l) = GeneratedLines(l, need, TotalTaste(p, disk), disk.stock)
  BY DEF Generated
<1> HIDE DEF p, new, need
<1> DEFINE listed(k) == {i \in LinesOf(new, l) : /\ new.lines[i].qty # NoQty
                                                 /\ new.lines[i].item = Author[k[1]]
                                                 /\ BucketOf[new.lines[i].unit] = k[2]}
<1>8. ASSUME NEW k \in Keys
      PROVE  IF need[k] <= QtyOf(new.stock, k) THEN listed(k) = {}
             ELSE \E i \in listed(k) :
                    /\ listed(k) = {i}
                    /\ AddBase(new.lines[i].qty, new.lines[i].unit) + QtyOf(new.stock, k)
                         = need[k]
  <2> DEFINE short == ShortLine(l, need, disk.stock, k)
  <2>1. /\ \A line \in Generated(r, l) :
             Stands(line, k) => k \in Shortfalls(need, disk.stock) /\ line = short
        /\ k \in Shortfalls(need, disk.stock) =>
             /\ short \in Generated(r, l) /\ Stands(short, k)
             /\ AddBase(short.qty, short.unit) + QtyOf(disk.stock, k) = need[k]
    BY <1>1, <1>4, <1>7, ShortLinesStand
  <2> HIDE DEF short
  <2>2. listed(k) = {i \in LinesOf(new, l) : Stands(new.lines[i], k)}
    BY DEF Stands
  <2>3. need[k] \in Nat /\ QtyOf(disk.stock, k) \in Nat
    BY <1>1, <1>4
  <2>4. k \in Shortfalls(need, disk.stock) <=> ~(need[k] <= QtyOf(disk.stock, k))
    BY <2>3 DEF Shortfalls
  <2> HIDE DEF listed
  <2>5. CASE k \notin Shortfalls(need, disk.stock)
    BY <1>2, <1>6, <2>1, <2>2, <2>4, <2>5 DEF new
  <2>6. CASE k \in Shortfalls(need, disk.stock)
    <3>1. PICK i \in LinesOf(new, l) : new.lines[i] = short
      BY <1>6, <2>1, <2>6
    <3>2. listed(k) = {i}
      BY <1>6, <2>1, <2>2, <2>6, <3>1
    <3> QED
      BY <1>2, <2>1, <2>4, <2>6, <3>1, <3>2 DEF new
  <2> QED
    BY <2>5, <2>6
<1> QED
  BY <1>5, <1>8 DEF ListCovers, need, p, new

\* A new grocery list is exact on the stock it is committed with: for every need of the
\* recipes the stock and the list together hold the need, and nothing is listed that the
\* stock covers (generate_lines of inventory_math.py, create_grocery_list of grocery.py).
THEOREM GeneratedCovers == Spec => ListCoversNeed
<1>1. ListInv /\ [Next]_vars =>
        [\A r \in committed' \ committed :
           op[r].kind = "create_list" => ListCovers(op[r], disk, disk')]_vars
  <2> SUFFICES ASSUME ListInv, [Next]_vars, NEW r \in committed' \ committed,
                      op[r].kind = "create_list"
               PROVE  ListCovers(op[r], disk, disk')
    OBVIOUS
  <2>1. Inv
    BY DEF ListInv, LineInv, LogInv, LinkInv, StockInv, TxInv
  <2>2. r \in Requests /\ Commit(r)
    <3>1. ASSUME NEW q \in Requests, Handler(q) PROVE committed' = committed
      BY <2>1, <3>1, HandlerShape DEF histVars
    <3>2. ASSUME NEW q \in Requests,
                 Send(q) \/ Begin(q) \/ BusyTimeout(q) \/ CommitBusy(q) \/ Respond(q)
          PROVE  committed' = committed
      BY <3>2 DEF Send, Begin, BusyTimeout, CommitBusy, Refuse, Respond, histVars
    <3>3. CASE Crash \/ BackupStart \/ BackupEnd \/ UNCHANGED vars
      BY <3>3 DEF Crash, BackupStart, BackupEnd, vars, histVars
    <3>4. ASSUME NEW q \in Requests, Commit(q) PROVE committed' = committed \cup {q}
      BY <3>4 DEF Commit
    <3> QED
      BY <3>1, <3>2, <3>3, <3>4 DEF Next, Serve
  <2>3. pc[r] = "handled" /\ disk' = work[r]
    BY <2>2 DEF Commit
  <2> QED
    BY <2>2, <2>3, ListedCovers
<1> QED
  BY <1>1, ListInit, ListNext, PTL DEF Spec, ListCoversNeed
==============================================================================

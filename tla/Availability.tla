---------------------------- MODULE Availability ----------------------------
(***************************************************************************)
(* What a recipe needs and what the household has, computed three times:   *)
(* check_availability for the recipe's screen, which groups its lines into *)
(* a table and a banner; generate_lines for a grocery list (KitchenDb);    *)
(* and deduct_calc when the recipe is cooked, whose entries the history    *)
(* sums up.  The household cooks the recipe again and again.               *)
(***************************************************************************)
EXTENDS KitchenDb, SequencesExt

CONSTANTS
  Amounts,      \* the quantities of a recipe's ingredients, at least 1
  MaxLines,     \* bound on its ingredients
  Held,         \* the quantities in stock at the start
  Multipliers   \* the multipliers the recipe is cooked at

VARIABLES
  reqs,   \* the ingredients of the recipe in their order
  stock,  \* inventory_items
  log     \* the deductions of the last cook

vars == <<reqs, stock, log>>

Ingredient == [name : Names, unit : Units, qty : Amounts \cup {NoQty}]

-----------------------------------------------------------------------------
(* aggregate.                                                              *)

GroupKey(req) == <<req.name, BucketOf[req.unit]>>

\* The groups in the order in which they are first seen.
GroupOrder ==
  FoldLeft(LAMBDA seen, req : IF Contains(seen, GroupKey(req)) THEN seen
                              ELSE Append(seen, GroupKey(req)), <<>>, reqs)

InGroup(k)     == {i \in DOMAIN reqs : GroupKey(reqs[i]) = k}
ToTaste(k)     == {i \in InGroup(k) : reqs[i].qty = NoQty}
Quantified(k)  == InGroup(k) \ ToTaste(k)
NeedBase(k, m) == MapThenSumSet(LAMBDA i : m * reqs[i].qty * Scale[reqs[i].unit], Quantified(k))

-----------------------------------------------------------------------------
(* check_availability.                                                     *)

\* Mutant: enough is more than is needed.
StatusIfOver(k, m) ==
  LET have == QtyOf(stock, k) IN
  IF have > NeedBase(k, m) THEN "ok"
  ELSE IF Incompatible(stock, k) THEN "have_uncertain"
  ELSE IF have > 0 THEN "short" ELSE "missing"

\* The status of a group that needs something.
Status(k, m) ==
  LET have == QtyOf(stock, k) IN
  IF have >= NeedBase(k, m) THEN "ok"
  ELSE IF Incompatible(stock, k) THEN "have_uncertain"
  ELSE IF have > 0 THEN "short" ELSE "missing"

LineFor(i, k, status) == [req |-> i, key |-> k, status |-> status]

\* One line for each ingredient, group by group, those to taste first.
CheckAvailability(m) ==
  LET linesOf(S, k, status) == [n \in 1 .. Cardinality(S) |-> LineFor(SetToSortSeq(S, <)[n], k, status)]
  IN FlattenSeq([g \in DOMAIN GroupOrder |->
       LET k == GroupOrder[g]
       IN linesOf(ToTaste(k), k, "to_taste") \o linesOf(Quantified(k), k, Status(k, m))])

AllAvailable(lines) == \A line \in Range(lines) : line.status \in {"ok", "to_taste"}

-----------------------------------------------------------------------------
(* The table and the banner of the recipe's screen.                        *)

BuildRow(lines) == [status |-> lines[1].status, key |-> lines[1].key,
                    reqs |-> {line.req : line \in Range(lines)}]

Members(lines, k) == SelectSeq(lines, LAMBDA line : line.key = k)

\* Mutant: one row for each group, with the status of its first line.
RowOfFirst(lines, k) == {BuildRow(Members(lines, k))}

\* One row for each group, or two if only a part of it is to taste.
RowsOfGroup(lines, k) ==
  LET toTaste    == SelectSeq(Members(lines, k), LAMBDA line : line.status = "to_taste")
      quantified == SelectSeq(Members(lines, k), LAMBDA line : line.status # "to_taste")
  IN {BuildRow(part) : part \in {toTaste, quantified} \ {<<>>}}

GroupAvailabilityLines(lines) ==
  UNION {RowsOfGroup(lines, k) : k \in {line.key : line \in Range(lines)}}

CountsAsMissing(status) == status \in {"short", "missing"}

\* "You have everything", "Missing N items" or, for N = 0, "Check what you have".
AvailabilityBanner(lines) ==
  [everything |-> AllAvailable(lines),
   missing |-> Cardinality({line.key : line \in {l \in Range(lines) : CountsAsMissing(l.status)}})]

-----------------------------------------------------------------------------
(* deduct_calc, and what the history says of it.                           *)

Entry(k, reason) == [key |-> k, reason |-> reason]

\* Mutant: a group that holds nothing is passed over.
ReasonPlain(live, k, need) ==
  LET have == QtyOf(live, k) IN
  IF need <= have \/ have = 0 THEN "ok" ELSE "clamped to 0"

Reason(live, k, need) ==
  LET have == QtyOf(live, k) IN
  IF have = 0 THEN IF Incompatible(live, k) THEN "have uncertain (incompatible unit)"
                   ELSE "not in inventory"
  ELSE IF need <= have THEN "ok" ELSE "clamped to 0"

\* A group draws on its own row, after the groups before it.
DeductGroup(done, k, m) ==
  LET need  == NeedBase(k, m)
      have  == QtyOf(done.live, k)
      taste == [n \in 1 .. Cardinality(ToTaste(k)) |-> Entry(k, "to taste")]
  IN IF Quantified(k) = {} THEN [done EXCEPT !.log = @ \o taste]
     ELSE [live |-> IF have = 0 THEN done.live
                    ELSE [done.live EXCEPT ![IdOf(done.live, k)].qty = IF need < have THEN have - need ELSE 0],
           log  |-> done.log \o taste \o <<Entry(k, Reason(done.live, k, need))>>]

DeductCalc(m) ==
  FoldLeft(LAMBDA done, k : DeductGroup(done, k, m), [live |-> stock, log |-> <<>>], GroupOrder)

\* The counts of the collapsed history row that are more than "N ingredients".
DeductionSummary(entries) ==
  LET count(reason) == Cardinality({i \in DOMAIN entries : entries[i].reason = reason})
  IN [ranOut |-> count("clamped to 0"), notTracked |-> count("not in inventory"),
      toCheck |-> count("have uncertain (incompatible unit)")]

Clean == [ranOut |-> 0, notTracked |-> 0, toCheck |-> 0]

-----------------------------------------------------------------------------
Init ==
  /\ reqs \in UNION {[1 .. n -> Ingredient] : n \in 0 .. MaxLines}
  /\ \E have \in [Keys -> Held] :
       stock = [i \in 1 .. Cardinality(Keys) |->
                  LET k == SetToSeq(Keys)[i] IN [name |-> k[1], bucket |-> k[2], qty |-> have[k]]]
  /\ log = <<>>

Cook(m) ==
  /\ stock' = DeductCalc(m).live
  /\ log' = DeductCalc(m).log
  /\ UNCHANGED reqs

Next == \E m \in Multipliers : Cook(m)

Spec == Init /\ [][Next]_vars

-----------------------------------------------------------------------------
(* Properties.                                                             *)

Needs(m) == [k \in Keys |-> NeedBase(k, m)]
Taste    == {reqs[i].name : i \in {j \in DOMAIN reqs : reqs[j].qty = NoQty}}

\* The screen and the grocery list agree: a list made from the recipe now has an amount
\* for just the groups whose row is not "Have it", and none at all when the banner says
\* "You have everything".
ListAgreesWithTable ==
  \A m \in Multipliers :
    LET lines  == CheckAvailability(m)
        listed == {<<line.item, BucketOf[line.unit]>> :
                     line \in {l \in GeneratedLines(1, Needs(m), Taste, stock) : l.qty # NoQty}}
        gaps   == {<<Author[row.key[1]], row.key[2]>> :
                     row \in {r \in GroupAvailabilityLines(lines) : r.status \notin {"ok", "to_taste"}}}
    IN listed = gaps /\ (AvailabilityBanner(lines).everything <=> listed = {})

\* The table hides nothing: every ingredient is in one row, one to taste never stands
\* for one with an amount, and the banner counts the rows marked short or missing.
TableHidesNothing ==
  \A m \in Multipliers :
    LET lines == CheckAvailability(m)
        rows  == GroupAvailabilityLines(lines)
    IN /\ \A i \in DOMAIN reqs : Cardinality({row \in rows : i \in row.reqs}) = 1
       /\ \A row \in rows : \A i \in row.reqs : (row.status = "to_taste") <=> (reqs[i].qty = NoQty)
       /\ AvailabilityBanner(lines).missing
          = Cardinality({row \in rows : CountsAsMissing(row.status)})

\* "You have everything" is kept by the cook: the history of a cook tells of nothing
\* that ran out, was not tracked or could not be compared, if and only if the screen
\* said so at that multiplier just before.
CookKeepsPromise ==
  [][\A m \in Multipliers :
       Cook(m) => (AllAvailable(CheckAvailability(m)) <=> DeductionSummary(log') = Clean)]_vars
=============================================================================

------------------------------ MODULE StockEdit ------------------------------
(***************************************************************************)
(* Correcting one stock row: the editor's draft, its client-side guards,   *)
(* the PATCH body, and the server's rules for it.  Client and server each  *)
(* normalize a unit's word in their own way; quantities are shown rounded. *)
(***************************************************************************)
EXTENDS Integers

CONSTANTS
  Words,    \* the words the household writes for units: stem, ending, a dot
  Digits,   \* the quantities a member may type, multiples of Grain
  Grain     \* a shown quantity is a multiple of Grain: the digits kept

VARIABLES
  row,      \* the row on the server, as the screen shows it
  draft,    \* the open editor, or NoDraft
  body,     \* the PATCH under way, or NoBody
  outcome   \* how the last Save ended

vars == <<row, draft, body, outcome>>

NoUnit     == [stem |-> "none", ending |-> "", dot |-> FALSE]   \* null, or a blank input
Empty      == <<"", "">>                                        \* what "." is normalized to
NoDraft    == [quantity |-> -2]
NoBody     == [fields |-> {}]
Bad        == -1                                                \* text that is no quantity
MatchNames == {"rice", "Rice", "oats", ""}
Units      == Words \cup {NoUnit}

-----------------------------------------------------------------------------
(* Unit words.  A token is a stem and an ending without the dot.           *)

Singulars ==
  [s |-> "", ss |-> "ss", ses |-> "s", xes |-> "x", zes |-> "z", ies |-> "y",
   oes |-> "o", aves |-> "af"]
ClientSingulars == [Singulars EXCEPT !.zes = "ze", !.ies = "ie", !.oes = "oe", !.aves = "ave"]

Singular(rules, token) ==
  IF token[2] \in DOMAIN rules THEN <<token[1], rules[token[2]]>> ELSE token

TokenOf(u) == <<u.stem, u.ending>>

\* _UNIT_TABLE and SYNONYM_BUCKET, with a factor for the server.
Known(token) == token \in {<<"g", "">>, <<"kg", "">>, <<"cup", "">>, <<"each", "">>, <<"dozen", "">>}
DimensionOf(token) ==
  IF token[1] \in {"g", "kg"} THEN <<"mass">> ELSE IF token[1] = "cup" THEN <<"volume">> ELSE <<"count">>
FactorOf(token) == IF token[1] \in {"kg", "dozen"} THEN 3 ELSE 1

\* normalizeUnitToken and bucketForUnit: once, and a blank is the count bucket.
ClientToken(u) == IF u = NoUnit THEN Empty ELSE Singular(ClientSingulars, TokenOf(u))
BucketForUnit(u) ==
  LET t == ClientToken(u)
  IN IF t = Empty THEN <<"count">> ELSE IF Known(t) THEN DimensionOf(t) ELSE <<"opaque", t>>

\* normalize_unit_token, parse_unit and bucket_of; bucket_of is given a token, and
\* normalizes it again.
NormalizeUnitToken(u) == IF u = NoUnit THEN "None" ELSE Singular(Singulars, TokenOf(u))
BucketOf(u) ==
  IF u = NoUnit \/ NormalizeUnitToken(u) = Empty THEN <<"count">>
  ELSE LET t == Singular(Singulars, NormalizeUnitToken(u))
       IN IF Known(t) THEN DimensionOf(t) ELSE <<"opaque", t>>

\* parse_unit of the raw word: "." is neither no unit nor a known one.
Parses(u) == u = NoUnit \/ Known(NormalizeUnitToken(u))

ToBase(amount, u) == IF u = NoUnit THEN amount ELSE amount * FactorOf(NormalizeUnitToken(u))
IsOpaque(bucket)  == bucket[1] = "opaque"

-----------------------------------------------------------------------------
(* The row, and the editor's draft of it.                                  *)

\* add_to_inventory: a new row of an amount in a unit.
Stocked(amount, u) ==
  [name |-> "rice", unit |-> u, bucket |-> BucketOf(u),
   base |-> IF IsOpaque(BucketOf(u)) \/ TokenOf(u) = Empty THEN amount ELSE ToBase(amount, u)]

\* display_quantity, and toPrecision(6) of it.
DisplayQuantity(r) ==
  IF IsOpaque(r.bucket) \/ r.unit = NoUnit \/ ~Parses(r.unit) THEN r.base
  ELSE r.base \div FactorOf(NormalizeUnitToken(r.unit))
Seeded(r) == (DisplayQuantity(r) \div Grain) * Grain

EditDraftFrom(r) == [quantity |-> Seeded(r), unit |-> r.unit, name |-> r.name]

\* Mutant: the typed quantity is compared with what the server said.
QtyMovedOffRaw(r, d) == d.quantity # Bad /\ d.quantity # DisplayQuantity(r)

MatchChanged(r, d) == d.name # r.name
QtyChanged(r, d)   == d.quantity # Bad /\ d.quantity # Seeded(r)
UnitChanged(r, d)  == ClientToken(d.unit) # ClientToken(r.unit)

IsCount(r) == r.bucket = <<"count">>

\* validateEditDraft: the fields with an error.
ValidateEditDraft(r, d) ==
  {f \in {"name", "quantity", "unit"} :
     \/ f = "name" /\ d.name = ""
     \/ f = "quantity" /\ d.quantity = Bad
     \/ f = "unit" /\ QtyChanged(r, d) /\ d.unit = NoUnit /\ ~IsCount(r)
     \/ f = "unit" /\ (UnitChanged(r, d) \/ d.unit = NoUnit) /\ BucketForUnit(d.unit) # r.bucket}

\* Mutant: the unit goes with the PATCH only when it was changed.
PatchOfChanges(r, d) ==
  [fields |-> (IF MatchChanged(r, d) THEN {"name"} ELSE {})
              \cup (IF QtyChanged(r, d) THEN {"quantity"} ELSE {})
              \cup (IF UnitChanged(r, d) THEN {"unit"} ELSE {}),
   draft |-> d]

\* buildInventoryPatch: a changed quantity brings its unit along.
BuildInventoryPatch(r, d) ==
  [fields |-> (IF MatchChanged(r, d) THEN {"name"} ELSE {})
              \cup (IF QtyChanged(r, d) THEN {"quantity", "unit"} ELSE {})
              \cup (IF UnitChanged(r, d) THEN {"unit"} ELSE {}),
   draft |-> d]

-----------------------------------------------------------------------------
(* update_inventory, for a row that exists and a name nobody else has.      *)

NormalizeName(name) == IF name = "Rice" THEN "rice" ELSE name

\* Mutant: the server takes it that the client has compared the buckets.
RefusalTrusting(r, b) ==
  IF "quantity" \in b.fields /\ "unit" \notin b.fields THEN "unit is required"
  ELSE IF "name" \in b.fields /\ NormalizeName(b.draft.name) = "" THEN "empty name"
  ELSE "no"

Refusal(r, b) ==
  IF "quantity" \in b.fields /\ "unit" \notin b.fields THEN "unit is required"
  ELSE IF "unit" \in b.fields /\ BucketOf(b.draft.unit) # r.bucket THEN "changes the bucket"
  ELSE IF "name" \in b.fields /\ NormalizeName(b.draft.name) = "" THEN "empty name"
  ELSE "no"

\* The new quantity_base; a word with no token is not "no unit" here.
StoredQuantity(r, b) ==
  IF IsOpaque(r.bucket) \/ b.draft.unit = NoUnit THEN b.draft.quantity
  ELSE ToBase(b.draft.quantity, b.draft.unit)

Crashes(r, b) == "quantity" \in b.fields /\ ~IsOpaque(r.bucket) /\ ~Parses(b.draft.unit)

Updated(r, b) ==
  [r EXCEPT !.base = IF "quantity" \in b.fields THEN StoredQuantity(r, b) ELSE @,
            !.unit = IF "unit" \in b.fields THEN b.draft.unit ELSE @,
            !.name = IF "name" \in b.fields THEN NormalizeName(b.draft.name) ELSE @]

-----------------------------------------------------------------------------
Init ==
  /\ \E amount \in {4, 5}, u \in Units : row = Stocked(amount, u)
  /\ draft = NoDraft /\ body = NoBody /\ outcome = "none"

OpenEdit ==
  /\ draft = NoDraft
  /\ draft' = EditDraftFrom(row) /\ outcome' = "none"
  /\ UNCHANGED <<row, body>>

TypeInto ==
  /\ draft # NoDraft /\ body = NoBody
  /\ \/ \E n \in Digits \cup {Bad} : draft' = [draft EXCEPT !.quantity = n]
     \/ \E u \in Units : draft' = [draft EXCEPT !.unit = u]
     \/ \E name \in MatchNames : draft' = [draft EXCEPT !.name = name]
  /\ outcome' = "none"
  /\ UNCHANGED <<row, body>>

\* submitEdit: blocked, nothing to do, or a PATCH.
Save ==
  /\ draft # NoDraft /\ body = NoBody
  /\ LET patch == BuildInventoryPatch(row, draft)
     IN \/ /\ ValidateEditDraft(row, draft) # {}
           /\ outcome' = "blocked" /\ UNCHANGED <<draft, body>>
        \/ /\ ValidateEditDraft(row, draft) = {} /\ patch.fields = {}
           /\ draft' = NoDraft /\ outcome' = "none" /\ UNCHANGED body
        \/ /\ ValidateEditDraft(row, draft) = {} /\ patch.fields # {}
           /\ body' = patch /\ outcome' = "none" /\ UNCHANGED draft
  /\ UNCHANGED row

\* The PATCH is answered: saved, refused with a 422, or a server error.
Answer ==
  /\ body # NoBody /\ body' = NoBody
  /\ \/ /\ Refusal(row, body) = "no" /\ ~Crashes(row, body)
        /\ row' = Updated(row, body) /\ draft' = NoDraft /\ outcome' = "saved"
     \/ /\ Refusal(row, body) = "no" /\ Crashes(row, body)
        /\ outcome' = "error" /\ UNCHANGED <<row, draft>>
     \/ /\ Refusal(row, body) # "no"
        /\ outcome' = Refusal(row, body) /\ UNCHANGED <<row, draft>>

Next == OpenEdit \/ TypeInto \/ Save \/ Answer
Spec == Init /\ [][Next]_vars

-----------------------------------------------------------------------------
(* Properties.                                                             *)

\* The row is one the server can hold, its unit a word of its own bucket.
TypeOK ==
  /\ row.base \in Nat /\ row.unit \in Units /\ row.name \in MatchNames \ {"", "Rice"}
  /\ BucketOf(row.unit) = row.bucket
  /\ body = NoBody \/ (body.fields # {} /\ body.fields \subseteq {"name", "quantity", "unit"})

\* Inventory.tsx, diffEditDraft: an edit that leaves the rounded quantity alone
\* leaves the precise stock alone, and any other one stores what was typed, so that
\* the editor would open on it again; and the server never has to refuse a quantity
\* without its unit or a name that is empty.
StoresWhatWasTyped ==
  [][/\ outcome' \notin {"unit is required", "empty name"}
     /\ outcome' = "saved" /\ outcome # "saved" =>
          IF draft.quantity = Seeded(row) THEN row'.base = row.base
          ELSE Seeded(row') = draft.quantity]_vars
=============================================================================

----------------------------- MODULE LineParser -----------------------------
(***************************************************************************)
(* A pasted ingredient line: the split of the pasted block, the preview    *)
(* the recipe form computes of a line, and the server's own parse of it    *)
(* when the untouched row is saved.  The two parsers are written step for  *)
(* step alike; each has its own rule for the singular of a unit's word.    *)
(*                                                                         *)
(* A line is a sequence of tokens.  A quantity is the tokens it was read   *)
(* from: the numbers they stand for are the same on both sides.            *)
(***************************************************************************)
EXTENDS Naturals, SequencesExt

CONSTANTS
  Words,      \* the words of a line: a stem, an ending, and perhaps a dot or a colon
  MaxTokens   \* bound on the tokens of a line

Plain(kind, text) == [kind |-> kind, stem |-> text, ending |-> "", tail |-> ""]

\* Numerals with and without a value: 0 and a fraction over 0 are none.
Numerals == {Plain("whole", "2"), Plain("whole", "0"), Plain("fraction", "1/2"), Plain("fraction", "1/0")}
Vulgar   == Plain("vulgar", "1/2")
Notes    == {Plain("note", "(sifted)"), Plain("note", "(fresh)")}
ToTaste  == Plain("taste", "to taste")
Marker   == Plain("marker", "-")
Tokens   == Words \cup Numerals \cup Notes \cup {Vulgar, ToTaste, Marker}

VARIABLES
  line,     \* a line of the pasted block
  preview,  \* the row the preview shows for it, or NoRow
  stored    \* the row the server makes of it, or NoRow

vars == <<line, preview, stored>>

NoRow == [quantity |-> <<>>, unit |-> <<>>, item |-> <<>>, note |-> <<>>]

-----------------------------------------------------------------------------
(* Words for units.                                                        *)

\* What an ending becomes in the singular.
Singulars == [s |-> "", es |-> "e", xes |-> "x", ches |-> "ch", zes |-> "z"]

\* Mutant: the client drops an s, whatever comes before it.
PlainSingulars == [Singulars EXCEPT !.xes = "xe", !.ches = "che", !.zes = "ze"]

\* singularize, in the preview: it has no rule for -zes.
ClientSingulars == [Singulars EXCEPT !.zes = "ze"]

Singular(rules, word) ==
  <<word.stem, IF word.ending \in DOMAIN rules THEN rules[word.ending] ELSE word.ending>>

UnitTable    == {<<"cup", "">>, <<"o", "z">>}
OpaqueTokens == {<<"bo", "x">>, <<"bun", "ch">>}

IsUnitWord(rules, word) ==
  /\ word.kind = "word" /\ word.tail # ":"
  /\ Singular(rules, word) \in UnitTable \cup OpaqueTokens

\* A synonym of two words: only the last is put in the singular.
IsUnitPair(rules, first, second) ==
  /\ first = Plain("word", "fl")
  /\ second.kind = "word" /\ second.tail # ":" /\ Singular(rules, second) = <<"o", "z">>

-----------------------------------------------------------------------------
(* The parse.                                                              *)

\* _parse_number: is it positive?
HasValue(token) == token.stem \notin {"0", "1/0"}

IsKind(tokens, n, kind) == Len(tokens) >= n /\ tokens[n].kind = kind

\* The quantity a line starts with: a vulgar fraction, a mixed number, a fraction or a
\* number; a mixed number over 0 is none, and is not tried again as a number.
LeadingQuantity(tokens) ==
  IF IsKind(tokens, 1, "vulgar") THEN SubSeq(tokens, 1, 1)
  ELSE IF IsKind(tokens, 1, "whole") /\ IsKind(tokens, 2, "fraction")
  THEN IF tokens[2].stem = "1/0" THEN <<>> ELSE SubSeq(tokens, 1, 2)
  ELSE IF (IsKind(tokens, 1, "whole") \/ IsKind(tokens, 1, "fraction")) /\ HasValue(tokens[1])
  THEN SubSeq(tokens, 1, 1) ELSE <<>>

\* How many words after the quantity are its unit.
LeadingUnit(rules, tokens) ==
  IF Len(tokens) >= 2 /\ IsUnitPair(rules, tokens[1], tokens[2]) THEN 2
  ELSE IF Len(tokens) >= 1 /\ IsUnitWord(rules, tokens[1]) THEN 1 ELSE 0

Without(tokens, kind) == SelectSeq(tokens, LAMBDA t : t.kind # kind)

NotesOf(tokens) == SelectSeq(tokens, LAMBDA t : t.kind = "note")

\* Mutant: all notes are taken out.
WithoutNotes(tokens) == Without(tokens, "note")

\* Only the first of them is taken out, and kept as the note.
WithoutNote(tokens) == RemoveFirst(tokens, NotesOf(tokens)[1])

\* The unit keeps the word as it was written, without the dot.
Undotted(tokens) == [i \in DOMAIN tokens |-> IF i = Len(tokens) THEN [tokens[i] EXCEPT !.tail = ""] ELSE tokens[i]]

Parse(rules, text) ==
  LET toTaste  == Contains(text, ToTaste)
      noted    == ~toTaste /\ NotesOf(text) # <<>>
      working  == IF toTaste THEN Without(text, "taste")
                  ELSE IF noted THEN WithoutNote(text) ELSE text
      quantity == LeadingQuantity(working)
      counted  == SubSeq(working, Len(quantity) + 1, Len(working))
      words    == IF quantity = <<>> THEN 0 ELSE LeadingUnit(rules, counted)
      rest     == SubSeq(counted, words + 1, Len(counted))
  IN [quantity |-> IF toTaste THEN <<>> ELSE quantity,
      unit     |-> Undotted(SubSeq(counted, 1, words)),
      item     |-> IF rest = <<>> THEN text ELSE rest,
      note     |-> IF toTaste THEN <<ToTaste>> ELSE IF noted THEN <<NotesOf(text)[1]>> ELSE <<>>]

ParseIngredientLine(text) == Parse(ClientSingulars, text)
ParseIngredient(text)     == Parse(Singulars, text)

-----------------------------------------------------------------------------
(* The block.                                                              *)

Unmarked(text) == IF Len(text) > 1 /\ text[1] = Marker THEN Tail(text) ELSE text

\* LEADING_QUANTITY: any numeral, also one without a value.
StartsWithNumeral(text) == text[1].kind \in {"whole", "fraction", "vulgar"}

\* A section header is a line with a colon at the end and no quantity at the start.
IsSectionHeader(text) == Last(text).tail = ":" /\ ~StartsWithNumeral(text)

Init ==
  /\ line \in UNION {[1 .. n -> Tokens] : n \in 1 .. MaxTokens}
  /\ preview = NoRow /\ stored = NoRow

\* parseIngredients, and the preview of what it keeps.
Paste ==
  /\ preview = NoRow /\ ~IsSectionHeader(Unmarked(line))
  /\ preview' = ParseIngredientLine(Unmarked(line))
  /\ UNCHANGED <<line, stored>>

\* The untouched row is saved as its line.
Save ==
  /\ preview # NoRow /\ stored = NoRow
  /\ stored' = ParseIngredient(Unmarked(line))
  /\ UNCHANGED <<line, preview>>

Next == Paste \/ Save

Spec == Init /\ [][Next]_vars

-----------------------------------------------------------------------------
(* Properties.                                                             *)

\* parseIngredientLine.ts:105-106: "matched the way the backend's `_is_unit_word` does":
\* the row that is stored is the row that was previewed, unless a word of the line ends in
\* -zes, of which only the server knows the singular.
StoredAsPreviewed ==
  (stored # NoRow /\ \A t \in Range(line) : t.ending # "zes") => stored = preview

Parts(row) == Range(row.quantity) \cup Range(row.unit) \cup Range(row.item) \cup Range(row.note)

\* Nothing of a line is lost: every token is in the quantity, the unit, the item or the
\* note of its row; but for a quantity that stands before "to taste", and the dot of a
\* unit.  And a row always has an item.
NothingIsLost ==
  stored # NoRow =>
    /\ stored.item # <<>>
    /\ \A t \in Range(Unmarked(line)) :
         \/ t \in Parts(stored) \/ [t EXCEPT !.tail = ""] \in Range(stored.unit)
         \/ Contains(line, ToTaste) /\ t.kind \in {"whole", "fraction", "vulgar"}
=============================================================================

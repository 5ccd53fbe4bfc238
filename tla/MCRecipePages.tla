--------------------------- MODULE MCRecipePages ---------------------------
(* The pages of a recipe, the form its editor is, the lines pasted into the *)
(* form and the history of cooks.  A behaviour is about one of them, in one *)
(* of two settings.                                                         *)
EXTENDS RecipePages, TLC

VARIABLES
  setting,   \* what the behaviour is about
  \* the variables of RecipeForm
  rows, tags, tagDraft, blocked, uids, save, error, stored, storedTags, asShown, seq, typed, saves,
  \* the variables of LineParser
  line, preview, parsed,
  \* the variables of HistoryFeed
  logs, cache, offset, data, held, pages, here, online, feedVisits, feedFaults, gaps

formVars == <<rows, tags, tagDraft, blocked, uids, save, error, stored, storedTags, asShown,
              seq, typed, saves>>
lineVars == <<line, preview, parsed>>
feedVars == <<logs, cache, offset, data, held, pages, here, online, feedVisits, feedFaults, gaps>>

\* The pages of a recipe that the rest of the household edits too.
Shared == INSTANCE RecipePages WITH MaxCalls <- 1, MaxOthers <- 1, MaxFaults <- 1, MaxVisits <- 3

\* The form, for a new recipe and on a stored one.
McLines   == {"2 x", "y"}
McCellsOf ==
  ("2 x" :> [quantity |-> "2", item |-> "x"]) @@ ("y" :> [quantity |-> "", item |-> "y"])
McItems   == {"", "y", "too long"}
McStored  ==
  <<[quantity |-> "2", item |-> "x", raw |-> "2 x"],
    [quantity |-> "3", item |-> "y", raw |-> "no line"]>>

NewForm ==
  INSTANCE RecipeForm
    WITH Quantities <- {"", "1/2"}, Items <- McItems, Lines <- McLines, CellsOf <- McCellsOf,
         TagTexts <- {"t", "too long"}, Start <- <<>>, MaxRows <- 2, MaxEdits <- 4, MaxSaves <- 2,
         shown <- asShown, edits <- typed

StoredForm ==
  INSTANCE RecipeForm
    WITH Quantities <- {"", "-2"}, Items <- McItems, Lines <- McLines, CellsOf <- McCellsOf,
         TagTexts <- {}, Start <- McStored, MaxRows <- 3, MaxEdits <- 4, MaxSaves <- 2,
         shown <- asShown, edits <- typed

ASSUME FormsAssumption == NewForm!TextsFit /\ StoredForm!TextsFit

\* The line: cups, oz., ozes, fl, boxes and "cup:".
Word(stem, ending, tail) == [kind |-> "word", stem |-> stem, ending |-> ending, tail |-> tail]
McLineWords ==
  {Word("cup", "s", ""), Word("o", "z", "."), Word("o", "zes", ""), Word("fl", "", ""),
   Word("bo", "xes", ""), Word("cup", "", ":")}

Pasted == INSTANCE LineParser WITH Words <- McLineWords, MaxTokens <- 4, stored <- parsed

Feed(first, failures, opened) ==
  INSTANCE HistoryFeed
    WITH PageSize <- 2, FirstLogs <- first, MaxCooks <- 2, MaxFaults <- failures,
         MaxVisits <- opened, MaxGaps <- 0, visits <- feedVisits, faults <- feedFaults

OfForm == {"new", "stored"}
OfFeed == {"scroll", "return"}

McInit ==
  /\ setting \in {"pages", "shared", "line"} \cup OfForm \cup OfFeed
  /\ Init /\ (setting \notin {"pages", "shared"} => page = "detail")
  /\ IF setting = "stored" THEN StoredForm!Init ELSE NewForm!Init
  /\ IF setting = "line" THEN Pasted!Init
     ELSE line = <<Word("fl", "", "")>> /\ preview = Pasted!NoRow /\ parsed = Pasted!NoRow
  /\ IF setting = "scroll" THEN Feed(5, 2, 1)!Init ELSE Feed(4, 1, 2)!Init

McNext ==
  \/ setting = "pages" /\ Next /\ UNCHANGED <<setting, formVars, lineVars, feedVars>>
  \/ setting = "shared" /\ Shared!Next /\ UNCHANGED <<setting, formVars, lineVars, feedVars>>
  \/ setting = "new" /\ NewForm!Next /\ UNCHANGED <<setting, vars, lineVars, feedVars>>
  \/ setting = "stored" /\ StoredForm!Next /\ UNCHANGED <<setting, vars, lineVars, feedVars>>
  \/ setting = "line" /\ Pasted!Next /\ UNCHANGED <<setting, vars, formVars, feedVars>>
  \/ setting = "scroll" /\ Feed(5, 2, 1)!Next /\ UNCHANGED <<setting, vars, formVars, lineVars>>
  \/ setting = "return" /\ Feed(4, 1, 2)!Next /\ UNCHANGED <<setting, vars, formVars, lineVars>>

McSpec == McInit /\ [][McNext]_<<setting, vars, formVars, lineVars, feedVars>>

-----------------------------------------------------------------------------
(* Properties; SavedIsShown and DraftIsTheMembers keep their names.         *)

\* The pages, the form with its save, and the history with its queries are of their
\* types.
RecipesTypeOK ==
  /\ setting = "pages" => TypeOK
  /\ setting = "shared" => Shared!TypeOK
  /\ setting = "new" => NewForm!TypeOK
  /\ setting = "stored" => StoredForm!TypeOK
  /\ setting = "scroll" => Feed(5, 2, 1)!TypeOK
  /\ setting = "return" => Feed(4, 1, 2)!TypeOK

\* What is stored is what the form showed at the click, also of a half-typed tag and of
\* rows that were pasted, whatever is edited until the answer.
StoresTheForm == NewForm!StoresTheForm

\* A refusal of a cell is shown at the row that was sent with that text, and at no
\* other, however the rows were edited, moved and removed since the click.
ErrorIsOfItsRow == setting \in OfForm => NewForm!ErrorIsOfItsRow

\* The row that is stored of a line is the row that was previewed, and every token of
\* the line is somewhere in it.
LineIsKept == setting = "line" => Pasted!StoredAsPreviewed /\ Pasted!NothingIsLost

\* In one visit every log between the newest and the oldest shown is shown, and "Load
\* more" goes away only when the oldest log of all is.
HistoryIsWhole ==
  /\ setting = "scroll" => Feed(5, 2, 1)!NoneMissing
  /\ setting \in OfFeed => Feed(4, 1, 2)!EndIsReached
=============================================================================

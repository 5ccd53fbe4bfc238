---------------------------- MODULE RecipePicker ----------------------------
(***************************************************************************)
(* The recipe list in its select mode and the dialog that turns the        *)
(* selection into a grocery list, with the query behind both.  The rest of *)
(* the household deletes and adds recipes meanwhile; the server gives the  *)
(* id of a deleted newest recipe out again.                                *)
(***************************************************************************)
EXTENDS QueryCache, Naturals, SequencesExt

CONSTANTS
  Titles,       \* the recipes there can be; a title is never given twice
  First,        \* the recipes there are at the start, by id
  Cuisine,      \* [Titles -> a cuisine, or ""]
  Tags,         \* [Titles -> a set of tags]
  Controls,     \* what the member uses: "query", "cuisine", "tag", "amount"
  Others,       \* what the rest of the household does: "delete", "add"
  MaxPosts,     \* bound on the attempts to create a list
  MaxFaults     \* bound on the calls and fetches that go wrong

VARIABLES
  db,        \* the recipes of the server: a function from ids to titles
  used,      \* the titles there have been
  q,         \* the entry ["recipes"] of the query cache
  look,      \* what the search field and the chips hold
  pick,      \* selectMode, selected, dialogOpen
  dialog,    \* the dialog's multipliers, gone recipes and error banner
  posts,     \* the POSTs sent, in the order of their clicks
  mine,      \* the one the dialog's button follows, or 0
  away,      \* the member was taken to a list, or went to another screen
  made,      \* the lists the server has made
  faults     \* how much has gone wrong

screenVars == <<look, pick, dialog, mine, away>>
vars       == <<db, used, q, screenVars, posts, made, faults>>

Ids     == 1 .. Cardinality(Titles)
Amounts == {1, 2}
IsBook(b) == DOMAIN b \subseteq Ids /\ \A i \in DOMAIN b : b[i] \in Titles
None      == [i \in {} |-> ""]

Post ==
  [rows : SUBSET Ids, amounts : UNION {[s -> Amounts] : s \in SUBSET Ids}, seen : SUBSET Titles,
   phase : {"asked", "answered", "recheck", "settled"},
   reply : {"none", "ok", "gone", "failed"}]

TypeOK ==
  /\ IsBook(db) /\ used \subseteq Titles
  /\ \A s \in {q.data, q.snap} : s = NoData \/ IsBook(s)
  /\ pick \in [mode : BOOLEAN, selected : SUBSET Ids, open : BOOLEAN]
  /\ dialog \in [amounts : [Ids -> Amounts], gone : SUBSET [id : Ids, title : Titles], error : BOOLEAN]
  /\ posts \in Seq(Post) /\ mine \in 0 .. Len(posts) /\ away \in BOOLEAN
  /\ \A l \in made : l.recipes \cup l.seen \subseteq Titles

-----------------------------------------------------------------------------
(* What the screen shows.                                                  *)

Recipes == IF q.data = NoData THEN None ELSE q.data
Shown   == ~away /\ q.data # NoData /\ ~q.failed /\ q.data # None

Matches(title, text) == text \in {"", title, Cuisine[title]} \cup Tags[title]

\* Union within a facet, intersection across the facets.
SearchRecipes(book, text) == {i \in DOMAIN book : Matches(book[i], text)}
FilterByFacets(book, cuisines, tags) ==
  {i \in DOMAIN book : /\ cuisines # {} => Cuisine[book[i]] \in cuisines
                       /\ tags # {} => Tags[book[i]] \cap tags # {}}

Visible == SearchRecipes(Recipes, look.query) \cap FilterByFacets(Recipes, look.cuisines, look.tags)

CuisineOptions == {Cuisine[Recipes[i]] : i \in DOMAIN Recipes} \ {""}
TagOptions     == UNION {Tags[Recipes[i]] : i \in DOMAIN Recipes}

\* selectedRecipes: the selection, as far as the list still has it.
RowsOf(p, book) == p.selected \cap DOMAIN book
Rows            == RowsOf(pick, Recipes)
DialogShown     == pick.open /\ Shown
Pending         == mine # 0 /\ posts[mine].phase # "settled"

FreshLook   == [query |-> "", cuisines |-> {}, tags |-> {}]
FreshPick   == [mode |-> FALSE, selected |-> {}, open |-> FALSE]
FreshDialog == [amounts |-> [i \in Ids |-> 1], gone |-> {}, error |-> FALSE]

\* The effect after every render: a dialog without a row is closed.
Rendered(p, book) == [p EXCEPT !.open = p.open /\ RowsOf(p, book) # {}]

Init ==
  /\ db = First /\ used = Range(First)
  /\ q = Fetch(NewQuery)
  /\ look = FreshLook /\ pick = FreshPick /\ dialog = FreshDialog
  /\ posts = <<>> /\ mine = 0 /\ away = FALSE
  /\ made = {} /\ faults = 0

-----------------------------------------------------------------------------
(* The page.  Nothing behind the open dialog can be reached.               *)

Toggled(set, x) == IF x \in set THEN set \ {x} ELSE set \cup {x}

ControlUsed ==
  \/ /\ "query" \in Controls
     /\ \E text \in {""} \cup Titles \cup Range(Cuisine) : look' = [look EXCEPT !.query = text]
  \/ /\ "cuisine" \in Controls
     /\ \E c \in CuisineOptions : look' = [look EXCEPT !.cuisines = Toggled(look.cuisines, c)]
  \/ /\ "tag" \in Controls
     /\ \E t \in TagOptions : look' = [look EXCEPT !.tags = Toggled(look.tags, t)]

UseControl ==
  /\ Shown /\ ~pick.open
  /\ ControlUsed
  /\ UNCHANGED <<db, used, q, pick, dialog, mine, away, posts, made, faults>>

ToggleSelectMode ==
  /\ Shown /\ ~pick.open
  /\ pick' = IF pick.mode THEN FreshPick ELSE [pick EXCEPT !.mode = TRUE]
  /\ UNCHANGED <<db, used, q, look, dialog, mine, away, posts, made, faults>>

ToggleSelected(i) ==
  /\ Shown /\ ~pick.open /\ pick.mode /\ i \in Visible
  /\ pick' = [pick EXCEPT !.selected = Toggled(@, i)]
  /\ UNCHANGED <<db, used, q, look, dialog, mine, away, posts, made, faults>>

\* The bar counts the selection, the dialog lists its rows: with none it closes.
OpenDialog ==
  /\ Shown /\ ~pick.open /\ pick.selected # {}
  /\ pick' = Rendered([pick EXCEPT !.open = TRUE], Recipes)
  /\ dialog' = FreshDialog
  /\ UNCHANGED <<db, used, q, look, mine, away, posts, made, faults>>

\* Another screen, and back: the page starts anew and asks for the list.
Leave ==
  /\ ~away
  /\ away' = TRUE /\ mine' = 0
  /\ look' = FreshLook /\ pick' = FreshPick /\ dialog' = FreshDialog
  /\ UNCHANGED <<db, used, q, posts, made, faults>>

Visit ==
  /\ away
  /\ away' = FALSE /\ q' = Fetch(q)
  /\ UNCHANGED <<db, used, look, pick, dialog, mine, posts, made, faults>>

-----------------------------------------------------------------------------
(* The dialog.                                                             *)

CloseDialog ==
  /\ DialogShown
  /\ pick' = [pick EXCEPT !.open = FALSE]
  /\ UNCHANGED <<db, used, q, look, dialog, mine, away, posts, made, faults>>

SetAmount(i, amount) ==
  /\ "amount" \in Controls /\ DialogShown /\ i \in Rows
  /\ dialog' = [dialog EXCEPT !.amounts[i] = amount]
  /\ UNCHANGED <<db, used, q, look, pick, mine, away, posts, made, faults>>

\* dropAll: take the gone recipes out of the selection, and go on.
DropAll ==
  /\ DialogShown /\ dialog.gone # {}
  /\ pick' = Rendered([pick EXCEPT !.selected = @ \ {g.id : g \in dialog.gone}], Recipes)
  /\ dialog' = [dialog EXCEPT !.gone = {}, !.error = FALSE]
  /\ UNCHANGED <<db, used, q, look, mine, away, posts, made, faults>>

Create ==
  /\ DialogShown /\ dialog.gone = {} /\ ~Pending /\ Len(posts) < MaxPosts
  /\ posts' = Append(posts, [rows |-> Rows, amounts |-> [i \in Rows |-> dialog.amounts[i]],
                             seen |-> {Recipes[i] : i \in Rows}, phase |-> "asked", reply |-> "none"])
  /\ mine' = Len(posts')
  /\ UNCHANGED <<db, used, q, look, pick, dialog, away, made, faults>>

\* What a call was about is of no use once its callbacks have run.
Settle(post) ==
  [post EXCEPT !.phase = "settled", !.rows = {}, !.amounts = None, !.seen = {}]

\* handleCreated: the selection is done with, and the list is opened.
Created(n) ==
  /\ posts' = [posts EXCEPT ![n] = Settle(@)]
  /\ mine' = 0 /\ away' = TRUE
  /\ look' = FreshLook /\ pick' = FreshPick /\ dialog' = FreshDialog
  /\ UNCHANGED q

\* Mutant: the list that is to be compared is never asked for.
RecheckLeft(n) ==
  /\ posts' = [posts EXCEPT ![n].phase = "recheck", ![n].rows = IF n = mine THEN Rows ELSE @]
  /\ UNCHANGED <<q, screenVars>>

\* A 422 may mean a recipe that was deleted: ask for the list, and compare it with
\* the rows of this moment.
Recheck(n) ==
  /\ posts' = [posts EXCEPT ![n].phase = "recheck", ![n].rows = IF n = mine THEN Rows ELSE @]
  /\ q' = Fetch(q)
  /\ UNCHANGED screenVars

Refused(n) ==
  /\ posts' = [posts EXCEPT ![n] = Settle(@)]
  /\ dialog' = IF n = mine THEN [dialog EXCEPT !.gone = {}, !.error = TRUE] ELSE dialog
  /\ UNCHANGED <<q, look, pick, mine, away>>

Answer(n) ==
  /\ posts[n].phase = "answered"
  /\ \/ posts[n].reply = "ok" /\ Created(n)
     \/ posts[n].reply = "gone" /\ Recheck(n)
     \/ posts[n].reply = "failed" /\ Refused(n)
  /\ UNCHANGED <<db, used, made, faults>>

-----------------------------------------------------------------------------
(* The query.                                                              *)

Rechecking == {n \in DOMAIN posts : posts[n].phase = "recheck"}
Settled    == [n \in DOMAIN posts |-> IF n \in Rechecking THEN Settle(posts[n]) ELSE posts[n]]

\* Mutant: a 422 is taken to mean that every row is gone.
MissingAll(n, fresh) == {[id |-> i, title |-> q.data[i]] : i \in posts[n].rows}

\* The rows of the call that the fresh list has not, under the titles they had.
Missing(n, fresh) == {[id |-> i, title |-> q.data[i]] : i \in posts[n].rows \ DOMAIN fresh}

Compared(fresh) ==
  LET missing == Missing(mine, fresh)
  IN [dialog EXCEPT !.gone = missing, !.error = (missing = {})]

ReadRecipes ==
  /\ q.phase = "asked"
  /\ q' = ReadAs(q, db)
  /\ UNCHANGED <<db, used, screenVars, posts, made, faults>>

RecipesArrive ==
  /\ q.phase = "read"
  /\ q' = Deliver(q)
  /\ posts' = Settled
  /\ pick' = Rendered(pick, q.snap)
  /\ dialog' = IF mine \in Rechecking THEN Compared(q.snap) ELSE dialog
  /\ UNCHANGED <<db, used, look, mine, away, made, faults>>

\* The error panel takes the place of the list and of the dialog, which starts anew
\* when the list is back.
RecipesLost ==
  /\ Fetching(q) /\ faults < MaxFaults
  /\ q' = Fail(q) /\ faults' = faults + 1
  /\ posts' = Settled
  /\ dialog' = FreshDialog /\ mine' = 0
  /\ UNCHANGED <<db, used, look, pick, away, made>>

Retry ==
  /\ ~away /\ q.failed
  /\ q' = Refetch(q)
  /\ UNCHANGED <<db, used, screenVars, posts, made, faults>>

Reconnect ==
  /\ ~away /\ ~Fetching(q)
  /\ q' = Fetch(q)
  /\ UNCHANGED <<db, used, screenVars, posts, made, faults>>

-----------------------------------------------------------------------------
(* The server and the household.                                           *)

\* Mutant: the recipes that are not there are left out.
SomeThere(n) == posts[n].rows \cap DOMAIN db # {}

\* create_grocery_list refuses a list of which one recipe is not there.
AllThere(n) == posts[n].rows \subseteq DOMAIN db

ListOf(n) ==
  [recipes |-> {db[i] : i \in posts[n].rows \cap DOMAIN db}, seen |-> posts[n].seen]

Serve(n) ==
  /\ posts[n].phase = "asked"
  /\ IF AllThere(n)
     THEN /\ made' = made \cup {ListOf(n)}
          /\ posts' = [posts EXCEPT ![n].phase = "answered", ![n].reply = "ok"]
     ELSE /\ posts' = [posts EXCEPT ![n].phase = "answered", ![n].reply = "gone"]
          /\ UNCHANGED made
  /\ UNCHANGED <<db, used, q, screenVars, faults>>

\* An error, or an answer that is lost after the list was made.
Lose(n) ==
  /\ posts[n].phase = "asked" /\ faults < MaxFaults
  /\ posts' = [posts EXCEPT ![n].phase = "answered", ![n].reply = "failed"]
  /\ faults' = faults + 1
  /\ made' \in {made} \cup (IF AllThere(n) THEN {made \cup {ListOf(n)}} ELSE {})
  /\ UNCHANGED <<db, used, q, screenVars>>

NextId == 1 + (IF db = None THEN 0 ELSE Max(DOMAIN db))

OthersAct ==
  /\ \/ /\ "delete" \in Others
        /\ \E i \in DOMAIN db : db' = [j \in DOMAIN db \ {i} |-> db[j]]
        /\ UNCHANGED used
     \/ /\ "add" \in Others
        /\ \E t \in Titles \ used :
             /\ db' = [j \in DOMAIN db \cup {NextId} |-> IF j = NextId THEN t ELSE db[j]]
             /\ used' = used \cup {t}
  /\ UNCHANGED <<q, screenVars, posts, made, faults>>

-----------------------------------------------------------------------------
Member ==
  \/ UseControl \/ ToggleSelectMode \/ OpenDialog \/ Leave \/ Visit
  \/ \E i \in Ids : ToggleSelected(i) \/ \E a \in Amounts : SetAmount(i, a)
  \/ CloseDialog \/ DropAll \/ Create \/ Retry

Network(n) == Serve(n) \/ Lose(n) \/ Answer(n)
Query      == ReadRecipes \/ RecipesArrive \/ RecipesLost

Next == Member \/ (\E n \in DOMAIN posts : Network(n)) \/ Query \/ Reconnect \/ OthersAct

Spec == Init /\ [][Next]_vars

\* A request is answered or given up, and a callback runs; nobody has to click.
Fairness == WF_vars(Query) /\ \A n \in 1 .. MaxPosts : WF_vars(n \in DOMAIN posts /\ Network(n))
LiveSpec == Spec /\ Fairness

-----------------------------------------------------------------------------
(* Properties.                                                             *)

\* What the dialog names as deleted was deleted, and is not among the rows that the
\* next attempt would send.
GoneIsTrue ==
  \A g \in dialog.gone : g.title \notin Range(db) /\ (pick.open => g.id \notin Rows)

\* A list is made of exactly the recipes whose rows were shown at the click, or not
\* at all, whatever was deleted and fetched while the call was under way.
ListsAreWhatWasSeen == \A l \in made : l.recipes = l.seen

\* The button comes free again: every attempt is settled, also one that has to
\* compare the rows with a list it cannot get.
AttemptsSettle == Pending ~> ~Pending
=============================================================================

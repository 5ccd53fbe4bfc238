-------------------------- MODULE RecipePickerProofs --------------------------
(* The recipe list and its grocery dialog, for any recipes, any number of      *)
(* attempts and whatever the household does: what the dialog names as deleted  *)
(* is deleted (GoneAreGone, GoneTrue) and a list is made of the recipes that   *)
(* were shown (ListsTrue).                                                     *)
EXTENDS RecipePicker, FiniteSetTheorems, WellFoundedInduction, TLAPS

Books == UNION {[S -> Titles] : S \in SUBSET Ids}

\* There are finitely many titles, no two of the first recipes have the same one, and
\* having no answer is not a list of recipes.
Setup ==
  /\ IsFiniteSet(Titles) /\ First \in Seq(Titles)
  /\ \A i, j \in DOMAIN First : First[i] = First[j] => i = j
  /\ NoData \notin Books

ScreenTyped ==
  /\ pick \in [mode : BOOLEAN, selected : SUBSET Ids, open : BOOLEAN]
  /\ dialog \in [amounts : [Ids -> Amounts], gone : SUBSET [id : Ids, title : Titles], error : BOOLEAN]
  /\ away \in BOOLEAN

CallsTyped ==
  /\ posts \in Seq(Post) /\ mine \in 0 .. Len(posts)
  /\ \A l \in made : l.recipes \cup l.seen \subseteq Titles

\* A title is given to one recipe, and the ids in use are no more than the titles given.
BookFits ==
  /\ db \in Books /\ used \subseteq Titles
  /\ DOMAIN db \subseteq 1 .. Cardinality(used)
  /\ Range(db) \subseteq used
  /\ \A i, j \in DOMAIN db : db[i] = db[j] => i = j

\* A list of recipes that was true once: each is there as it was, or is gone for good.
Faded(b) ==
  \A i \in DOMAIN b :
    /\ b[i] \in used
    /\ (i \in DOMAIN db /\ db[i] = b[i]) \/ b[i] \notin Range(db)

\* The list held and the list under way were true once, and what the latter lacks is gone.
QueryFits ==
  /\ IsQuery(q, Books)
  /\ Faded(Recipes)
  /\ q.phase = "read" =>
       /\ q.snap \in Books /\ Faded(q.snap)
       /\ \A i \in DOMAIN Recipes \ DOMAIN q.snap : Recipes[i] \notin Range(db)

\* The rows to be compared are rows of the list that is held.
RowsFit == mine # 0 /\ posts[mine].phase = "recheck" => posts[mine].rows \subseteq DOMAIN Recipes

GoneFits == \A g \in dialog.gone : g.title \in used /\ g.title \notin Range(db)

PickerInv == ScreenTyped /\ CallsTyped /\ BookFits /\ QueryFits /\ RowsFit /\ GoneFits

\* A book in which an id stands for the recipe that Name gives it.
Agrees(book, Name) == \A i \in DOMAIN book : book[i] = Name[i]

\* As long as no id is given out again: what is held and what was sent speak of the same
\* recipes, and what is gone does not come back.
NamesFit(Name) ==
  /\ Agrees(Recipes, Name)
  /\ q.phase = "read" => Agrees(q.snap, Name)
  /\ \A g \in dialog.gone :
       /\ g.title = Name[g.id] /\ g.id \notin DOMAIN Recipes
       /\ q.phase = "read" => g.id \notin DOMAIN q.snap
  /\ \A n \in DOMAIN posts :
       posts[n].phase = "asked" => posts[n].seen = {Name[i] : i \in posts[n].rows}
  /\ ListsAreWhatWasSeen

-----------------------------------------------------------------------------
(* Books, ids and posts.                                                    *)

LEMMA BookIs ==
  ASSUME NEW b \in Books
  PROVE  DOMAIN b \in SUBSET Ids /\ b \in [DOMAIN b -> Titles] /\ \A i \in DOMAIN b : b[i] \in Titles
  BY DEF Books

LEMMA IsABook ==
  ASSUME NEW S \in SUBSET Ids, NEW b \in [S -> Titles]
  PROVE  b \in Books
  BY DEF Books

LEMMA NoneIsBook == None \in Books /\ DOMAIN None = {}
<1>1. None \in [{} -> Titles] /\ DOMAIN None = {}
  BY DEF None
<1> QED
  BY <1>1, IsABook

LEMMA RecipesAre ==
  ASSUME IsQuery(q, Books)
  PROVE  Recipes \in Books /\ (q.data # NoData => Recipes = q.data)
         /\ (q.data = NoData => DOMAIN Recipes = {})
  BY NoneIsBook DEF Recipes, IsQuery

LEMMA PostsAre ==
  ASSUME CallsTyped
  PROVE  /\ Len(posts) \in Nat /\ DOMAIN posts = 1 .. Len(posts)
         /\ \A n \in DOMAIN posts : posts[n] \in Post
         /\ mine # 0 => mine \in DOMAIN posts
<1>1. posts \in Seq(Post) /\ mine \in 0 .. Len(posts)
  BY DEF CallsTyped
<1> QED
  BY <1>1

\* One post is put in the place of another.
LEMMA PostsBut ==
  ASSUME CallsTyped, NEW n \in DOMAIN posts, NEW p \in Post, posts' = [posts EXCEPT ![n] = p]
  PROVE  /\ posts' \in Seq(Post) /\ Len(posts') = Len(posts) /\ DOMAIN posts' = DOMAIN posts
         /\ posts'[n] = p /\ \A m \in DOMAIN posts : m # n => posts'[m] = posts[m]
<1>1. PICK S : S = posts
  OBVIOUS
<1>2. S \in Seq(Post) /\ n \in DOMAIN S
  BY <1>1 DEF CallsTyped
<1>3. PICK T : T = [S EXCEPT ![n] = p]
  OBVIOUS
<1>4. /\ T \in Seq(Post) /\ Len(T) = Len(S) /\ DOMAIN T = DOMAIN S
      /\ T[n] = p /\ \A m \in DOMAIN S : m # n => T[m] = S[m]
  BY <1>2, <1>3
<1>5. posts' = T
  BY <1>1, <1>3
<1> QED
  BY <1>1, <1>4, <1>5

LEMMA SettleIs ==
  ASSUME NEW p \in Post
  PROVE  Settle(p) \in Post /\ Settle(p).phase = "settled"
<1>1. None \in [{} -> Amounts] /\ {} \in SUBSET Ids
  BY DEF None
<1>2. None \in UNION {[s -> Amounts] : s \in SUBSET Ids}
  BY <1>1
<1> QED
  BY <1>2 DEF Settle, Post

\* What a fetch that arrives or fails makes of the posts.
LEMMA SettledIs ==
  ASSUME CallsTyped
  PROVE  /\ Settled \in Seq(Post) /\ Len(Settled) = Len(posts) /\ DOMAIN Settled = DOMAIN posts
         /\ \A n \in DOMAIN posts : Settled[n].phase # "recheck"
         /\ \A n \in DOMAIN posts : Settled[n].phase = "asked" => Settled[n] = posts[n]
<1> DEFINE s(n) == IF n \in Rechecking THEN Settle(posts[n]) ELSE posts[n]
<1>1. PICK k \in Nat : k = Len(posts)
  BY PostsAre
<1>2. DOMAIN posts = 1 .. k /\ \A n \in 1 .. k : posts[n] \in Post
  BY <1>1, PostsAre
<1>3. \A n \in 1 .. k : s(n) \in Post /\ s(n).phase # "recheck"
                         /\ (s(n).phase = "asked" => s(n) = posts[n])
  <2> TAKE n \in 1 .. k
  <2>1. CASE n \in Rechecking
    BY <1>2, <2>1, SettleIs
  <2>2. CASE n \notin Rechecking
    BY <1>2, <2>2 DEF Rechecking
  <2> QED
    BY <2>1, <2>2
<1>4. Settled = [n \in 1 .. k |-> s(n)]
  BY <1>2 DEF Settled
<1> HIDE DEF s
<1>5. Settled \in Seq(Post) /\ Len(Settled) = k /\ DOMAIN Settled = 1 .. k
  BY <1>1, <1>3, <1>4
<1> QED
  BY <1>1, <1>2, <1>3, <1>4, <1>5

-----------------------------------------------------------------------------
(* The query.                                                               *)

LEMMA QueryIs ==
  ASSUME NEW e, IsQuery(e, Books)
  PROVE  /\ e = [data |-> e.data, phase |-> e.phase, snap |-> e.snap, failed |-> e.failed]
         /\ e.data \in Books \cup {NoData} /\ e.snap \in Books \cup {NoData}
         /\ e.phase \in {"idle", "asked", "read"} /\ e.failed \in BOOLEAN
  BY DEF IsQuery

\* A fetch, joined, begun or begun anew, or one that failed, keeps what is held and at
\* most what was read.
LEMMA AskIs ==
  ASSUME IsQuery(q, Books), NEW e \in {q, Fetch(q), Refetch(q), Fail(q)}
  PROVE  /\ IsQuery(e, Books) /\ e.data = q.data
         /\ e.phase = "read" => q.phase = "read" /\ e.snap = q.snap
<1>1. CASE e = q
  BY <1>1
<1>2. CASE e = Fetch(q)
  BY <1>2 DEF IsQuery, Fetch
<1>3. CASE e = Refetch(q)
  BY <1>3 DEF IsQuery, Refetch, Fetch
<1>4. CASE e = Fail(q)
  BY <1>4 DEF IsQuery, Fail, Cancel
<1> QED
  BY <1>1, <1>2, <1>3, <1>4

LEMMA AskKeeps ==
  ASSUME QueryFits, UNCHANGED <<db, used>>, q' \in {q, Fetch(q), Refetch(q), Fail(q)}
  PROVE  /\ QueryFits' /\ Recipes' = Recipes
         /\ q'.phase = "read" => q.phase = "read" /\ q'.snap = q.snap
<1>1. PICK e : e = q'
  OBVIOUS
<1>2. /\ IsQuery(e, Books) /\ e.data = q.data
      /\ e.phase = "read" => q.phase = "read" /\ e.snap = q.snap
  BY <1>1, AskIs DEF QueryFits
<1>3. Recipes' = Recipes
  BY <1>1, <1>2 DEF Recipes, None
<1>4. IsQuery(q', Books)
  BY <1>1, <1>2
<1>5. Faded(Recipes)'
  <2>1. Faded(Recipes)
    BY DEF QueryFits
  <2> QED
    BY <1>3, <2>1 DEF Faded, Range
<1>6. ASSUME q'.phase = "read"
      PROVE  (q.snap \in Books /\ Faded(q.snap)
              /\ \A i \in DOMAIN Recipes \ DOMAIN q.snap : Recipes[i] \notin Range(db))'
  <2>1. q.phase = "read" /\ q'.snap = q.snap
    BY <1>1, <1>2, <1>6
  <2>2. q.snap \in Books /\ Faded(q.snap)
        /\ \A i \in DOMAIN Recipes \ DOMAIN q.snap : Recipes[i] \notin Range(db)
    BY <2>1 DEF QueryFits
  <2> QED
    BY <1>3, <2>1, <2>2 DEF Faded, Range
<1>7. q'.phase = "read" => q.phase = "read" /\ q'.snap = q.snap
  BY <1>1, <1>2
<1>8. QueryFits'
  BY <1>4, <1>5, <1>6 DEF QueryFits
<1> QED
  BY <1>3, <1>7, <1>8

-----------------------------------------------------------------------------
(* Steps that change neither the recipes nor what is held of them.          *)

Keeps == PickerInv' /\ \A Name : Agrees(db, Name) /\ NamesFit(Name) => NamesFit(Name)'

\* A post that is asked is one of before, or of the rows that are shown.
PostOfShown(n) ==
  \/ n \in DOMAIN posts /\ posts'[n] = posts[n]
  \/ /\ posts'[n].rows \subseteq DOMAIN Recipes
     /\ posts'[n].seen = {Recipes[i] : i \in posts'[n].rows}

LEMMA QuietStep ==
  ASSUME PickerInv, UNCHANGED <<db, used, made>>, q' \in {q, Fetch(q), Refetch(q), Fail(q)},
         ScreenTyped', dialog'.gone \subseteq dialog.gone, CallsTyped',
         mine' # 0 /\ posts'[mine'].phase = "recheck" => posts'[mine'].rows \subseteq DOMAIN Recipes,
         \A n \in DOMAIN posts' : posts'[n].phase = "asked" => PostOfShown(n)
  PROVE  Keeps
<1>1. /\ QueryFits' /\ Recipes' = Recipes
      /\ q'.phase = "read" => q.phase = "read" /\ q'.snap = q.snap
  BY AskKeeps DEF PickerInv
<1>2. BookFits'
  BY DEF PickerInv, BookFits, Range
<1>3. GoneFits'
  BY DEF PickerInv, GoneFits, Range
<1>4. RowsFit'
  BY <1>1 DEF RowsFit
<1>5. ASSUME NEW Name, NamesFit(Name) PROVE NamesFit(Name)'
  <2>1. Agrees(Recipes, Name)'
    BY <1>1, <1>5 DEF NamesFit, Agrees
  <2>2. q'.phase = "read" => Agrees(q.snap, Name)'
    BY <1>1, <1>5 DEF NamesFit, Agrees
  <2>3. \A g \in dialog'.gone :
          /\ g.title = Name[g.id] /\ g.id \notin DOMAIN Recipes'
          /\ q'.phase = "read" => g.id \notin DOMAIN q'.snap
    BY <1>1, <1>5 DEF NamesFit
  <2>4. \A n \in DOMAIN posts' :
          posts'[n].phase = "asked" => posts'[n].seen = {Name[i] : i \in posts'[n].rows}
    <3> SUFFICES ASSUME NEW n \in DOMAIN posts', posts'[n].phase = "asked"
                 PROVE  posts'[n].seen = {Name[i] : i \in posts'[n].rows}
      OBVIOUS
    <3>1. CASE n \in DOMAIN posts /\ posts'[n] = posts[n]
      BY <1>5, <3>1 DEF NamesFit
    <3>2. CASE /\ posts'[n].rows \subseteq DOMAIN Recipes
               /\ posts'[n].seen = {Recipes[i] : i \in posts'[n].rows}
      <4>1. \A i \in posts'[n].rows : Recipes[i] = Name[i]
        BY <1>5, <3>2 DEF NamesFit, Agrees
      <4> QED
        BY <3>2, <4>1
    <3> QED
      BY <3>1, <3>2 DEF PostOfShown
  <2>5. ListsAreWhatWasSeen'
    BY <1>5 DEF NamesFit, ListsAreWhatWasSeen
  <2> QED
    BY <2>1, <2>2, <2>3, <2>4, <2>5 DEF NamesFit
<1> QED
  BY <1>1, <1>2, <1>3, <1>4, <1>5 DEF Keeps, PickerInv

\* What the member does to the screen alone.
LEMMA ScreenStep ==
  ASSUME PickerInv, UNCHANGED <<db, used, posts, made>>, q' \in {q, Fetch(q), Refetch(q), Fail(q)},
         mine' \in {0, mine}, ScreenTyped', dialog'.gone \subseteq dialog.gone
  PROVE  Keeps
<1>1. CallsTyped'
  BY PostsAre DEF PickerInv, CallsTyped
<1>2. mine' # 0 /\ posts'[mine'].phase = "recheck" => posts'[mine'].rows \subseteq DOMAIN Recipes
  BY DEF PickerInv, RowsFit
<1>3. \A n \in DOMAIN posts' : PostOfShown(n)
  BY DEF PostOfShown
<1> QED
  BY <1>1, <1>2, <1>3, QuietStep

-----------------------------------------------------------------------------
(* The page and the dialog.                                                 *)

LEMMA FreshTyped ==
  /\ FreshPick \in [mode : BOOLEAN, selected : SUBSET Ids, open : BOOLEAN]
  /\ FreshDialog \in [amounts : [Ids -> Amounts], gone : SUBSET [id : Ids, title : Titles], error : BOOLEAN]
  /\ FreshDialog.gone = {}
  BY DEF FreshPick, FreshDialog, Amounts

LEMMA ShownIds == ASSUME PickerInv PROVE DOMAIN Recipes \in SUBSET Ids
  BY RecipesAre, BookIs DEF PickerInv, QueryFits

LEMMA PageStep ==
  ASSUME PickerInv,
         UseControl \/ ToggleSelectMode \/ OpenDialog \/ Leave \/ Visit \/ CloseDialog \/ DropAll
           \/ Retry \/ Reconnect
  PROVE  Keeps
<1> USE FreshTyped DEF PickerInv, ScreenTyped
<1>1. CASE UseControl
  BY <1>1, ScreenStep DEF UseControl
<1>2. CASE ToggleSelectMode
  <2>1. pick' \in [mode : BOOLEAN, selected : SUBSET Ids, open : BOOLEAN]
    BY <1>2 DEF ToggleSelectMode
  <2> QED
    BY <1>2, <2>1, ScreenStep DEF ToggleSelectMode
<1>3. CASE OpenDialog
  <2>1. pick' \in [mode : BOOLEAN, selected : SUBSET Ids, open : BOOLEAN]
    BY <1>3 DEF OpenDialog, Rendered
  <2> QED
    BY <1>3, <2>1, ScreenStep DEF OpenDialog
<1>4. CASE Leave
  BY <1>4, ScreenStep DEF Leave
<1>5. CASE Visit
  BY <1>5, ScreenStep DEF Visit
<1>6. CASE CloseDialog
  <2>1. pick' \in [mode : BOOLEAN, selected : SUBSET Ids, open : BOOLEAN]
    BY <1>6 DEF CloseDialog
  <2> QED
    BY <1>6, <2>1, ScreenStep DEF CloseDialog
<1>7. CASE DropAll
  <2>1. pick' \in [mode : BOOLEAN, selected : SUBSET Ids, open : BOOLEAN]
    BY <1>7 DEF DropAll, Rendered
  <2>2. dialog' \in [amounts : [Ids -> Amounts], gone : SUBSET [id : Ids, title : Titles], error : BOOLEAN]
        /\ dialog'.gone = {}
    BY <1>7 DEF DropAll
  <2> QED
    BY <1>7, <2>1, <2>2, ScreenStep DEF DropAll
<1>8. CASE Retry
  BY <1>8, ScreenStep DEF Retry, screenVars
<1>9. CASE Reconnect
  BY <1>9, ScreenStep DEF Reconnect, screenVars
<1> QED
  BY <1>1, <1>2, <1>3, <1>4, <1>5, <1>6, <1>7, <1>8, <1>9

LEMMA RowStep ==
  ASSUME PickerInv, NEW i \in Ids, ToggleSelected(i) \/ \E a \in Amounts : SetAmount(i, a)
  PROVE  Keeps
<1> USE DEF PickerInv, ScreenTyped
<1>1. CASE ToggleSelected(i)
  <2>1. pick' \in [mode : BOOLEAN, selected : SUBSET Ids, open : BOOLEAN]
    BY <1>1 DEF ToggleSelected, Toggled
  <2> QED
    BY <1>1, <2>1, ScreenStep DEF ToggleSelected
<1>2. ASSUME NEW a \in Amounts, SetAmount(i, a) PROVE Keeps
  <2>1. /\ dialog' \in [amounts : [Ids -> Amounts], gone : SUBSET [id : Ids, title : Titles], error : BOOLEAN]
        /\ dialog'.gone = dialog.gone
    BY <1>2 DEF SetAmount
  <2> QED
    BY <1>2, <2>1, ScreenStep DEF SetAmount
<1> QED
  BY <1>1, <1>2

LEMMA CreateStep == ASSUME PickerInv, Create PROVE Keeps
<1> DEFINE new == [rows |-> Rows, amounts |-> [i \in Rows |-> dialog.amounts[i]],
                   seen |-> {Recipes[i] : i \in Rows}, phase |-> "asked", reply |-> "none"]
<1>1. PICK k \in Nat : k = Len(posts)
  BY PostsAre DEF PickerInv
<1>2. DOMAIN posts = 1 .. k /\ posts \in Seq(Post)
  BY <1>1, PostsAre DEF PickerInv, CallsTyped
<1>3. Rows \in SUBSET Ids /\ Rows \subseteq DOMAIN Recipes
  BY ShownIds DEF Rows, RowsOf
<1>4. new \in Post
  <2>1. {Recipes[i] : i \in Rows} \in SUBSET Titles
    BY <1>3, RecipesAre, BookIs DEF PickerInv, QueryFits
  <2>2. [i \in Rows |-> dialog.amounts[i]] \in UNION {[s -> Amounts] : s \in SUBSET Ids}
    BY <1>3 DEF PickerInv, ScreenTyped
  <2> QED
    BY <1>3, <2>1, <2>2 DEF Post
<1>5. new.rows = Rows /\ new.seen = {Recipes[i] : i \in Rows} /\ new.phase = "asked"
  OBVIOUS
<1>6. posts' = Append(posts, new) /\ mine' = Len(posts')
  BY DEF Create
<1> HIDE DEF new
<1>7. PICK p : p = new
  OBVIOUS
<1>8. /\ posts' \in Seq(Post) /\ Len(posts') = k + 1 /\ DOMAIN posts' = 1 .. (k + 1)
      /\ posts'[k + 1] = p /\ \A n \in 1 .. k : posts'[n] = posts[n]
  BY <1>1, <1>2, <1>4, <1>6, <1>7
<1>9. mine' = k + 1 /\ posts'[mine'].phase = "asked"
  BY <1>5, <1>6, <1>7, <1>8
<1>10. CallsTyped'
  BY <1>8, <1>9 DEF CallsTyped, PickerInv, Create
<1>11. \A n \in DOMAIN posts' : PostOfShown(n)
  <2> TAKE n \in DOMAIN posts'
  <2>1. CASE n \in 1 .. k
    BY <1>2, <1>8, <2>1 DEF PostOfShown
  <2>2. CASE n = k + 1
    BY <1>3, <1>5, <1>7, <1>8, <2>2 DEF PostOfShown
  <2> QED
    BY <1>8, <2>1, <2>2
<1>12. ScreenTyped'
  BY DEF ScreenTyped, PickerInv, Create
<1> QED
  BY <1>9, <1>10, <1>11, <1>12, QuietStep DEF Create

-----------------------------------------------------------------------------
(* What an answer does to the screen.                                       *)

LEMMA AnswerStep == ASSUME PickerInv, NEW n \in DOMAIN posts, Answer(n) PROVE Keeps
<1>1. posts[n] \in Post /\ CallsTyped
  BY PostsAre DEF PickerInv
<1>2. PICK p : p = Settle(posts[n])
  OBVIOUS
<1>3. p \in Post /\ p.phase = "settled"
  BY <1>1, <1>2, SettleIs
<1>4. ASSUME posts' = [posts EXCEPT ![n] = p] /\ mine' \in {0, mine} /\ made' = made
      PROVE  /\ CallsTyped'
             /\ mine' # 0 /\ posts'[mine'].phase = "recheck" => posts'[mine'].rows \subseteq DOMAIN Recipes
             /\ \A m \in DOMAIN posts' : posts'[m].phase = "asked" => PostOfShown(m)
  <2>1. /\ posts' \in Seq(Post) /\ Len(posts') = Len(posts) /\ DOMAIN posts' = DOMAIN posts
        /\ posts'[n] = p /\ \A m \in DOMAIN posts : m # n => posts'[m] = posts[m]
    BY <1>1, <1>3, <1>4, PostsBut
  <2>2. CallsTyped'
    BY <1>1, <1>4, <2>1, PostsAre DEF CallsTyped
  <2>3. mine' # 0 /\ posts'[mine'].phase = "recheck" => posts'[mine'].rows \subseteq DOMAIN Recipes
    BY <1>1, <1>3, <1>4, <2>1, PostsAre DEF PickerInv, RowsFit
  <2>4. \A m \in DOMAIN posts' : posts'[m].phase = "asked" => PostOfShown(m)
    BY <1>3, <2>1 DEF PostOfShown
  <2> QED
    BY <2>2, <2>3, <2>4
<1>5. UNCHANGED <<db, used, made>>
  BY DEF Answer
<1>6. CASE Created(n)
  <2>1. posts' = [posts EXCEPT ![n] = p] /\ mine' = 0 /\ q' = q
    BY <1>2, <1>6 DEF Created
  <2>2. ScreenTyped' /\ dialog'.gone = {}
    BY <1>6, FreshTyped DEF Created, ScreenTyped
  <2> QED
    BY <1>4, <1>5, <2>1, <2>2, QuietStep
<1>7. CASE Refused(n)
  <2>1. posts' = [posts EXCEPT ![n] = p] /\ mine' = mine /\ q' = q
    BY <1>2, <1>7 DEF Refused
  <2>2. ScreenTyped' /\ dialog'.gone \subseteq dialog.gone
    BY <1>7 DEF Refused, ScreenTyped, PickerInv
  <2> QED
    BY <1>4, <1>5, <2>1, <2>2, QuietStep
<1>8. CASE Recheck(n)
  <2>1. PICK r : r = [posts[n] EXCEPT !.phase = "recheck", !.rows = IF n = mine THEN Rows ELSE posts[n].rows]
    OBVIOUS
  <2>2. Rows \in SUBSET Ids /\ Rows \subseteq DOMAIN Recipes
    BY ShownIds DEF Rows, RowsOf
  <2>3. r \in Post /\ r.phase = "recheck" /\ (n = mine => r.rows = Rows)
    BY <1>1, <2>1, <2>2 DEF Post
  <2>4. posts' = [posts EXCEPT ![n] = r] /\ UNCHANGED <<mine, pick, dialog, away>> /\ q' = Fetch(q)
    BY <1>8, <2>1 DEF Recheck, screenVars
  <2>5. /\ posts' \in Seq(Post) /\ Len(posts') = Len(posts) /\ DOMAIN posts' = DOMAIN posts
        /\ posts'[n] = r /\ \A m \in DOMAIN posts : m # n => posts'[m] = posts[m]
    BY <1>1, <2>3, <2>4, PostsBut
  <2>6. CallsTyped'
    BY <1>1, <1>5, <2>4, <2>5, PostsAre DEF CallsTyped
  <2>7. mine' # 0 /\ posts'[mine'].phase = "recheck" => posts'[mine'].rows \subseteq DOMAIN Recipes
    <3>1. CASE mine = n
      BY <2>2, <2>3, <2>4, <2>5, <3>1
    <3>2. CASE mine # n
      BY <1>1, <2>4, <2>5, <3>2, PostsAre DEF PickerInv, RowsFit
    <3> QED
      BY <3>1, <3>2
  <2>8. \A m \in DOMAIN posts' : posts'[m].phase = "asked" => PostOfShown(m)
    BY <2>3, <2>5 DEF PostOfShown
  <2>9. ScreenTyped'
    BY <2>4 DEF ScreenTyped, PickerInv
  <2> QED
    BY <1>5, <2>4, <2>6, <2>7, <2>8, <2>9, QuietStep
<1> QED
  BY <1>6, <1>7, <1>8 DEF Answer

\* A fetch that fails for good settles what waited for it.
LEMMA LostStep == ASSUME PickerInv, RecipesLost PROVE Keeps
<1>1. CallsTyped /\ UNCHANGED <<db, used, made, pick, away>> /\ mine' = 0 /\ q' = Fail(q)
  BY DEF PickerInv, RecipesLost
<1>2. PICK s : s = Settled
  OBVIOUS
<1>3. posts' = s
  BY <1>2 DEF RecipesLost
<1>4. /\ s \in Seq(Post) /\ Len(s) = Len(posts) /\ DOMAIN s = DOMAIN posts
      /\ \A n \in DOMAIN posts : s[n].phase = "asked" => s[n] = posts[n]
  BY <1>1, <1>2, SettledIs
<1>5. CallsTyped'
  BY <1>1, <1>3, <1>4, PostsAre DEF CallsTyped
<1>6. \A n \in DOMAIN posts' : posts'[n].phase = "asked" => PostOfShown(n)
  BY <1>3, <1>4 DEF PostOfShown
<1>7. ScreenTyped' /\ dialog'.gone = {}
  BY <1>1, FreshTyped DEF ScreenTyped, PickerInv, RecipesLost
<1> QED
  BY <1>1, <1>5, <1>6, <1>7, QuietStep

-----------------------------------------------------------------------------
(* The list is read, and arrives.                                           *)

\* What is read is true at that moment, and what the list lacks has gone.
LEMMA ReadStep == ASSUME PickerInv, ReadRecipes PROVE Keeps
<1>1. /\ q' = ReadAs(q, db) /\ UNCHANGED <<db, used, posts, made, pick, dialog, mine, away>>
  BY DEF ReadRecipes, screenVars
<1>2. db \in Books /\ Range(db) \subseteq used /\ IsQuery(q, Books) /\ Faded(Recipes)
  BY DEF PickerInv, BookFits, QueryFits
<1>3. IsQuery(q', Books) /\ q'.data = q.data /\ q'.snap = db /\ q'.phase = "read"
  BY <1>1, <1>2 DEF IsQuery, ReadAs
<1>4. Recipes' = Recipes
  BY <1>3 DEF Recipes, None
<1>5. Faded(Recipes)'
  BY <1>1, <1>2, <1>4 DEF Faded, Range
<1>6. Faded(q.snap)'
  BY <1>1, <1>2, <1>3 DEF Faded, Range
<1>7. \A i \in DOMAIN Recipes \ DOMAIN db : Recipes[i] \notin Range(db)
  BY <1>2 DEF Faded
<1>8. (\A i \in DOMAIN Recipes \ DOMAIN q.snap : Recipes[i] \notin Range(db))'
  BY <1>1, <1>3, <1>4, <1>7 DEF Range
<1>9. QueryFits'
  BY <1>1, <1>2, <1>3, <1>5, <1>6, <1>8 DEF QueryFits
<1>10. PickerInv'
  <2>1. BookFits' /\ GoneFits'
    BY <1>1 DEF PickerInv, BookFits, GoneFits, Range
  <2>2. ScreenTyped' /\ CallsTyped'
    BY <1>1 DEF PickerInv, ScreenTyped, CallsTyped
  <2>3. RowsFit'
    BY <1>1, <1>4 DEF PickerInv, RowsFit
  <2> QED
    BY <1>9, <2>1, <2>2, <2>3 DEF PickerInv
<1>11. ASSUME NEW Name, Agrees(db, Name), NamesFit(Name) PROVE NamesFit(Name)'
  <2>1. \A g \in dialog.gone : g.id \notin DOMAIN db
    <3> SUFFICES ASSUME NEW g \in dialog.gone, g.id \in DOMAIN db PROVE FALSE
      OBVIOUS
    <3>1. db[g.id] = g.title
      BY <1>11 DEF Agrees, NamesFit
    <3> QED
      BY <3>1 DEF PickerInv, GoneFits, Range
  <2>2. Agrees(Recipes, Name)'
    BY <1>4, <1>11 DEF NamesFit, Agrees
  <2>3. Agrees(q.snap, Name)'
    BY <1>3, <1>11 DEF Agrees
  <2>4. ListsAreWhatWasSeen'
    BY <1>1, <1>11 DEF NamesFit, ListsAreWhatWasSeen
  <2>5. \A g \in dialog'.gone :
          /\ g.title = Name[g.id] /\ g.id \notin DOMAIN Recipes'
          /\ q'.phase = "read" => g.id \notin DOMAIN q'.snap
    BY <1>1, <1>3, <1>4, <1>11, <2>1 DEF NamesFit
  <2>6. \A n \in DOMAIN posts' :
          posts'[n].phase = "asked" => posts'[n].seen = {Name[i] : i \in posts'[n].rows}
    BY <1>1, <1>11 DEF NamesFit
  <2> QED
    BY <2>2, <2>3, <2>4, <2>5, <2>6 DEF NamesFit
<1> QED
  BY <1>10, <1>11 DEF Keeps

\* What the new list lacks of the rows of the call is gone; the rest of the rows is what
\* the next attempt sends.
LEMMA ArriveStep == ASSUME Setup, PickerInv, RecipesArrive PROVE Keeps
<1>1. /\ q.phase = "read" /\ q' = Deliver(q) /\ UNCHANGED <<db, used, mine, away, made>>
      /\ pick' = Rendered(pick, q.snap)
      /\ dialog' = IF mine \in Rechecking THEN Compared(q.snap) ELSE dialog
  BY DEF RecipesArrive
<1>2. /\ IsQuery(q, Books) /\ q.snap \in Books /\ Faded(q.snap) /\ Faded(Recipes)
      /\ \A i \in DOMAIN Recipes \ DOMAIN q.snap : Recipes[i] \notin Range(db)
  BY <1>1 DEF PickerInv, QueryFits
<1>3. IsQuery(q', Books) /\ q'.data = q.snap /\ q'.phase = "idle"
  BY <1>1, <1>2 DEF IsQuery, Deliver, Cancel
<1>4. Recipes' = q.snap
  BY <1>2, <1>3 DEF Recipes, Setup
<1>5. QueryFits'
  <2>1. Faded(Recipes)'
    BY <1>1, <1>2, <1>4 DEF Faded, Range
  <2> QED
    BY <1>3, <2>1 DEF QueryFits
<1>6. PICK s : s = Settled
  OBVIOUS
<1>7. posts' = s
  BY <1>6 DEF RecipesArrive
<1>8. /\ s \in Seq(Post) /\ Len(s) = Len(posts) /\ DOMAIN s = DOMAIN posts
      /\ \A n \in DOMAIN posts : s[n].phase # "recheck" /\ (s[n].phase = "asked" => s[n] = posts[n])
  BY <1>6, SettledIs DEF PickerInv
<1>9. CallsTyped' /\ RowsFit'
  <2>1. CallsTyped'
    BY <1>1, <1>7, <1>8 DEF CallsTyped, PickerInv
  <2>2. mine' # 0 => mine' \in DOMAIN posts
    BY <1>1, PostsAre DEF PickerInv
  <2> QED
    BY <1>7, <1>8, <2>1, <2>2 DEF RowsFit
<1>10. ASSUME NEW g \in dialog'.gone
       PROVE  \/ g \in dialog.gone
              \/ \E i \in DOMAIN Recipes \ DOMAIN q.snap : g = [id |-> i, title |-> Recipes[i]]
  <2>1. CASE mine \notin Rechecking
    BY <1>1, <1>10, <2>1
  <2>2. CASE mine \in Rechecking
    <3>1. dialog'.gone = Missing(mine, q.snap)
      BY <1>1, <2>2 DEF Compared, PickerInv, ScreenTyped
    <3>2. PICK i \in posts[mine].rows \ DOMAIN q.snap : g = [id |-> i, title |-> q.data[i]]
      BY <1>10, <3>1 DEF Missing
    <3>3. mine # 0 /\ posts[mine].phase = "recheck"
      BY <2>2, PostsAre DEF Rechecking, PickerInv
    <3>4. i \in DOMAIN Recipes
      BY <3>2, <3>3 DEF PickerInv, RowsFit
    <3>5. Recipes[i] = q.data[i]
      BY <1>2, <3>4, RecipesAre
    <3> QED
      BY <3>2, <3>4, <3>5
  <2> QED
    BY <2>1, <2>2
<1>11. GoneFits'
  <2> SUFFICES ASSUME NEW g \in dialog'.gone PROVE g.title \in used /\ g.title \notin Range(db)
    BY <1>1 DEF GoneFits, Range
  <2>1. CASE g \in dialog.gone
    BY <2>1 DEF PickerInv, GoneFits
  <2>2. ASSUME NEW i \in DOMAIN Recipes \ DOMAIN q.snap, g = [id |-> i, title |-> Recipes[i]]
        PROVE  g.title \in used /\ g.title \notin Range(db)
    BY <1>2, <2>2 DEF Faded
  <2> QED
    BY <1>10, <2>1, <2>2
<1>12. ScreenTyped'
  <2>1. pick' \in [mode : BOOLEAN, selected : SUBSET Ids, open : BOOLEAN]
    BY <1>1 DEF PickerInv, ScreenTyped, Rendered
  <2>2. dialog'.gone \in SUBSET [id : Ids, title : Titles]
    <3> SUFFICES ASSUME NEW g \in dialog'.gone PROVE g \in [id : Ids, title : Titles]
      OBVIOUS
    <3>1. CASE g \in dialog.gone
      BY <3>1 DEF PickerInv, ScreenTyped
    <3>2. ASSUME NEW i \in DOMAIN Recipes \ DOMAIN q.snap, g = [id |-> i, title |-> Recipes[i]]
          PROVE  g \in [id : Ids, title : Titles]
      BY <1>2, <3>2, RecipesAre, BookIs
    <3> QED
      BY <1>10, <3>1, <3>2
  <2>3. dialog' \in [amounts : [Ids -> Amounts], gone : SUBSET [id : Ids, title : Titles], error : BOOLEAN]
    <3>1. CASE mine \notin Rechecking
      BY <1>1, <3>1 DEF PickerInv, ScreenTyped
    <3>2. CASE mine \in Rechecking
      <4>1. PICK m : m = Missing(mine, q.snap)
        OBVIOUS
      <4>2. dialog' = [dialog EXCEPT !.gone = m, !.error = (m = {})]
        BY <1>1, <3>2, <4>1 DEF Compared
      <4>3. m \in SUBSET [id : Ids, title : Titles]
        BY <2>2, <4>2 DEF PickerInv, ScreenTyped
      <4>4. (m = {}) \in BOOLEAN
        OBVIOUS
      <4> QED
        BY <4>2, <4>3, <4>4 DEF PickerInv, ScreenTyped
    <3> QED
      BY <3>1, <3>2
  <2> QED
    BY <1>1, <2>1, <2>3 DEF PickerInv, ScreenTyped
<1>13. BookFits'
  BY <1>1 DEF PickerInv, BookFits, Range
<1>14. ASSUME NEW Name, NamesFit(Name) PROVE NamesFit(Name)'
  <2>1. Agrees(Recipes, Name) /\ Agrees(q.snap, Name)
    BY <1>1, <1>14 DEF NamesFit
  <2>2. ASSUME NEW g \in dialog'.gone PROVE g.title = Name[g.id] /\ g.id \notin DOMAIN q.snap
    <3>1. CASE g \in dialog.gone
      BY <1>1, <1>14, <3>1 DEF NamesFit
    <3>2. ASSUME NEW i \in DOMAIN Recipes \ DOMAIN q.snap, g = [id |-> i, title |-> Recipes[i]]
          PROVE  g.title = Name[g.id] /\ g.id \notin DOMAIN q.snap
      BY <2>1, <3>2 DEF Agrees
    <3> QED
      BY <1>10, <2>2, <3>1, <3>2
  <2>3. \A n \in DOMAIN posts' :
          posts'[n].phase = "asked" => posts'[n].seen = {Name[i] : i \in posts'[n].rows}
    BY <1>7, <1>8, <1>14 DEF NamesFit
  <2>4. ListsAreWhatWasSeen'
    BY <1>1, <1>14 DEF NamesFit, ListsAreWhatWasSeen
  <2>5. Agrees(Recipes, Name)'
    BY <1>4, <2>1 DEF Agrees
  <2>6. \A g \in dialog'.gone :
          /\ g.title = Name[g.id] /\ g.id \notin DOMAIN Recipes'
          /\ q'.phase = "read" => g.id \notin DOMAIN q'.snap
    BY <1>3, <1>4, <2>2
  <2>7. q'.phase # "read"
    BY <1>3
  <2> QED
    BY <2>3, <2>4, <2>5, <2>6, <2>7 DEF NamesFit
<1> QED
  BY <1>5, <1>9, <1>11, <1>12, <1>13, <1>14 DEF Keeps, PickerInv

-----------------------------------------------------------------------------
(* The server answers.                                                      *)

LEMMA AnsweredStep ==
  ASSUME PickerInv, NEW n \in DOMAIN posts, posts[n].phase = "asked",
         NEW p \in Post, p.phase = "answered", posts' = [posts EXCEPT ![n] = p],
         UNCHANGED <<db, used, q, pick, dialog, mine, away>>,
         NEW L \in SUBSET {ListOf(n)}, L # {} => AllThere(n), made' = made \cup L
  PROVE  Keeps
<1>1. CallsTyped /\ posts[n] \in Post
  BY PostsAre DEF PickerInv
<1>2. /\ posts' \in Seq(Post) /\ Len(posts') = Len(posts) /\ DOMAIN posts' = DOMAIN posts
      /\ posts'[n] = p /\ \A m \in DOMAIN posts : m # n => posts'[m] = posts[m]
  BY <1>1, PostsBut
<1>3. \A l \in L : /\ l.recipes = {db[i] : i \in posts[n].rows \cap DOMAIN db}
                   /\ l.seen = posts[n].seen /\ posts[n].rows \subseteq DOMAIN db
  BY DEF ListOf, AllThere
<1>4. CallsTyped'
  <2>1. \A l \in L : l.recipes \cup l.seen \subseteq Titles
    BY <1>1, <1>3, BookIs DEF PickerInv, BookFits, Post
  <2> QED
    BY <1>1, <1>2, <2>1 DEF CallsTyped
<1>5. RowsFit'
  <2>1. CASE mine = n
    BY <1>2, <2>1 DEF RowsFit
  <2>2. CASE mine # n
    BY <1>1, <1>2, <2>2, PostsAre DEF PickerInv, RowsFit, Recipes, None
  <2> QED
    BY <2>1, <2>2
<1>6. BookFits' /\ GoneFits'
  BY DEF PickerInv, BookFits, GoneFits, Range
<1>7. QueryFits'
  BY DEF PickerInv, QueryFits, Faded, Range, Recipes, None
<1>8. ScreenTyped'
  BY DEF PickerInv, ScreenTyped
<1>9. ASSUME NEW Name, Agrees(db, Name), NamesFit(Name) PROVE NamesFit(Name)'
  <2>1. posts[n].seen = {Name[i] : i \in posts[n].rows}
    BY <1>9 DEF NamesFit
  <2>2. \A l \in L : l.recipes = l.seen
    BY <1>3, <1>9, <2>1 DEF Agrees
  <2>3. ListsAreWhatWasSeen'
    BY <1>9, <2>2 DEF NamesFit, ListsAreWhatWasSeen
  <2>4. \A m \in DOMAIN posts' :
          posts'[m].phase = "asked" => posts'[m].seen = {Name[i] : i \in posts'[m].rows}
    BY <1>2, <1>9 DEF NamesFit
  <2>5. Recipes' = Recipes
    BY DEF Recipes, None
  <2>6. Agrees(Recipes, Name)' /\ (q'.phase = "read" => Agrees(q.snap, Name)')
    BY <1>9, <2>5 DEF NamesFit, Agrees
  <2>7. \A g \in dialog'.gone :
          /\ g.title = Name[g.id] /\ g.id \notin DOMAIN Recipes'
          /\ q'.phase = "read" => g.id \notin DOMAIN q'.snap
    BY <1>9, <2>5 DEF NamesFit
  <2> QED
    BY <2>3, <2>4, <2>6, <2>7 DEF NamesFit
<1> QED
  BY <1>4, <1>5, <1>6, <1>7, <1>8, <1>9 DEF Keeps, PickerInv

LEMMA ServerStep ==
  ASSUME PickerInv, NEW n \in DOMAIN posts, Serve(n) \/ Lose(n)
  PROVE  Keeps
<1>1. posts[n] \in Post /\ posts[n].phase = "asked"
  BY PostsAre DEF PickerInv, Serve, Lose
<1>2. UNCHANGED <<db, used, q, pick, dialog, mine, away>>
  BY DEF Serve, Lose, screenVars
<1>3. ASSUME NEW r \in {"ok", "gone", "failed"},
             posts' = [posts EXCEPT ![n].phase = "answered", ![n].reply = r],
             \/ made' = made
             \/ AllThere(n) /\ made' = made \cup {ListOf(n)}
      PROVE  Keeps
  <2>1. PICK p : p = [posts[n] EXCEPT !.phase = "answered", !.reply = r]
    OBVIOUS
  <2>2. p \in Post /\ p.phase = "answered"
    BY <1>1, <2>1 DEF Post
  <2>3. posts' = [posts EXCEPT ![n] = p]
    BY <1>3, <2>1
  <2>4. CASE made' = made
    <3>1. made' = made \cup {} /\ {} \in SUBSET {ListOf(n)}
      BY <2>4
    <3> QED
      BY <1>1, <1>2, <2>2, <2>3, <3>1, AnsweredStep
  <2>5. CASE AllThere(n) /\ made' = made \cup {ListOf(n)}
    BY <1>1, <1>2, <2>2, <2>3, <2>5, AnsweredStep
  <2> QED
    BY <1>3, <2>4, <2>5
<1>4. CASE Serve(n)
  BY <1>3, <1>4 DEF Serve
<1>5. CASE Lose(n)
  <2>1. posts' = [posts EXCEPT ![n].phase = "answered", ![n].reply = "failed"]
    BY <1>5 DEF Lose
  <2>2. \/ made' = made
        \/ AllThere(n) /\ made' = made \cup {ListOf(n)}
    BY <1>5 DEF Lose
  <2> QED
    BY <1>3, <2>1, <2>2
<1> QED
  BY <1>4, <1>5

-----------------------------------------------------------------------------
(* The household deletes and adds recipes.                                  *)

LEMMA MaxIsGreatest ==
  ASSUME NEW n \in Nat, NEW S \in SUBSET (0 .. n), S # {}
  PROVE  Max(S) \in S /\ \A x \in S : Max(S) >= x
<1> DEFINE Above(m) == {y \in S : y > m}
           F == {Above(m) : m \in S}
<1>1. F \subseteq FiniteSubsetsOf(S) /\ F # {}
  <2>1. IsFiniteSet(0 .. n)
    BY FS_Interval
  <2>2. \A m \in S : IsFiniteSet(Above(m))
    <3> TAKE m \in S
    <3>1. Above(m) \in SUBSET (0 .. n)
      OBVIOUS
    <3> QED
      BY <2>1, <3>1, FS_Subset
  <2> QED
    BY <2>2 DEF FiniteSubsetsOf
<1>2. PICK t \in F : \A u \in F : <<u, t>> \notin StrictSubsetOrdering(S)
  <2>1. IsWellFoundedOn(StrictSubsetOrdering(S), FiniteSubsetsOf(S))
    BY FS_Interval, FS_Subset, FS_StrictSubsetOrderingWellFounded
  <2> HIDE DEF F
  <2> QED
    BY <1>1, <2>1, WFMin
<1>3. PICK m \in S : t = Above(m)
  BY <1>2
<1>4. \A x \in S : m >= x
  <2> SUFFICES ASSUME NEW x \in S, ~(m >= x) PROVE FALSE
    OBVIOUS
  <2>1. x \in Int /\ m \in Int /\ \A y \in S : y \in Int
    OBVIOUS
  <2>2. x \in Above(m) /\ x \notin Above(x) /\ Above(x) \subseteq Above(m)
    <3>1. x > m /\ ~(x > x) /\ \A y \in S : y > x => y > m
      BY <2>1
    <3> QED
      BY <3>1
  <2>3. <<Above(x), Above(m)>> \in StrictSubsetOrdering(S)
    BY <2>2 DEF StrictSubsetOrdering
  <2> QED
    BY <1>2, <1>3, <2>3
<1> QED
  BY <1>4 DEF Max

\* A new id is the one after the greatest in use, and there are as many ids as titles.
LEMMA NextIdIsFree ==
  ASSUME PickerInv, NEW k \in Nat, k = Cardinality(used)
  PROVE  NextId \in 1 .. (k + 1) /\ NextId \notin DOMAIN db
<1>1. db \in Books /\ DOMAIN db \subseteq 1 .. k
  BY DEF PickerInv, BookFits
<1>2. CASE db = None
  BY <1>2, NoneIsBook DEF NextId
<1>3. CASE db # None
  <2>1. DOMAIN db # {}
    <3> SUFFICES ASSUME DOMAIN db = {} PROVE FALSE
      OBVIOUS
    <3>1. db \in [{} -> Titles]
      BY <1>1, BookIs
    <3>2. db = [i \in {} |-> ""]
      BY <3>1
    <3> QED
      BY <1>3, <3>2 DEF None
  <2>2. PICK D : D = DOMAIN db
    OBVIOUS
  <2>3. D \in SUBSET (0 .. k) /\ D # {} /\ D \subseteq 1 .. k
    BY <1>1, <2>1, <2>2
  <2>4. PICK m : m = Max(D)
    OBVIOUS
  <2>5. m \in D /\ \A x \in D : m >= x
    BY <2>3, <2>4, MaxIsGreatest
  <2>6. NextId = 1 + m
    BY <1>3, <2>2, <2>4 DEF NextId
  <2>7. m \in 1 .. k /\ 1 + m \notin D
    <3>1. m \in 1 .. k
      BY <2>3, <2>5
    <3>2. ~(m >= 1 + m)
      BY <3>1
    <3> QED
      BY <2>5, <3>1, <3>2
  <2> QED
    BY <2>2, <2>6, <2>7
<1> QED
  BY <1>2, <1>3

\* Whoever deletes or adds: a title that is gone stays gone, and a list that was true
\* once remains so.
LEMMA BookStep ==
  ASSUME Setup, PickerInv, OthersAct
  PROVE  /\ BookFits'
         /\ \A b : Faded(b) => Faded(b)'
         /\ \A t \in used : t \notin Range(db) => t \in used' /\ t \notin Range(db)'
<1>1. /\ db \in Books /\ used \subseteq Titles /\ DOMAIN db \subseteq 1 .. Cardinality(used)
      /\ Range(db) \subseteq used /\ \A i, j \in DOMAIN db : db[i] = db[j] => i = j
  BY DEF PickerInv, BookFits
<1>2. /\ DOMAIN db \in SUBSET Ids /\ \A i \in DOMAIN db : db[i] \in Titles
      /\ \A i \in DOMAIN db : db[i] \in used
  BY <1>1, BookIs DEF Range
<1>3. /\ IsFiniteSet(Titles) /\ IsFiniteSet(used)
      /\ Cardinality(used) \in Nat /\ Cardinality(Titles) \in Nat
      /\ Cardinality(used) <= Cardinality(Titles)
  BY <1>1, FS_Subset, FS_CardinalityType DEF Setup
<1>4. ASSUME NEW i \in DOMAIN db, db' = [j \in DOMAIN db \ {i} |-> db[j]], used' = used
      PROVE  /\ BookFits'
             /\ \A b : Faded(b) => Faded(b)'
             /\ \A t \in used : t \notin Range(db) => t \in used' /\ t \notin Range(db)'
  <2>1. DOMAIN db' = DOMAIN db \ {i} /\ \A j \in DOMAIN db' : db'[j] = db[j]
    BY <1>4
  <2>2. db' \in Books
    <3>1. db' \in [DOMAIN db \ {i} -> Titles]
      BY <1>2, <1>4
    <3> QED
      BY <1>2, <3>1, IsABook
  <2>3. BookFits'
    <3>1. Range(db') \subseteq used
      BY <1>2, <2>1 DEF Range
    <3> QED
      BY <1>1, <1>4, <2>1, <2>2, <3>1 DEF BookFits
  <2>4. \A t : t \notin Range(db) => t \notin Range(db)'
    BY <2>1 DEF Range
  <2>5. db[i] \notin Range(db)'
    BY <1>1, <2>1 DEF Range
  <2>6. ASSUME NEW b, Faded(b) PROVE Faded(b)'
    <3> SUFFICES ASSUME NEW k \in DOMAIN b
                 PROVE  /\ b[k] \in used'
                        /\ (k \in DOMAIN db' /\ db'[k] = b[k]) \/ b[k] \notin Range(db)'
      BY DEF Faded
    <3>1. b[k] \in used /\ ((k \in DOMAIN db /\ db[k] = b[k]) \/ b[k] \notin Range(db))
      BY <2>6 DEF Faded
    <3> QED
      BY <1>4, <2>1, <2>4, <2>5, <3>1
  <2> QED
    BY <1>4, <2>3, <2>4, <2>6
<1>5. ASSUME NEW t \in Titles \ used,
             db' = [j \in DOMAIN db \cup {NextId} |-> IF j = NextId THEN t ELSE db[j]],
             used' = used \cup {t}
      PROVE  /\ BookFits'
             /\ \A b : Faded(b) => Faded(b)'
             /\ \A x \in used : x \notin Range(db) => x \in used' /\ x \notin Range(db)'
  <2>1. PICK k \in Nat : k = Cardinality(used)
    BY <1>3
  <2>2. PICK id : id = NextId
    OBVIOUS
  <2>3. id \in 1 .. (k + 1) /\ id \notin DOMAIN db
    BY <2>1, <2>2, NextIdIsFree
  <2>4. /\ DOMAIN db' = DOMAIN db \cup {id} /\ db'[id] = t
        /\ \A j \in DOMAIN db : db'[j] = db[j]
    BY <1>5, <2>2, <2>3
  <2>5. used' \in SUBSET Titles /\ Cardinality(used') = k + 1 /\ k + 1 <= Cardinality(Titles)
    <3>1. PICK u : u = used \cup {t}
      OBVIOUS
    <3>2. Cardinality(u) = k + 1
      BY <1>3, <1>5, <2>1, <3>1, FS_AddElement
    <3>3. u \in SUBSET Titles
      BY <1>1, <3>1
    <3>4. Cardinality(u) <= Cardinality(Titles)
      BY <1>3, <3>3, FS_Subset
    <3> QED
      BY <1>5, <3>1, <3>2, <3>3, <3>4
  <2>6. DOMAIN db' \subseteq 1 .. (k + 1) /\ DOMAIN db' \in SUBSET Ids
    <3>1. DOMAIN db \subseteq 1 .. k
      BY <1>1, <2>1
    <3>2. DOMAIN db' \subseteq 1 .. (k + 1)
      BY <2>3, <2>4, <3>1
    <3> QED
      BY <1>3, <2>5, <3>2 DEF Ids
  <2>7. db' \in Books
    <3>1. db' \in [DOMAIN db' -> Titles]
      BY <1>2, <1>5, <2>2, <2>4
    <3> QED
      BY <2>6, <3>1, IsABook
  <2>8. Range(db') = Range(db) \cup {t}
    BY <2>3, <2>4 DEF Range
  <2>9. BookFits'
    <3>1. \A i, j \in DOMAIN db' : db'[i] = db'[j] => i = j
      BY <1>1, <1>2, <2>4
    <3>2. Range(db') \subseteq used'
      BY <1>1, <1>5, <2>8
    <3> QED
      BY <2>5, <2>6, <2>7, <3>1, <3>2 DEF BookFits
  <2>10. Range(db)' = Range(db) \cup {t}
    BY <2>8 DEF Range
  <2>11. \A x \in used : x \notin Range(db) => x \in used' /\ x \notin Range(db)'
    BY <1>5, <2>10
  <2>12. ASSUME NEW b, Faded(b) PROVE Faded(b)'
    <3> SUFFICES ASSUME NEW i \in DOMAIN b
                 PROVE  /\ b[i] \in used'
                        /\ (i \in DOMAIN db' /\ db'[i] = b[i]) \/ b[i] \notin Range(db)'
      BY DEF Faded
    <3>1. b[i] \in used /\ ((i \in DOMAIN db /\ db[i] = b[i]) \/ b[i] \notin Range(db))
      BY <2>12 DEF Faded
    <3> QED
      BY <1>5, <2>4, <2>11, <3>1
  <2> QED
    BY <2>9, <2>11, <2>12
<1> QED
  BY <1>4, <1>5 DEF OthersAct

LEMMA OthersStep == ASSUME Setup, PickerInv, OthersAct PROVE Keeps
<1>1. UNCHANGED <<q, pick, dialog, mine, away, posts, made>>
  BY DEF OthersAct, screenVars
<1>2. BookFits' /\ \A b : Faded(b) => Faded(b)'
  BY BookStep
<1>3. \A t \in used : t \notin Range(db) => t \in used' /\ t \notin Range(db)'
  BY BookStep
<1>4. Recipes' = Recipes
  BY <1>1 DEF Recipes, None
<1>5. PICK r : r = Recipes
  OBVIOUS
<1>6. PICK s : s = q.snap
  OBVIOUS
<1>7. IsQuery(q, Books) /\ Faded(r)
      /\ (q.phase = "read" => /\ s \in Books /\ Faded(s)
                              /\ \A i \in DOMAIN r \ DOMAIN s : r[i] \notin Range(db))
  BY <1>5, <1>6 DEF PickerInv, QueryFits
<1>8. \A i \in DOMAIN r : r[i] \in used
  BY <1>7 DEF Faded
<1>9. Faded(r)' /\ (q.phase = "read" => Faded(s)')
  BY <1>2, <1>7
<1>10. Recipes' = r /\ q'.snap = s
  BY <1>1, <1>4, <1>5, <1>6
<1>11. q.phase = "read" => \A i \in DOMAIN r \ DOMAIN s : r[i] \notin Range(db)'
  BY <1>3, <1>7, <1>8
<1>12. QueryFits'
  <2>1. Faded(Recipes)'
    BY <1>9, <1>10 DEF Faded
  <2>2. q.phase = "read" => Faded(q.snap)'
    BY <1>9, <1>10 DEF Faded
  <2>3. q.phase = "read" => \A i \in DOMAIN Recipes' \ DOMAIN q'.snap : Recipes'[i] \notin Range(db)'
    BY <1>10, <1>11
  <2> QED
    BY <1>1, <1>7, <1>10, <2>1, <2>2, <2>3 DEF QueryFits
<1>13. GoneFits'
  BY <1>1, <1>3 DEF PickerInv, GoneFits
<1>14. ScreenTyped' /\ CallsTyped' /\ RowsFit'
  BY <1>1, <1>4 DEF PickerInv, ScreenTyped, CallsTyped, RowsFit
<1>15. ASSUME NEW Name, NamesFit(Name) PROVE NamesFit(Name)'
  BY <1>1, <1>4, <1>15 DEF NamesFit, Agrees, ListsAreWhatWasSeen
<1> QED
  BY <1>2, <1>12, <1>13, <1>14, <1>15 DEF Keeps, PickerInv

-----------------------------------------------------------------------------
(* The start, and every step.                                               *)

\* No title is given twice, so that the first recipes are no more than the titles.
LEMMA FirstFits ==
  ASSUME Setup
  PROVE  /\ First \in Books /\ Range(First) \subseteq Titles
         /\ DOMAIN First \subseteq 1 .. Cardinality(Range(First))
<1>1. PICK n \in Nat : n = Len(First)
  BY DEF Setup
<1>2. DOMAIN First = 1 .. n /\ First \in [1 .. n -> Titles]
  BY <1>1 DEF Setup
<1>3. PICK T : T = Range(First)
  OBVIOUS
<1>4. T \in SUBSET Titles /\ First \in [1 .. n -> T]
  BY <1>2, <1>3 DEF Range
<1>5. First \in Surjection(1 .. n, T) /\ First \in Injection(1 .. n, T)
  BY <1>2, <1>3, <1>4 DEF Range, Surjection, Injection, IsInjective, Setup
<1>6. IsFiniteSet(1 .. n) /\ Cardinality(1 .. n) = n
  BY FS_Interval
<1>7. Cardinality(T) = n
  BY <1>5, <1>6, FS_Surjection
<1>8. IsFiniteSet(Titles)
  BY DEF Setup
<1>9. n <= Cardinality(Titles) /\ Cardinality(Titles) \in Nat
  BY <1>4, <1>7, <1>8, FS_Subset, FS_CardinalityType
<1>10. 1 .. n \in SUBSET Ids
  BY <1>9 DEF Ids
<1>11. First \in Books
  BY <1>2, <1>10, IsABook
<1> QED
  BY <1>2, <1>3, <1>4, <1>7, <1>11

LEMMA PickerInit == Setup /\ Init => PickerInv /\ \A Name : Agrees(db, Name) => NamesFit(Name)
<1> SUFFICES ASSUME Setup, Init PROVE PickerInv /\ \A Name : Agrees(db, Name) => NamesFit(Name)
  OBVIOUS
<1>1. /\ db = First /\ used = Range(First) /\ q = Fetch(NewQuery)
      /\ pick = FreshPick /\ dialog = FreshDialog /\ away = FALSE
      /\ posts = <<>> /\ mine = 0 /\ made = {}
  BY DEF Init
<1>2. ScreenTyped /\ dialog.gone = {}
  BY <1>1, FreshTyped DEF ScreenTyped
<1>3. CallsTyped
  BY <1>1 DEF CallsTyped
<1>4. BookFits
  BY <1>1, FirstFits DEF BookFits, Setup
<1>5. IsQuery(q, Books) /\ q.phase = "asked" /\ q.data = NoData
  BY <1>1 DEF NewQuery, Fetch, Fetching, IsQuery
<1>6. DOMAIN Recipes = {}
  BY <1>5, RecipesAre
<1>7. QueryFits
  BY <1>5, <1>6 DEF QueryFits, Faded
<1>8. RowsFit /\ GoneFits
  BY <1>1, <1>2 DEF RowsFit, GoneFits
<1>9. \A Name : NamesFit(Name)
  <2>1. DOMAIN posts = {}
    BY <1>1
  <2> QED
    BY <1>1, <1>2, <1>5, <1>6, <2>1 DEF NamesFit, Agrees, ListsAreWhatWasSeen
<1> QED
  BY <1>2, <1>3, <1>4, <1>7, <1>8, <1>9 DEF PickerInv

LEMMA StutterStep == ASSUME PickerInv, UNCHANGED vars PROVE Keeps
<1>1. UNCHANGED <<db, used, q, posts, made, pick, dialog, mine, away>>
  BY DEF vars, screenVars
<1>2. ScreenTyped'
  BY <1>1 DEF PickerInv, ScreenTyped
<1> QED
  BY <1>1, <1>2, ScreenStep

LEMMA PickerNext == Setup /\ PickerInv /\ [Next]_vars => Keeps
<1> SUFFICES ASSUME Setup, PickerInv, [Next]_vars PROVE Keeps
  OBVIOUS
<1>1. CASE Member
  <2>1. CASE \E i \in Ids : ToggleSelected(i) \/ \E a \in Amounts : SetAmount(i, a)
    BY <2>1, RowStep
  <2> QED
    BY <1>1, <2>1, PageStep, CreateStep DEF Member
<1>2. CASE \E n \in DOMAIN posts : Network(n)
  BY <1>2, ServerStep, AnswerStep DEF Network
<1>3. CASE Query
  BY <1>3, ReadStep, ArriveStep, LostStep DEF Query
<1>4. CASE Reconnect
  BY <1>4, PageStep
<1>5. CASE OthersAct
  BY <1>5, OthersStep
<1>6. CASE UNCHANGED vars
  BY <1>6, StutterStep
<1> QED
  BY <1>1, <1>2, <1>3, <1>4, <1>5, <1>6 DEF Next

-----------------------------------------------------------------------------
(* The theorems.                                                            *)

LEMMA PickerHolds == ASSUME Setup PROVE Spec => []PickerInv
<1>1. Init => PickerInv
  BY PickerInit
<1>2. PickerInv /\ [Next]_vars => PickerInv'
  BY PickerNext DEF Keeps
<1> QED
  BY <1>1, <1>2, PTL DEF Spec

\* For any recipes, attempts and bounds: the recipes of the server have ids there can be,
\* although ids are given out again, and the screen, its query and its calls are of their
\* types.
THEOREM PickerTyped == ASSUME Setup PROVE Spec => []TypeOK
<1>1. PickerInv => TypeOK
  <2> SUFFICES ASSUME PickerInv PROVE TypeOK
    OBVIOUS
  <2>1. IsBook(db) /\ used \subseteq Titles
    BY BookIs DEF PickerInv, BookFits, IsBook
  <2>2. \A s \in {q.data, q.snap} : s = NoData \/ IsBook(s)
    BY QueryIs, BookIs DEF PickerInv, QueryFits, IsBook
  <2> QED
    BY <2>1, <2>2 DEF TypeOK, PickerInv, ScreenTyped, CallsTyped
<1> QED
  BY <1>1, PickerHolds, PTL

\* What the dialog names as deleted is not there under any id.
GoneIsGone == \A g \in dialog.gone : g.title \notin Range(db)

\* Whatever is deleted and added, and however late the list came that the rows were
\* compared with: what the dialog names as deleted is not there.
THEOREM GoneAreGone == ASSUME Setup PROVE Spec => []GoneIsGone
<1>1. PickerInv => GoneIsGone
  BY DEF PickerInv, GoneFits, GoneIsGone
<1> QED
  BY <1>1, PickerHolds, PTL

LEMMA NamesHold == ASSUME Setup, NEW Name PROVE Spec /\ []Agrees(db, Name) => []NamesFit(Name)
<1>1. Init /\ Agrees(db, Name) => PickerInv /\ NamesFit(Name)
  BY PickerInit
<1>2. PickerInv /\ NamesFit(Name) /\ Agrees(db, Name) /\ [Next]_vars => PickerInv' /\ NamesFit(Name)'
  BY PickerNext DEF Keeps
<1> QED
  BY <1>1, <1>2, PTL DEF Spec

\* As long as every id stands for one recipe (Name says for which): what the dialog names
\* as deleted was deleted, and is not among the rows of the next attempt.
THEOREM GoneTrue == ASSUME Setup, NEW Name PROVE Spec /\ []Agrees(db, Name) => []GoneIsTrue
<1>1. PickerInv /\ NamesFit(Name) => GoneIsTrue
  BY DEF PickerInv, GoneFits, NamesFit, GoneIsTrue, Rows, RowsOf
<1> QED
  BY <1>1, PickerHolds, NamesHold, PTL

\* As long as every id stands for one recipe: a list is made of exactly the recipes whose
\* rows were shown at the click, whatever was deleted, added and fetched meanwhile.
THEOREM ListsTrue == ASSUME Setup, NEW Name PROVE Spec /\ []Agrees(db, Name) => []ListsAreWhatWasSeen
<1>1. NamesFit(Name) => ListsAreWhatWasSeen
  BY DEF NamesFit
<1> QED
  BY <1>1, NamesHold, PTL

\* In a household that deletes and does not add, every id stands for its first recipe.
LEMMA IdsStay ==
  ASSUME "add" \notin Others, Agrees(db, First), [Next]_vars
  PROVE  Agrees(db, First)'
<1>1. CASE OthersAct
  BY <1>1 DEF OthersAct, Agrees
<1>2. CASE ~OthersAct
  <2>1. UNCHANGED db
    BY <1>2 DEF Next, Member, Network, Query, UseControl, ToggleSelectMode, OpenDialog, Leave, Visit,
       ToggleSelected, SetAmount, CloseDialog, DropAll, Create, Retry, Serve, Lose, Answer,
       ReadRecipes, RecipesArrive, RecipesLost, Reconnect, vars
  <2> QED
    BY <2>1 DEF Agrees
<1> QED
  BY <1>1, <1>2

\* So both hold, without a word about ids, in a household that only deletes.
THEOREM DeletionsAreSafe ==
  ASSUME Setup, "add" \notin Others PROVE Spec => [](GoneIsTrue /\ ListsAreWhatWasSeen)
<1> DEFINE Safe == PickerInv /\ Agrees(db, First) /\ NamesFit(First)
<1>1. Init => Safe
  BY PickerInit DEF Init, Agrees
<1>2. Safe /\ [Next]_vars => Safe'
  BY PickerNext, IdsStay DEF Keeps
<1>3. Safe => GoneIsTrue /\ ListsAreWhatWasSeen
  BY DEF PickerInv, GoneFits, NamesFit, GoneIsTrue, Rows, RowsOf
<1> QED
  BY <1>1, <1>2, <1>3, PTL DEF Spec
=============================================================================

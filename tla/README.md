# A TLA+ model of stockpot

stockpot is a household kitchen server: a FastAPI application over one SQLite
file keeps recipes, an ingredient inventory, generated grocery lists and a
history of what was cooked. A handful of housemates use it at once from phones
over a flaky network; shell scripts start, supervise, back up, restore and
update it on a home machine.

This directory models the server core and the web client, checks them with TLC on
small instances, and proves part of what the runs check with TLAPS for every
instance.

## 1. The system and its parts

| Part | State it keeps | Operations | What is hard about it |
|---|---|---|---|
| Request transactions (`backend/app/database.py`, `main.py`) | the write lock of the database file, one open transaction per request | begin, commit, roll back, close | concurrent requests, busy timeouts, a commit that fails, a crash at any point, an answer that is lost |
| Household schema (`models.py`) | the tables, their keys, foreign keys and CHECK constraints | SQL statements | ids given out again, cascades, amounts that overflow |
| Inventory API (`routers/inventory.py`) | `inventory_items` | additive upsert, absolute correction, deletion | additions and corrections of one row racing, renaming onto a taken key |
| Grocery API (`routers/grocery.py`) | `grocery_lists`, `grocery_list_items` | generate, add, edit and delete lines, submit, archive, delete | double submits, a submit that fails half-way, edits of lines being bought |
| Recipes and cooking (`routers/recipes.py`) | `recipes`, `cook_logs` | create, replace, delete, cook | a cook writes absolute amounts, history must outlive its recipe |
| Inventory arithmetic (`services/inventory_math.py`, `units.py`, `normalize.py`) | none | aggregate, net, draw down, convert, normalize | buckets of units that do not convert, a normal form that is not idempotent |
| Ingredient parser (`services/ingredient_parse.py`) | none | one line of text to an ingredient | text |
| Accounts and sessions (`routers/auth.py`, `security.py`) | `users`, `sessions` | register, log in, log out, change password | a password change must end every other session, sessions must not survive a restore |
| Snapshots (`backup.py`, `backup_status.py`, `deploy/backup-run.sh`) | snapshot files, a status file | back up, retain, report | the reader's lock on the live file, names with a granularity of a second |
| Restore and recovery (`restore.py`, `recover.py`, `provision.py`) | database files | validate, preserve, swap | a failure or crash between two file operations |
| Deployment (`deploy/control.sh`, `supervise.sh`, `wsl-keeper.sh`, `lib.sh`) | pid files, supervisor state | start, stop, watch, restart | two invocations at once, stale pid files, a supervisor that undoes a stop |
| Update and rollback (`deploy/update.sh`, `rollback.sh`) | checkout, snapshot markers | update, roll back | failure after any step |
| Client sign-in (`frontend/src/api/client.ts`, `auth/AuthProvider.tsx`) | the token in localStorage, the member shown, the query cache | hydrate, sign in, sign out, react to a 401 | answers of an earlier session, lost requests |
| Grocery list screen (`pages/GroceryListDetail.tsx`) | the cached list, the line editor, the add form, dialogs | tick optimistically, edit, add, submit, archive | overlapping calls that cancel each other's refetches, rollback, a housemate on the same list |
| Inventory screen (`pages/Inventory.tsx`) | the cached stock, add, edit and delete forms | add, correct, delete | rounded drafts, stale rows, ids given out again, lost answers |
| Recipe list and grocery dialog (`pages/RecipeList.tsx`, `GroceryCreateDialog.tsx`) | search, facets, selection, dialog | select, set amounts, create a list, recover from deleted recipes | what is selected, shown and stored are three moments |
| Recipe form (`pages/RecipeForm.tsx`, `lib/parseIngredient*.ts`) | rows, tags, errors, the save | type, paste, move, remove, save | refusals that name rows by their index, texts that are half parsed |
| Recipe pages (`pages/RecipeDetail.tsx`, `RecipeForm.tsx`) | one cache entry, the open draft, the cook button | open, edit, delete, cook | background answers, saves that outlive their page, cooks that wait for the connection |
| History screen (`pages/History.tsx`) | pages by offset | load more, refetch | pages of different moments |

Requests do not talk to each other: they interact through the database file.
`get_current_user` runs the first statement of every protected request, which
makes SQLAlchemy emit `BEGIN IMMEDIATE` (`database.py:79-82`); `TransactionRoute`
commits after the response was built and before it leaves (`database.py:136-141`);
`get_db` rolls back on an exception and closes in every case. The online backup is
another process that holds a shared lock on the same file while it copies.

The screens of a client do not talk to each other either: they share the query
cache, which an answered write marks stale (`invalidateQueries`), overwrites
(`setQueryData`) or empties (`clear`), and the token in localStorage, which the tabs
of a browser share. Two clients meet in the server only.

### What makes each part correct

* transactions - no update is lost, a 2xx means committed and anything else means
  not, the write lock always comes free, every request is answered;
* inventory - one row per (match name, bucket), amounts storable, the stock is the
  sum of what the committed requests said;
* grocery - a line is bought once, a frozen line and an archived list never change,
  a generated list is exact on the stock it is committed with;
* cooking - a log tells the true amounts before and after, history is never
  rewritten or handed to another recipe;
* the client - nobody is shown or acts as anybody else; a screen at rest shows
  every write it was told of; a form sends what its member typed and nothing else,
  and an answer is taken for the row, the line and the page it is about;
* the whole - what clients see is a ledger of requests, each taking effect
  completely, at one moment, or not at all.

`PROJECT.json` lists under "hazards" where in the code each of these could go wrong.

## 2. The modules

| Module | Stands for |
|---|---|
| `KitchenDb` | the tables, one operator per SQL statement or pure calculation of a handler |
| `Kitchen` | the server: clients, transactions, handlers, commit, crash, backup; the properties |
| `KitchenLedger` | the abstract promise: requests that happen one by one and whole |
| `KitchenRefinement` | `Kitchen` implements `KitchenLedger` |
| `MCKitchen` (`MCKitchenThemes`, `MCKitchenLedger`, `MCKitchenText`) | the server's constants for TLC, and what its requests are about |
| `KitchenProofs` | facts about the tables and statements of `KitchenDb`; the proofs of type correctness, that answers are true and that no update is lost; that the constraints of the schema hold, that cook logs are honest and stay, and that grocery lists are bought once, closed for good and exact when generated |
| `KitchenLedgerProofs` | the proof that the server implements the ledger |
| `ClientSessionProofs` | the proofs about `ClientSession` |
| `InventoryScreenProofs` | the proofs about `InventoryScreen` |
| `GroceryScreenProofs` | the proofs about `GroceryScreen` |
| `CookScreenProofs` | the proofs about `CookScreen` |
| `RecipePagesProofs` | the proofs about `RecipePages` |
| `RecipePickerProofs` | the proofs about `RecipePicker` |
| `ClientSession` (`MCClientSession`) | token, sign-in and sign-out in the tabs of a browser |
| `QueryCache` | one entry of the query cache: operators, no state of its own |
| `GroceryScreen` | the screen of one grocery list |
| `InventoryScreen` | the inventory screen, its calls and forms |
| `StockEdit` | one edit of one stock row: draft, guards, PATCH, the server's rules |
| `RecipePicker` | the recipe list, the selection and the grocery dialog |
| `RecipeForm` | the recipe editor's rows and tags, its save and its refusals |
| `RecipePages` | detail page, editor and list around one cache entry of a recipe |
| `CookScreen` | multiplier, availability, history and cook of a recipe's screen |
| `HistoryFeed` | the paged history |
| `Availability` | `check_availability`, the table, the grocery list and the cook, over `KitchenDb` |
| `LineParser` | the parser of an ingredient line, on both sides |
| `MCGroceryScreen` | `GroceryScreen`, in three settings |
| `MCInventoryScreen` | `InventoryScreen`, in two settings, and `StockEdit` |
| `MCRecipePages` | `RecipePages`, `RecipeForm` and `HistoryFeed`, in two settings each, and `LineParser` |
| `MCRecipePicker` | `RecipePicker`, in two settings |
| `MCCookScreen` | `CookScreen`, in three settings, and `Availability` |
| `MCScreensLive` | the liveness of `GroceryScreen`, `RecipePicker`, `CookScreen` and `HistoryFeed` |

### State

`disk` is the committed database. `lock` is the owner of the write lock, `reading`
says that a backup holds its shared lock. Every request `r` has a program counter
`pc[r]` (`idle`, `waiting`, `open`, `looping`, `handled`, `committed`,
`answered`), its parameters `op[r]`, the uncommitted database `work[r]` of its
transaction, `todo[r]` for the rows its handler's loop has still to visit, and
`answer[r]`, the status its client saw. `claim[r]` is what the response will say
about stock amounts, and `bought[r]` the lines the transaction put into stock; with
the history variables `committed`, `book` and `paid` they are there only to state
properties: no guard reads them.

### Steps

A handler without a loop is one action: nothing outside its transaction can see
or change what it works on, because `BEGIN IMMEDIATE` has already taken the write
lock and readers see committed pages only. The handlers with a loop - the
flush of a generated list, submit, cook - take one step per row, so that failures,
crashes, backups and other requests fall between the rows. Refusals are disjuncts
of the handler in the order of its checks; each rolls the transaction back.
Commit, busy commit and response are steps of their own. `Crash` may
happen at any moment and hits every request in flight.

### The client's modules

Each of them holds one screen, or one browser for `ClientSession`, and a reduced
server: as much of the state behind it as the screen can tell apart - the version of
a stock, a list of lines, a set of edits - with the refusals of its routes
in their order, and the rest of the household as actions of its own. The server's
transactions are whole steps here; that they are is what `Kitchen` and its
refinement show.

* A call is a record in a sequence or set. Its phases are: asked, then answered by
  the server or lost, then settled by the client's callbacks. Calls are served and
  answered in any order. A lost call may or may not have taken effect.
* A query is an entry of `QueryCache`, *asked* until the server reads, *read* until the
  answer arrives. A housemate's write, or one of the member's own, may fall
  between the two, and a fetch may be joined, dropped or overwritten.
* A callback is one action: `onMutate`, `onSuccess`, `onError` and `onSettled` with every
  call they make. What a render derives (`Shown`, `Visible`, `Rows`, `Pending`,
  `HasMore`) is an operator; what an effect assigns after a render (`Rendered`,
  `Seeded`, `Kept`) is part of the action that causes the render.
* Leaving a screen (`Leave`) drops its forms and leaves its calls and its GET under way, as
  unmounting does; coming back (`Visit`) asks for what the screen shows, or joins a GET that
  is still under way. In between the member is `away`: nobody observes the entry, callbacks
  run all the same, and what they invalidate is only marked stale (`MarkStale`). After the
  return, buttons are free again although an earlier call may be under way (`here`).

`QueryCache` stands for TanStack Query, whose code is not in the repository. What it
takes from the library: `staleTime` 0, no refetch on focus, a refetch of what is
observed on reconnect (`app/queryClient.ts` and the defaults); queries are
retried only after a transport failure and writes never (`queryClient.ts`); fetches
and writes wait while the device is offline; the callbacks given to `useMutation` run
also after the page is gone, and a pending write gets the newest ones;
`setQueryData` neither cancels a fetch nor keeps an error; a refetch that fails
keeps the data and sets the status to error; an invalidation during the first
load joins that load; entries nobody observes are only marked stale, and a fetch
of theirs goes on.

Each of these MC modules extends the module it is named after, so that the runs check the very
definitions the theorems are about. Screens of one client are shown one at a time: where one
state space holds several instances, a variable `setting` (in `MCScreensLive`, `screen`) says
which one a behaviour is about, the others keep their initial values, and the property of
an instance becomes `setting = ... => Instance!Property`.

### Abstractions

* Amounts are integers; `MaxBase` stands for the largest float that is not
  infinite, and `Storable` for the CHECK constraint. Rounding is modelled only in
  `StockEdit`.
* An ingredient text is a model value with a normal form `Norm`; a unit has a
  bucket and a factor. `normalize_name` is not assumed idempotent: `MCKitchenText`
  instantiates it with the chain `"buses"`, `"bus"`, `"bu"` the specification gives.
* A recipe is what `aggregate` makes of its ingredients: the need of every
  (name, bucket) group and the names it lists to taste. `Author` gives the text the
  recipes use for a name, and selected recipes agree on it.
* A grocery list is generated for one or two recipes, each with its multiplier.
* A request gets one try: a client's retry is another request.
* One cook log per request: the id of a log is the request that wrote it.
* Retries of a query are not counted: a fetch that fails has failed for good.
* A member who is away comes back before the library drops the entry (five minutes).
* In `StockEdit` and `LineParser` a word is a stem and an ending, because the two
  sides differ in their rules for endings; a shown quantity is a multiple of `Grain`,
  which stands for six significant digits.
* In `RecipeForm` a row has a quantity and an item; in `RecipePages` a recipe's text is
  the set of edits it contains; in `HistoryFeed` a log is its number.
* Timestamps, attribution, display text and units, list names, titles and
  paging (but for `HistoryFeed`) are left out, as are 500s (but for the one in
  `StockEdit`).

## 3. The runs

| Run | Instance | Shows |
|---|---|---|
| `server` (`MCKitchenThemes.cfg`) | 3 requests, out of 14 on stock and cooking with stock in two buckets, out of 12 on lists with two ticked lines of one key, a bought and an open one, or out of 13 on recipes, cooks and generated lists | `TypeOK`, `NoLostUpdate`, `AnswersAreTrue`, `Constraints`, `HonestCookLog`, `PaidOnce`, `ClosedStaysClosed`, `ListCoversNeed`, `HistoryStays` |
| `ledger` (`MCKitchenLedger.cfg`) | 2 requests out of 21, of every kind and with refusals, both seeds, fair server threads | `ImplementsLedger`, `EveryRequestAnswered`, `LockComesFree` |
| `session` | one tab, 2 members, 3 tokens, 2 requests under way, fair answers | `SignOutIsComplete`, `ActsAsShown`, `SignOutHasCause`, `WaitsEnd` |
| `groceries` (`MCGroceryScreen`) | a list of two lines: 2 ticks or submits and a housemate; 2 edits or ticks; an edit while a housemate archives, edits or ticks; left and opened again at any time | `TypeOK`, `RestIsTrue` |
| `inventory` (`MCInventoryScreen`) | 2 calls out of add, delete and an earlier cook; the editor with 2 changes of a housemate; left and opened again at any time; one stock row in any of 13 units | `StockTypeOK`, `RestShowsTold`, `AppliedOnce`, `ErrorIsOwn`, `OnlyTypedSent`, `StoresWhatWasTyped` |
| `recipes` (`MCRecipePages`) | a recipe's pages with 2 calls and 4 visits, or with a housemate and a failure; the form of a new recipe and of a stored one, 4 edits and 2 saves each; every line of up to 4 of 15 tokens; a history of 5 logs in pages of 2 scrolled through 2 cooks and 2 failures, or left and opened again | `RecipesTypeOK`, `SavedIsShown`, `DraftIsTheMembers`, `StoresTheForm`, `ErrorIsOfItsRow`, `LineIsKept`, `HistoryIsWhole` |
| `picker` (`MCRecipePicker`) | the list with search and amounts, or with 2 attempts, while recipes are deleted | `ListsAreWhatWasSeen`, `GoneIsTrue` |
| `cooking` (`MCCookScreen`) | 2 cooks, 2 visits, or a housemate who cooks; every recipe of up to 2 lines on every stock | `RestKnowsCooks`, `TableIsTrue`, `CookKeepsPromise` |
| `screens_live` | a cook with 2 visits, a failure and a gap in the connection; 2 ticks, additions or archives of a grocery list that is left and opened again; an attempt to make a list while recipes come and go; a history of 3 logs with a failure and a gap; fair answers | `CooksEnd`, `WritesComeToBeSeen`, `AttemptsSettle`, `AwaitedPageComes` |
| `twice` (`MCKitchenTwice.cfg`) | the texts on which `normalize_name` is not idempotent | `BoughtUnderItsName` is violated |
| `blank` (`MCKitchenBlank.cfg`) | the same, with a text of which nothing is left | `NoBlankName` is violated |
| `pages_reopen` (`MCPagesReopen.cfg`) | one save, 3 visits | `ReopensOnSaved` is violated |

Bounds. Three requests are the fewest with which one is answered, one is in its
transaction and one waits, and every race of the hazards list needs two. The sum
of the amounts in an instance passes `MaxBase` (6), so that both the upsert
and the correction are refused in some behaviours; one of the two corrections to
eggs is refused and one is not. One ingredient in two buckets has compatible and
incompatible stock; two units of one bucket have a conversion that is not the
identity. Requests are interchangeable, so the safety runs use their
permutations as symmetry; `ledger`, which checks liveness too, does not. `CHECK_DEADLOCK` is off
because a system in which every client has its answer has nothing left to do.

Bounds of the client's runs. Two calls are the fewest that can overlap and be
answered in either order, and one change by a housemate is enough to make a screen
stale between any two of its steps; the inventory's editor has two, because an id is
given out again only after a deletion and an addition. Two multipliers are the
fewest with which one entry is not observed; pages of two logs have a middle and
a seam, and five logs have three pages. A line of four tokens has a marker, a
quantity, a unit and an item. One tab in `session`: a second one may sign
in as somebody else, which `ActsAsShown` does not forbid the code - the first
tab goes on showing its own member until it is loaded anew. Six properties leave out what
the code does not promise, and say so: `SavedIsShown` what a fetch under
way may undo, `RestShowsTold` and `RestKnowsCooks` what a first load may miss,
`RestIsTrue` a failed tick, `LineIsKept` words in -zes. `RestIsTrue`,
`RestShowsTold` and `WritesComeToBeSeen` leave out besides what is `Missed`: a write told
while the member is away, with a GET under way that was read before it. The
exception is as narrow as the code allows: with `Missed` false, TLC finds both
invariants violated. The lines of the list in `groceries` are interchangeable, so it uses
their permutations as symmetry. `CHECK_DEADLOCK` is off where every bound can be used up.

Fairness in the server is weak fairness of `Serve(r)`, what the server does for a request: a
thread that may take a step takes it, and a waiting one is woken by the free lock
or by its busy timeout (`PRAGMA busy_timeout=5000`). Sending, crashing and
backing up are free. Nothing stronger is needed: the timeout is what
answers a request that always finds the lock taken.

Fairness in the client is that of its surroundings: a request that was sent is
answered or fails, and its callbacks run - `fetch` settles every promise and the
event loop runs the reactions. `HistoryFeed` and `CookScreen` assume
besides that the device comes back online, because a paused fetch waits for that
and nothing else. The member owes nothing: no click is fair. `WaitsEnd` sets aside a
page that is loaded again for ever, `AwaitedPageComes` a member who leaves.

### What the violations show

* `twice` - `submit_grocery_list` normalizes the text of a line and hands the
  result to `add_to_inventory_calc`, which normalizes it again
  (`routers/grocery.py:321-323`, `services/inventory_math.py:149-153`). The
  specification says that callers normalize once, and names the word on which twice
  is wrong (`.scratch/backend-v1/spec.md:281-284`). What was bought is stored under
  a name the recipe does not ask for, and the next list asks for it again.
* `blank` - both inventory endpoints refuse a match name of which nothing is left
  (`models.py:161-163`), the submit path does not look: a manual line `!!!` that is
  ticked and submitted becomes a stock row with the empty name.
* `pages_reopen` - `RecipeForm.tsx:816-822` writes the saved recipe into the cache so that
  the editor, opened again, starts from it. `setQueryData` does not cancel the GET that
  is under way: its older answer replaces the saved recipe, and the next editor is
  seeded from that. A save then brings removed rows back.

### Known divergences

Met while translating; the modules do what the code does, and no run is spent on
them.

* Sign-in. The catch of the hydration (`auth/AuthProvider.tsx:44`) takes a lost
  request for a 401 and throws away a token the server still honours;
  `docs/frontend/spec.md:200-201` speaks of a 401 only.
* Grocery list. A failed tick restores the whole list it remembered, and with it
  the state of another line before its own tick (`GroceryListDetail.tsx:247`,
  against the comment at 225-228). A tick refused with 409 does not refetch (245;
  spec 533-534). The answer to one line's save closes the editor of another (300). The
  patch is worked out against the line as it is at the click, so that a
  housemate's change under an open editor is undone (363). The server has one
  text for two refusals (`routers/grocery.py:75`), and the screen reports an
  archived list as a bought line (320). An answer that comes while the member is at
  another screen (262, 299, 383, 407) only marks the list stale: a GET that was read before the
  write goes on, because the query leaves its abort signal unused (218-223), the screen
  opened again joins it, and rests on the older list.
* Inventory. The client's unit rules are a part of the server's, so it blocks edits
  the server would take (`Inventory.tsx:267-289`). A unit of "." passes the server's bucket guard
  and crashes its conversion (`routers/inventory.py:172`). The dialog names a row and
  deletes an id, which may be another row's by then (706). An invalidation joins a
  first load that was read before the write, so that the stock of before a cook stays
  (`RecipeDetail.tsx:304`; spec 926-927). So does one while nobody observes the stock: the
  GET of before an add, edit, deletion or cook goes on (`Inventory.tsx:326-329`, 347, 366,
  381), and the next visit joins it.
* Recipe list. When every selected recipe is gone, the dialog closes before it can
  say so (`GroceryCreateDialog.tsx:85`, `RecipeList.tsx:264-266`). A selected id passes to a
  recipe nobody selected (260).
* History. Only the current page is refetched, so a log may be in two pages and the
  feed out of order (`History.tsx:32-43`; spec 881). The button stays free while a
  fetch is paused, and passes a page by (49). The total is that of the current
  query, and 0 when it has none (45).
* Recipe form and pages. A quantity that is no number is stored as none
  (`RecipeForm.tsx:240`). A refused quantity has no place on the screen and
  keeps the toast away (638). A background refetch that fails takes the editor
  and its draft away (892).
* Cook. A cook that waits for the connection is sent with the settings of later
  (`RecipeDetail.tsx:308`).
* Parser. The preview lacks the server's plural in -zes (`parseIngredientLine.ts:96`).
  `LineParser` has one `Parse` for both sides, with the table of endings as its
  parameter, so `LineIsKept` compares the endings and not the steps.

## 4. The proofs

`KitchenProofs` proves `TypeCorrect == Spec => []TypeOK` for all constants that
satisfy the assumptions of `KitchenDb` and `Kitchen` (the texts have normal forms,
the units buckets and factors, requests are of the listed kinds, the
seeds are databases the schema accepts).

`TypeOK` is not inductive: a submit loop looks up the next line of `todo`, and a
cook loop looks up the row it proposed to draw from, so neither keeps the type of
`work` unless those rows are there. `LoopsInBounds` says that they are, and that a
cook proposes no amount the CHECK constraint would refuse; `Inv` is the
conjunction. The module starts with what this needs of the database: a new id is a
fresh positive id (`NextIdIsFresh`, from the existence of extrema of finite
sets), statements keep tables tables, generated lines are lines and proposed draws
are draws. Then there is one lemma per action, three of them
(`RefuseKeepsInv`, `HandledKeepsInv`, `LoopingKeepsInv`) for the three ways a
step of a handler can end.

The second part of `KitchenProofs` proves `AnswersTold == Spec => []AnswersAreTrue` and
`NothingLost == Spec => []NoLostUpdate`, from the same assumptions. Both rest on
`Exclusive`: only the owner of the write lock is inside a transaction. `HandlerShape`
says once what every step of every handler leaves alone - the disk, the history and
all other requests - and that it either refuses, giving the lock up, or goes on
holding it. `Told` follows each request from its commit to the client's answer.

`NoLostUpdate` is not inductive either: a commit preserves it only when the
transaction's stock is the book charged with the transaction's own claims. `Balanced`
says so of every open transaction: it starts as the committed stock with nothing
claimed, and at every turn of a loop the stock equals `Charge(book, claim)`, has one
row for each key, and a cook still finds the amounts its log calls `before`. Each
handler then has a lemma about amounts only: an upsert credits one account
(`UpsertBooks`), a draw credits the difference to the row (`SetBooks`), a loop that
claims once more adds once more (`ChargeMore`), a correction and a deletion replace
and close an account (`ChargeTo`, `ChargeGone`). One row for each key is needed, not
decoration: without it an upsert could credit an account other than the one it
claims. It is kept because a patch that finds a clash is refused (`PatchKeepsKeys`).

The third part proves `ConstraintsHold == Spec => []Constraints`: one stock row
for each key, which is a part of `Balanced`, and the foreign keys. For those, every
open transaction has its links in order, and the generated lines a flush has still
to insert name the list it inserted first (`Linked`). A list goes with its lines
(`DropListKeepsLinks`) and a recipe leaves its logs detached
(`DropRecipeKeepsLinks`); that the list or the recipe a handler looked up is still
there when its row is committed is, once more, `Exclusive`.

It goes on with `HistoryKept` (`HistoryStays`) and `LogsToldTrue`
(`HonestCookLog`). `LogInv` says that an open transaction has the logs of the disk and
at most its own besides, that a request has a log only if it committed or is about to, and that
the amounts an open cook has drawn are those its log says, read from the stock on
disk. A request whose log is there before the first step counts as answered long
ago: `Init` of `Kitchen` and of `KitchenLedger` say so, because otherwise a request could write
a log under an id that is taken, which the primary key makes impossible.

The last part is about grocery lists. `BoughtOnce` (`PaidOnce`) and `ClosedKept`
(`ClosedStaysClosed`) rest on `LineInv`: in an open transaction the frozen lines are
those frozen on disk and those it bought, no closed line or list was touched, and what a
submit has still to visit are lines as they are on disk, of a list that is active
there. `GeneratedCovers` (`ListCoversNeed`) rests on `ListInv`: what a flush has
inserted and what it has still to insert are together what `generate_lines` made of the
stock on disk, which nobody can have changed since.

`KitchenLedgerProofs` proves the refinement, `Refines == Spec => ImplementsLedger`. Its invariant is
`GrantInv` (`HandledIsGranted`): of a request that was handled, what its transaction holds is
the effect `KitchenLedger` states on the committed database, and none of the ledger's reasons to
refuse it applies. A handler without a loop gets there in one step. Inside a loop the invariant
says which part is done: `Submitted`, that the stock is the disk's plus the sum of the lines
bought so far, each under its key; `Cooked`, that the keys drawn so far have the amount the
log says and the others the disk's; `Listed`, that one list was added and, with `ListInv`, which
lines of it. Other requests leave it alone because of `Exclusive`. What is left is to
map the steps: sending is asking, a commit is where a request takes effect, a refusal, a busy
timeout and a busy commit are refusals with their reason (`RefusalsHaveReasons`), a crash loses
what was not committed, and nothing else is seen. `KitchenLedger` adds up a submit by a function
over the ids of the lines, whose values `TotalsExist` to `SumOfMore` establish by the least
counterexample; a generated list is as long as its short keys and loose names together
(`GeneratedSize`). The proof needs one assumption more than the others: no client asks for nothing
(`NoOp` is not in `Ops`).

`ClientSessionProofs` proves `SignOutComplete` (`SignOutIsComplete`) and `SignOutCaused`
(`SignOutHasCause`) for any number of tabs. The invariant `SessionInv` says what a tab
has under way by what it shows: a tab that verifies its token waits for that answer
alone, and only a signed-in one awaits household data; and a stored token belongs to some tab
that is not signed out. `OneNameShown` (`ActsAsShown`) has the hypothesis that there is one tab,
because the code promises no more: the tabs share the stored token, and one goes on
showing its member after another has signed in as somebody else.

`InventoryScreenProofs` proves `AppliesOnce`, `RestIsTold`, `ErrorStaysOwn` and `TypedAlone`
(`AppliedOnce`, `RestShowsTold`, `ErrorIsOwn`, `OnlyTypedSent`) and, as `ScreenTyped`, the type
invariant, for any stock, names, amounts and bounds. All follow from one
invariant, `ScreenInv`. Its heart is `ListFits`: what the member was told is on the
server, in the answer under way once that is read, and in the list as soon as an open screen
has nothing under way. Of the list while the member is away it says nothing - an
answer then only marks it stale - because a visit asks before anything is shown at
rest; what is `Missed` is not owed. `StockFits` counts: the version of the stock is the number of applied calls
plus the changes by others, which is what bounds ids and amounts. The proof asks for three
assumptions on the constants: there is a name, `NoData` is no stock, and a model in which
the screen is left to cook allows a call - without the last one the type is not
kept.

`RecipePagesProofs` proves `SavedStaysShown` (`SavedIsShown`) and `DraftStaysOwn`
(`DraftIsTheMembers`) for any number of saves, visits, losses and edits by others.
`SavedIsShown` speaks of what is held; its invariant, `PagesInv`, adds what is about to be
held: the answer under way, once read, is not older than the save that was told either
(`Newer`), because a save is told only with a version the server has reached. That the
version stays within the model's bound takes counting: it is one, plus the calls that
were applied, plus the changes by others (`VersionFits`). The proof assumes that `NoData`
is no stored recipe. `raced` is a hypothesis the code needs: a fetch that was under way
when the save was answered may overwrite it (`MCPagesReopen`).

`GroceryScreenProofs` proves `RestTrue` (`RestIsTrue`) and `ScreenTyped` (`TypeOK`) for any
lines and any number of ticks, edits, additions, submits, losses and changes by others.
`RestIsTrue` speaks of a screen at rest and says nothing of how it got there, which is
where a list can go stale: a tick cancels the fetch that would have brought another call's
write, and a failed tick puts back a list of before. `QueryFits`, the heart of the
invariant `ScreenInv`, says for every moment what is owed to the member and where it is: an
answer once read has it; the list has it too unless a fetch is under way, a tick is
pending - which will ask for the list when it is answered - or a failed tick wrote last.
`Ticking` counts the ticks of earlier visits too, whose callbacks still run. While the
member is away the list may be behind; `Visit` asks for it, and a write told then with an older
answer already read is `Missed` and not owed.
That an answer that is read is `Clean`, so of the server and without optimistic changes, is
what makes equal versions mean equal lists. `CallsFit` says that a version is told only
with a success, and that a pending tick remembers a list to put back. The hypotheses are that
`NoData` is no list and that the number of changes by others is bounded by a natural number.

`CookScreenProofs` proves `TellsOfCooks` (`RestKnowsCooks`) and `PanelTyped` (`TypeOK`) for
any multipliers and any number of cooks, visits, losses, interruptions and cooks by others,
from the assumption of `CookScreen` alone. Every entry of the cache is followed by itself:
what was told of it is a state there has been, an answer once read has it, and an
entry that rests without an error has it (`Holds`). Counting is what
bounds the states: the logs are the cooks that were served and those of others
(`CountFits`), so that one more is still in range when a cook is served.

`RecipePickerProofs` proves `PickerTyped` (`TypeOK`) and `GoneAreGone` for any recipes,
attempts, losses and changes by others: what the dialog names as deleted is not in the
household's book under any id. That the rest of `GoneIsTrue`, and `ListsAreWhatWasSeen`,
needs one condition more is what the proof attempt showed of the code: a deleted recipe's
id is given out again, and a selected id then stands for a recipe nobody selected
(`RecipeList.tsx:260`). So `GoneTrue` and `ListsTrue` have the hypothesis that every id
stands for one recipe throughout the behaviour (`Agrees`), and `DeletionsAreSafe` shows
that a household which only deletes meets it, so that both hold there unconditionally. The
invariant is `PickerInv`. Its heart is `QueryFits`: a list that is held or under way was
true once, so that each of its recipes is still there under its id or is gone for good
(`Faded`), and what the answer under way lacks of the list shown is gone, because a title
is never given twice; `RowsFit` says that a call which is being compared has its rows in
the list shown, so that they have names. What names the rows of a call have is `NamesFit`.
The hypotheses on the constants (`Setup`) are that there are finitely many recipes, that
the first ones are listed once each, and that `NoData` is no list of recipes.

Only model-checked, with the reason:

* liveness under fairness (`AttemptsSettle` and its like), which is out of the prover's reach;
* `ErrorIsOfItsRow` and `StoresTheForm` of `RecipeForm`: which row a refusal names is
  the n-th of the rows `SelectSeq` keeps, and what `SelectSeq` keeps of a sequence of
  any length takes induction over data, which the installed provers cannot do;
* `HistoryIsWhole` of `HistoryFeed`: the feed is a flattening of pages and a sorting of
  logs, for which the same holds;
* `LineIsKept`, `StoresWhatWasTyped`, `TableIsTrue` and `CookKeepsPromise` over
  `LineParser`, `StockEdit` and `Availability`: these are pure functions over texts and
  sequences, compared with a reference on all small inputs;
* the types of the form, the history and the stock row, which are parts of `RecipesTypeOK` and
  `StockTypeOK`; of the screens, the grocery list, the inventory, the cook panel and the recipe
  list have theirs proved, and the last two are therefore not checked again by a run.

## 5. What is not modelled, and the plan

Next, in this order; (p) marks the proofs.

1. **The client** (p) - `ErrorIsOfItsRow` of `RecipeForm`, once the rows a save keeps
   are described by a function and no longer by `SelectSeq`.
2. **Sessions** - registration, login, logout, password change and expiry as transactions
   of their own; composed with restore, which must end every session.
3. **Snapshots and Restore** - publish, retain, preserve, validate, swap as file
   operations with a crash or an error between any two and names of one-second
   granularity; at every moment the live path holds a whole database, and no good
   snapshot is lost to a failed one.
4. **Deployment** - control, supervisor, keeper, update and rollback as concurrent
   processes over pid files; one server per database file, a deliberate stop stays
   stopped, a failed update leaves a runnable version.
5. **Thread pool** - a bounded number of threads, each blocked in `BEGIN IMMEDIATE`
   until the lock or the timeout, while the lock's owner needs a thread for its next
   step: the timeout is the only way out.

Left out on purpose, in the client: the list of grocery lists (a read), toasts and focus
except where a property is about what a refusal shows, the theme, the layout
components and the component demo; text typed into the add form while its request is under
way; answers of which only the headers arrive.
Elsewhere: `backup_status.py`'s wording, installation and network checks (host configuration
without state of their own), the PowerShell wrappers, and the tests and their
helpers.

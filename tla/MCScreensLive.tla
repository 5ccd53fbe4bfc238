---------------------------- MODULE MCScreensLive ----------------------------
(* Liveness of the screens: cooks end, attempts to make a grocery list      *)
(* settle, a page of the history that was asked for comes, and a write to a *)
(* grocery list comes to be seen.  A behaviour is about one screen, and the *)
(* fairness is that of the screen it is about.                              *)
EXTENDS CookScreen, TLC

VARIABLES
  screen,   \* the screen the behaviour is about
  \* the variables of GroceryScreen
  list, listQuery, calls, editor, saving, addDraft, listDialogs, listAway, listOthers, owed, undone,
  \* the variables of RecipePicker
  book, titles, recipes, look, pick, dialog, posts, mine, away, made, pickFaults,
  \* the variables of HistoryFeed
  eaten, feed, offset, data, held, pages, shown, feedOnline, feedVisits, feedFaults, feedGaps

listVars == <<list, listQuery, calls, editor, saving, addDraft, listDialogs, listAway, listOthers, owed, undone>>
pickVars == <<book, titles, recipes, look, pick, dialog, posts, mine, away, made, pickFaults>>
feedVars == <<eaten, feed, offset, data, held, pages, shown, feedOnline, feedVisits,
              feedFaults, feedGaps>>

Grocery ==
  INSTANCE GroceryScreen
    WITH Lines <- {"l1"}, Offered <- {"tick", "add", "archive"}, Others <- {},
         MaxCalls <- 2, MaxOthers <- 0,
         server <- list, q <- listQuery, dialogs <- listDialogs, away <- listAway, others <- listOthers

Picker ==
  INSTANCE RecipePicker
    WITH Titles <- {"pie", "ramen"}, First <- <<"pie">>,
         Cuisine <- ("pie" :> "") @@ ("ramen" :> "asian"),
         Tags <- ("pie" :> {"sweet"}) @@ ("ramen" :> {"quick"}),
         Controls <- {"tag"}, Others <- {"add", "delete"}, MaxPosts <- 1,
         db <- book, used <- titles, q <- recipes, faults <- pickFaults

Feed ==
  INSTANCE HistoryFeed
    WITH PageSize <- 2, FirstLogs <- 3, MaxCooks <- 0, MaxVisits <- 1,
         logs <- eaten, cache <- feed, here <- shown, online <- feedOnline,
         visits <- feedVisits, faults <- feedFaults, gaps <- feedGaps

ScreensInit ==
  /\ screen \in {"cook", "grocery", "picker", "feed"}
  /\ Init /\ Grocery!Init /\ Picker!Init /\ Feed!Init

ScreensNext ==
  \/ screen = "cook" /\ Next /\ UNCHANGED <<screen, listVars, pickVars, feedVars>>
  \/ screen = "grocery" /\ Grocery!Next /\ UNCHANGED <<screen, vars, pickVars, feedVars>>
  \/ screen = "picker" /\ Picker!Next /\ UNCHANGED <<screen, vars, listVars, feedVars>>
  \/ screen = "feed" /\ Feed!Next /\ UNCHANGED <<screen, vars, listVars, pickVars>>

\* What LiveSpec or FairSpec asks for in the modules, of the screen that is open.
CookFairness ==
  /\ WF_vars(screen = "cook" /\ GoOnline)
  /\ \A k \in Entries : WF_vars(screen = "cook" /\ (Read(k) \/ Arrives(k) \/ Fails(k)))
  /\ \A c \in 1 .. MaxCooks :
       WF_vars(/\ screen = "cook" /\ c \in DOMAIN cooks
               /\ CookRecipe(c) \/ Conflict(c) \/ Lost(c) \/ CookAnswered(c))

GroceryFairness ==
  /\ WF_listVars(screen = "grocery" /\ Grocery!Network)
  /\ WF_listVars(screen = "grocery" /\ Grocery!Query)

PickerFairness ==
  /\ WF_pickVars(screen = "picker" /\ Picker!Query)
  /\ WF_pickVars(screen = "picker" /\ 1 \in DOMAIN posts /\ Picker!Network(1))

FeedFairness ==
  /\ WF_feedVars(screen = "feed" /\ Feed!GoOnline)
  /\ \A o \in Feed!Offsets :
       WF_feedVars(/\ screen = "feed"
                   /\ Feed!ListAllCookLogs(o) \/ Feed!PageArrives(o) \/ Feed!PageLost(o))

ScreensSpec ==
  /\ ScreensInit /\ [][ScreensNext]_<<screen, vars, listVars, pickVars, feedVars>>
  /\ CookFairness /\ GroceryFairness /\ PickerFairness /\ FeedFairness

-----------------------------------------------------------------------------
(* Properties; CooksEnd keeps its name.                                     *)

\* A write the grocery screen was told of comes to be seen, or the error panel is.
WritesComeToBeSeen == Grocery!WritesComeToBeSeen

\* Every attempt to make a grocery list is settled, the recheck of a refused one too.
AttemptsSettle == Picker!AttemptsSettle

\* A page of the history that was asked for is shown, or the failure is.
AwaitedPageComes == (screen = "feed") => Feed!AwaitedPageComes
=============================================================================

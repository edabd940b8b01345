----------------------------- MODULE UserSearch -----------------------------
(***************************************************************************)
(* NewConversationViewController: the search for somebody to write to.     *)
(* The first search fetches the user collection, later ones filter the     *)
(* copy.  The search bar is in the navigation bar, above the spinner, so a *)
(* search may be started while another one waits.                          *)
(*                                                                         *)
(* A query is the set of the users whose e-mail begins with it.            *)
(***************************************************************************)
EXTENDS Naturals, Sequences, ProgressHUD

CONSTANTS
    Users,
    Terms,      \* queries
    MaxSearches \* searches in a behaviour

ASSUME SearchConstants == Terms \subseteq SUBSET Users /\ MaxSearches \in Nat

VARIABLES
    registered, \* the user collection at the server
    hasFetched, users, results,
    hidden,     \* tableView.isHidden
    rows,       \* what the table has drawn: results at the last reloadData
    spinner,
    asked,      \* the queries of the fetches under way
    searches,   \* the number of searches
    chosen      \* whom the completion was called with: none or one

searchVars == <<registered, hasFetched, users, results, hidden, rows, spinner,
                asked, searches, chosen>>

SearchInit ==
    /\ registered \in SUBSET Users
    /\ hasFetched = FALSE
    /\ users = {} /\ results = {} /\ rows = {}
    /\ hidden = TRUE
    /\ spinner = Hidden
    /\ asked = <<>>
    /\ searches = 0
    /\ chosen = {}

\* filterUser, updateUI: without a match the table is hidden and not reloaded
FilterUser(term) ==
    /\ results' = users' \cap term
    /\ hidden' = (results' = {})
    /\ rows' = IF results' = {} THEN rows ELSE results'

\* Mutant: every search fetches the collection
SearchAlwaysFetches(term) ==
    /\ chosen = {}
    /\ searches < MaxSearches
    /\ searches' = searches + 1
    /\ spinner' = HudShow(spinner)
    /\ results' = {}
    /\ asked' = Append(asked, term)
    /\ UNCHANGED <<users, hidden, rows, registered, hasFetched, chosen>>

\* searchBarSearchButtonClicked, searchUser
SearchButtonClicked(term) ==
    /\ chosen = {}
    /\ searches < MaxSearches
    /\ searches' = searches + 1
    /\ \/ /\ hasFetched
          /\ spinner' = HudDismiss(HudShow(spinner))
          /\ UNCHANGED <<users, asked>>
          /\ FilterUser(term)
       \/ /\ ~hasFetched
          /\ spinner' = HudShow(spinner)
          /\ results' = {}
          /\ asked' = Append(asked, term)
          /\ UNCHANGED <<users, hidden, rows>>
    /\ UNCHANGED <<registered, hasFetched, chosen>>

\* Mutant: the spinner stays when there is no collection
UsersArriveOrNot ==
    /\ chosen = {}
    /\ asked # <<>>
    /\ asked' = Tail(asked)
    /\ IF registered = {}
       THEN UNCHANGED <<spinner, hasFetched, users, results, hidden, rows>>
       ELSE /\ hasFetched' = TRUE
            /\ users' = registered
            /\ spinner' = HudDismiss(spinner)
            /\ FilterUser(Head(asked))
    /\ UNCHANGED <<registered, searches, chosen>>

\* The answer of getAllUsers to the first of the fetches.  The cast fails
\* where nobody is registered.
UsersArriveAtSearch ==
    /\ chosen = {}
    /\ asked # <<>>
    /\ asked' = Tail(asked)
    /\ spinner' = HudDismiss(spinner)
    /\ IF registered = {}
       THEN UNCHANGED <<hasFetched, users, results, hidden, rows>>
       ELSE /\ hasFetched' = TRUE
            /\ users' = registered
            /\ FilterUser(Head(asked))
    /\ UNCHANGED <<registered, searches, chosen>>

SpinnerAnimated ==
    /\ spinner.state \in {"showing", "hiding"}
    /\ spinner' = HudAnimated(spinner)
    /\ UNCHANGED <<registered, hasFetched, users, results, hidden, rows, asked,
                   searches, chosen>>

\* Somebody signs in for the first time, on another device
Registers ==
    /\ \E u \in Users \ registered : registered' = registered \cup {u}
    /\ UNCHANGED <<hasFetched, users, results, hidden, rows, spinner, asked,
                   searches, chosen>>

\* didSelectRowAt: the screen is dismissed with the user of the row; the
\* spinner takes the touches while it is there
SelectRow(u) ==
    /\ chosen = {}
    /\ ~hidden /\ spinner.state = "hidden"
    /\ u \in rows
    /\ chosen' = {u}
    /\ UNCHANGED <<registered, hasFetched, users, results, hidden, rows, spinner,
                   asked, searches>>

SearchNext ==
    \/ \E term \in Terms : SearchButtonClicked(term)
    \/ UsersArriveAtSearch
    \/ SpinnerAnimated
    \/ Registers
    \/ \E u \in Users : SelectRow(u)

SearchSpec == SearchInit /\ [][SearchNext]_searchVars

SearchFairness ==
    WF_searchVars(UsersArriveAtSearch) /\ WF_searchVars(SpinnerAnimated)

----------------------------------------------------------------------------

SearchTypeOK ==
    /\ registered \subseteq Users /\ users \subseteq Users
    /\ results \subseteq Users /\ rows \subseteq Users
    /\ hasFetched \in BOOLEAN /\ hidden \in BOOLEAN
    /\ spinner \in HudStates
    /\ asked \in Seq(Terms)
    /\ searches \in 0..MaxSearches
    /\ chosen \subseteq Users

\* However searches, answers and registrations overlap, a table that can be
\* seen has drawn the rows of results: cellForRowAt and didSelectRowAt, which
\* index results, find the user that the row shows.
\* (searchBarSearchButtonClicked empties results without a reload.)
VisibleRowsExist == ~hidden => rows = results /\ rows # {}

\* Unless a row is chosen, the spinner goes: without a collection too, and
\* whatever searches and answers come during its animations.
SpinnerGoes == spinner.state # "hidden" ~> spinner.state = "hidden" \/ chosen # {}
=============================================================================

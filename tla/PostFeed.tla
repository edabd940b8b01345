------------------------------ MODULE PostFeed ------------------------------
(***************************************************************************)
(* MainViewController: the posts, fetched when the screen is loaded and at *)
(* every pull.  The completion handler of a fetch appends to models one    *)
(* post at a time on URLSession's queue, while the main thread empties     *)
(* models at the next pull and draws rows from it.                         *)
(*                                                                         *)
(* models and rows are touched by two threads without a lock: the steps    *)
(* are taken to be atomic, one append or one removeAll at a time.          *)
(***************************************************************************)
EXTENDS Naturals, Sequences

CONSTANTS
    MaxPosts,   \* posts at the server
    MaxFetches  \* fetches in a behaviour

ASSUME FeedConstants == MaxPosts \in Nat /\ MaxFetches \in Nat \ {0}

VARIABLES
    published,  \* the number of posts at the server: 1..published
    models,
    drawn,      \* the number of rows at the last reloadData
    refreshing, \* the refresh control
    fetches,    \* fetches without an answer, as a number
    fetched,    \* how often a fetch was started
    handler,    \* the posts that the running handler still appends
    running,    \* is there one?  The queue runs one handler at a time.
    reloads,    \* blocks queued on the main queue
    answer,     \* the posts of the last answer (history)
    empty,      \* the last answer was without data (history)
    overlapped  \* two fetches were under way at a time (history)

feedVars == <<published, models, drawn, refreshing, fetches, fetched, handler,
              running, reloads, answer, empty, overlapped>>

FeedInit ==
    /\ published \in 0..MaxPosts
    /\ models = <<>>
    /\ drawn = 0
    /\ refreshing = FALSE
    /\ fetches = 1 /\ fetched = 1   \* viewDidLoad
    /\ handler = <<>> /\ running = FALSE
    /\ reloads = 0
    /\ answer = <<>>
    /\ empty = FALSE /\ overlapped = FALSE

\* didPullToRefresh, append, fetchPostdata
DidPullToRefresh ==
    /\ ~refreshing
    /\ fetched < MaxFetches
    /\ fetched' = fetched + 1
    /\ refreshing' = TRUE
    /\ models' = <<>>
    /\ fetches' = fetches + 1
    /\ overlapped' = (overlapped \/ fetches > 0 \/ running)
    /\ UNCHANGED <<published, drawn, handler, running, reloads, answer, empty>>

\* An answer without data: the handler returns
AnswerIsEmpty ==
    /\ fetches > 0 /\ ~running
    /\ fetches' = fetches - 1
    /\ empty' = TRUE
    /\ UNCHANGED <<published, models, drawn, refreshing, fetched, handler,
                   running, reloads, answer, overlapped>>

\* Mutant: the handler returns where the data cannot be decoded
AnswerFailsSilently ==
    /\ fetches > 0 /\ ~running
    /\ fetches' = fetches - 1
    /\ answer' = <<>>
    /\ empty' = FALSE
    /\ UNCHANGED <<published, models, drawn, refreshing, fetched, handler,
                   running, reloads, overlapped>>

\* An answer that cannot be decoded: no posts, and the table is reloaded
AnswerFails ==
    /\ fetches > 0 /\ ~running
    /\ fetches' = fetches - 1
    /\ reloads' = reloads + 1
    /\ answer' = <<>>
    /\ empty' = FALSE
    /\ UNCHANGED <<published, models, drawn, refreshing, fetched, handler,
                   running, overlapped>>

\* An answer with posts: the handler begins
AnswerArrives ==
    /\ fetches > 0 /\ ~running
    /\ fetches' = fetches - 1
    /\ running' = TRUE
    /\ handler' = [i \in 1..published |-> i]
    /\ answer' = handler'
    /\ empty' = FALSE
    /\ UNCHANGED <<published, models, drawn, refreshing, fetched, reloads, overlapped>>

\* append's block appends one post
AppendPost ==
    /\ running /\ handler # <<>>
    /\ models' = Append(models, Head(handler))
    /\ handler' = Tail(handler)
    /\ UNCHANGED <<published, drawn, refreshing, fetches, fetched, running,
                   reloads, answer, empty, overlapped>>

\* The handler ends with a block for the main queue
HandlerEnds ==
    /\ running /\ handler = <<>>
    /\ running' = FALSE
    /\ reloads' = reloads + 1
    /\ UNCHANGED <<published, models, drawn, refreshing, fetches, fetched,
                   handler, answer, empty, overlapped>>

\* endRefreshing, reloadData
ReloadPosts ==
    /\ reloads > 0
    /\ reloads' = reloads - 1
    /\ refreshing' = FALSE
    /\ drawn' = Len(models)
    /\ UNCHANGED <<published, models, fetches, fetched, handler, running,
                   answer, empty, overlapped>>

\* Somebody posts
Publish ==
    /\ published < MaxPosts
    /\ published' = published + 1
    /\ UNCHANGED <<models, drawn, refreshing, fetches, fetched, handler, running,
                   reloads, answer, empty, overlapped>>

AnyAnswer == AnswerIsEmpty \/ AnswerFails \/ AnswerArrives

FeedNext == \/ DidPullToRefresh \/ AnyAnswer \/ AppendPost \/ HandlerEnds
            \/ ReloadPosts \/ Publish

FeedSpec == FeedInit /\ [][FeedNext]_feedVars

\* URLSession answers or times out; queues run their blocks
FeedFairness == /\ WF_feedVars(AnyAnswer) /\ WF_feedVars(AppendPost)
                /\ WF_feedVars(HandlerEnds) /\ WF_feedVars(ReloadPosts)

----------------------------------------------------------------------------

FeedTypeOK ==
    /\ published \in 0..MaxPosts
    /\ models \in Seq(1..MaxPosts)
    /\ drawn \in Nat
    /\ refreshing \in BOOLEAN /\ running \in BOOLEAN
    /\ fetches \in Nat
    /\ fetched \in 1..MaxFetches
    /\ handler \in Seq(1..MaxPosts)
    /\ reloads \in Nat
    /\ answer \in Seq(1..MaxPosts)
    /\ empty \in BOOLEAN /\ overlapped \in BOOLEAN

FeedQuiet == fetches = 0 /\ ~running /\ reloads = 0

\* Whatever fetches and pulls overlap: once all is answered, the rows of the
\* table are those of models, which cellForRowAt indexes; and unless two
\* fetches overlapped, models has the posts of the last answer, each once.
\* An answer without data is excepted: it leaves the emptied models under the
\* old rows (MainViewController.swift:76).
RowsAreTheFeed ==
    FeedQuiet /\ ~empty =>
        /\ drawn = Len(models)
        /\ ~overlapped => models = answer

\* The refresh control stops, unless an answer was without data.
RefreshEnds == refreshing ~> ~refreshing \/ empty
=============================================================================

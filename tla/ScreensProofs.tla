---------------------------- MODULE ScreensProofs ----------------------------
(***************************************************************************)
(* What the screens show is there, for any number of searches, fetches,    *)
(* texts, pictures and seconds.                                            *)
(***************************************************************************)
EXTENDS MCScreens, TLAPS

----------------------------------------------------------------------------
(* The user search                                                         *)

\* Only filterUser, which knows the users, unhides the table
SearchInv == VisibleRowsExist /\ (~hasFetched => hidden)

\* Filtering draws the rows it unhides
LEMMA FilterShows ==
    ASSUME NEW term, FilterUser(term)
    PROVE  VisibleRowsExist'
    BY DEF FilterUser, VisibleRowsExist

LEMMA SearchStep ==
    ASSUME SearchInv, [SearchNext]_searchVars
    PROVE  SearchInv'
<1> USE DEF SearchInv
<1>1. ASSUME results' = results, hidden' = hidden, rows' = rows,
             hasFetched' = hasFetched
      PROVE  SearchInv'
    BY <1>1 DEF VisibleRowsExist
<1>2. ASSUME NEW term \in Terms, SearchButtonClicked(term)
      PROVE  SearchInv'
    <2>1. CASE hasFetched
        BY <1>2, <2>1, FilterShows DEF SearchButtonClicked
    <2>2. CASE ~hasFetched
        <3>1. hidden' = hidden /\ hasFetched' = hasFetched
            BY <1>2, <2>2, Zenon DEF SearchButtonClicked
        <3>2. hidden
            BY <2>2
        <3> QED
            BY <2>2, <3>1, <3>2, Zenon DEF VisibleRowsExist
    <2> QED
        BY <2>1, <2>2
<1>3. CASE UsersArriveAtSearch
    <2>1. CASE registered = {}
        BY <1>1, <1>3, <2>1 DEF UsersArriveAtSearch
    <2>2. CASE registered # {}
        BY <1>3, <2>2, FilterShows DEF UsersArriveAtSearch
    <2> QED
        BY <2>1, <2>2
<1>4. CASE SpinnerAnimated \/ Registers \/ \E u \in Users : SelectRow(u)
    BY <1>1, <1>4 DEF SpinnerAnimated, Registers, SelectRow
<1>5. CASE UNCHANGED searchVars
    BY <1>1, <1>5 DEF searchVars
<1> QED
    BY <1>2, <1>3, <1>4, <1>5 DEF SearchNext

\* For any users, queries and registrations, the rows that can be seen and
\* tapped are those of results.
THEOREM RowsCanBeTapped == SearchSpec => []VisibleRowsExist
<1>1. SearchInit => SearchInv
    BY DEF SearchInit, SearchInv, VisibleRowsExist
<1>2. SearchInv => VisibleRowsExist
    BY DEF SearchInv
<1> QED
    BY <1>1, <1>2, SearchStep, PTL DEF SearchSpec

----------------------------------------------------------------------------
(* The input bar: pictures                                                 *)

\* An upload is of a picture that was picked, and its file has its date
Dated ==
    /\ second \in 1..MaxSeconds /\ pictures \in 0..MaxPictures
    /\ pickedAt \in [1..MaxPictures -> 0..MaxSeconds]
    /\ files \in [0..MaxSeconds -> 0..MaxPictures]
    /\ \A u \in uploads :
           /\ u.picture \in 1..pictures
           /\ u.file = pickedAt[u.picture]
           /\ u = [picture |-> u.picture, file |-> u.file, step |-> u.step]

\* What is stored in a file was picked in the file's second
FileOfSecond ==
    \A f \in 0..MaxSeconds :
        files[f] # 0 => files[f] \in 1..pictures /\ pickedAt[files[f]] = f

\* A URL that is asked for, or is in a message, leads to something
UrlLeads == \A u \in uploads : u.step = "url" => files[u.file] # 0
PhotoLeads ==
    \A p \in photos : /\ p.picture \in 1..pictures
                      /\ p.file = pickedAt[p.picture]
                      /\ files[p.file] # 0

PictureInv == Dated /\ FileOfSecond /\ UrlLeads /\ PhotoLeads

LEMMA PickKeeps ==
    ASSUME PictureInv, PickPicture
    PROVE  PictureInv'
<1>1. /\ second' = second /\ files' = files /\ photos' = photos
      /\ pictures < MaxPictures /\ pictures' = pictures + 1
      /\ pickedAt' = [pickedAt EXCEPT ![pictures'] = second]
    BY DEF PickPicture
<1>2. /\ pictures \in Nat /\ MaxPictures \in Nat /\ second \in 1..MaxSeconds
      /\ MaxSeconds \in Nat /\ pictures' \in 1..MaxPictures
    BY <1>1, ComposerConstants DEF PictureInv, Dated
<1>3. /\ pickedAt' \in [1..MaxPictures -> 0..MaxSeconds]
      /\ pickedAt'[pictures'] = second
      /\ \A p \in 1..pictures : p \in 1..pictures' /\ pickedAt'[p] = pickedAt[p]
    BY <1>1, <1>2 DEF PictureInv, Dated
<1>4. FileOfSecond' /\ PhotoLeads'
    BY <1>1, <1>3 DEF PictureInv, FileOfSecond, PhotoLeads
<1>5. \A u \in uploads' : u \in uploads \/
          u = [picture |-> pictures', file |-> second, step |-> "upload"]
    BY DEF PickPicture, FileName
<1>6. Dated'
    BY <1>1, <1>2, <1>3, <1>5 DEF PictureInv, Dated
<1>7. UrlLeads'
    BY <1>1, <1>5 DEF PictureInv, UrlLeads
<1> QED
    BY <1>4, <1>6, <1>7 DEF PictureInv

LEMMA UploadKeeps ==
    ASSUME PictureInv, NEW success \in BOOLEAN, NEW u \in uploads,
           UploadEnds(u, success)
    PROVE  PictureInv'
<1>1. /\ second' = second /\ pickedAt' = pickedAt /\ photos' = photos
      /\ pictures' = pictures /\ u.step = "upload"
    BY DEF UploadEnds
<1>2. CASE ~success
    <2>1. uploads' \subseteq uploads /\ files' = files
        BY <1>2 DEF UploadEnds
    <2> QED
        BY <1>1, <2>1 DEF PictureInv, Dated, FileOfSecond, UrlLeads, PhotoLeads
<1>3. CASE success
    <2> DEFINE new == [u EXCEPT !.step = "url"]
    <2>1. /\ uploads' = (uploads \ {u}) \cup {new}
          /\ files' = [files EXCEPT ![u.file] = u.picture]
        BY <1>3 DEF UploadEnds
    <2>2. u = [picture |-> u.picture, file |-> u.file, step |-> u.step]
        BY DEF PictureInv, Dated
    <2>3. new = [picture |-> u.picture, file |-> u.file, step |-> "url"]
        BY <2>2
    <2>4. /\ new.file = u.file /\ new.step = "url" /\ new.picture = u.picture
          /\ new = [picture |-> new.picture, file |-> new.file, step |-> new.step]
        BY <2>3
    <2> HIDE DEF new
    <2>5. /\ u.picture \in 1..pictures /\ u.picture \in 1..MaxPictures
          /\ u.file = pickedAt[u.picture] /\ u.file \in 0..MaxSeconds
        BY ComposerConstants DEF PictureInv, Dated
    <2>6. /\ files' \in [0..MaxSeconds -> 0..MaxPictures]
          /\ \A f \in 0..MaxSeconds :
                 files'[f] = IF f = u.file THEN u.picture ELSE files[f]
        BY <2>1, <2>5 DEF PictureInv, Dated
    <2>7. Dated'
        BY <1>1, <2>1, <2>4, <2>5, <2>6 DEF PictureInv, Dated
    <2>8. FileOfSecond'
        BY <1>1, <2>5, <2>6 DEF PictureInv, FileOfSecond
    <2>9. \A f \in 0..MaxSeconds : files[f] # 0 => files'[f] # 0
        BY <2>5, <2>6
    <2>10. \A v \in uploads : v.file \in 0..MaxSeconds
        BY ComposerConstants DEF PictureInv, Dated
    <2>11. UrlLeads'
        BY <2>1, <2>4, <2>5, <2>6, <2>9, <2>10 DEF PictureInv, UrlLeads
    <2>12. \A p \in photos : p.file \in 0..MaxSeconds
        BY ComposerConstants DEF PictureInv, Dated, PhotoLeads
    <2>13. PhotoLeads'
        BY <1>1, <2>9, <2>12 DEF PictureInv, PhotoLeads
    <2> QED
        BY <2>7, <2>8, <2>11, <2>13 DEF PictureInv
<1> QED
    BY <1>2, <1>3

LEMMA UrlKeeps ==
    ASSUME PictureInv, NEW success \in BOOLEAN, NEW u \in uploads,
           UrlArrives(u, success)
    PROVE  PictureInv'
<1>1. /\ second' = second /\ pickedAt' = pickedAt /\ pictures' = pictures
      /\ files' = files /\ u.step = "url" /\ uploads' = uploads \ {u}
    BY DEF UrlArrives
<1>2. Dated' /\ FileOfSecond' /\ UrlLeads'
    BY <1>1 DEF PictureInv, Dated, FileOfSecond, UrlLeads
<1>3. \A p \in photos' : p \in photos \/ p = [picture |-> u.picture, file |-> u.file]
    BY DEF UrlArrives
<1>4. /\ u.picture \in 1..pictures /\ u.file = pickedAt[u.picture]
      /\ files[u.file] # 0
    BY <1>1 DEF PictureInv, Dated, UrlLeads
<1>5. PhotoLeads'
    BY <1>1, <1>3, <1>4 DEF PictureInv, PhotoLeads
<1> QED
    BY <1>2, <1>5 DEF PictureInv

LEMMA PictureStep ==
    ASSUME PictureInv, [ComposerNext]_composerVars
    PROVE  PictureInv'
<1>1. CASE ClockTicks
    <2>1. /\ second' \in 1..MaxSeconds
          /\ pickedAt' = pickedAt /\ files' = files /\ uploads' = uploads
          /\ photos' = photos /\ pictures' = pictures
        BY <1>1, ComposerConstants DEF ClockTicks, PictureInv, Dated
    <2> QED
        BY <2>1 DEF PictureInv, Dated, FileOfSecond, UrlLeads, PhotoLeads
<1>2. CASE PressSend \/ SendEnds \/ Close \/ (\E success \in BOOLEAN : CreationEnds(success))
           \/ UNCHANGED composerVars
    <2>1. UNCHANGED <<second, pickedAt, files, uploads, photos, pictures>>
        BY <1>2 DEF PressSend, SendEnds, Close, CreationEnds, composerVars
    <2> QED
        BY <2>1 DEF PictureInv, Dated, FileOfSecond, UrlLeads, PhotoLeads
<1> QED
    BY <1>1, <1>2, PickKeeps, UploadKeeps, UrlKeeps DEF ComposerNext

\* For any number of pictures, uploads that overlap and failures, also of
\* pictures of one second: the link of a picture's message leads to a picture
\* of its second, and so to itself where no other was picked within it.
THEOREM PicturesLead == ComposerSpec => []PictureIsItsOwn
<1>1. ComposerInit => PictureInv
    BY ComposerConstants
    DEF ComposerInit, PictureInv, Dated, FileOfSecond, UrlLeads, PhotoLeads
<1>2. PictureInv => PictureIsItsOwn
    <2> SUFFICES ASSUME PictureInv, NEW p \in photos
                 PROVE  files[p.file] # 0 /\ pickedAt[files[p.file]] = pickedAt[p.picture]
        BY DEF PictureIsItsOwn
    <2>1. p.file \in 0..MaxSeconds /\ files[p.file] # 0 /\ p.file = pickedAt[p.picture]
        BY ComposerConstants DEF PictureInv, Dated, PhotoLeads
    <2> QED
        BY <2>1 DEF PictureInv, FileOfSecond
<1> QED
    BY <1>1, <1>2, PictureStep, PTL DEF ComposerSpec

----------------------------------------------------------------------------
(* The posts                                                               *)

FeedTypes ==
    /\ models \in Seq(Nat) /\ handler \in Seq(Nat) /\ answer \in Seq(Nat)
    /\ published \in Nat /\ fetches \in Nat /\ reloads \in Nat /\ drawn \in Nat

\* Rows differ from models only while something is on its way that reloads
\* them, or after an answer without data
RowsFollow ==
    \/ drawn = Len(models)
    \/ fetches > 0 \/ running \/ reloads > 0 \/ empty

\* A fetch that is alone begins with empty models, and its handler brings them
\* to its answer
OneFetch ==
    overlapped \/
    /\ fetches > 0 => fetches = 1 /\ ~running /\ models = <<>>
    /\ fetches = 0 /\ ~empty => models \o handler = answer

FeedInv == FeedTypes /\ RowsFollow /\ OneFetch /\ (~running => handler = <<>>)

LEMMA AppendMoves ==
    ASSUME NEW m \in Seq(Nat), NEW h \in Seq(Nat), h # <<>>
    PROVE  /\ Append(m, Head(h)) \in Seq(Nat) /\ Tail(h) \in Seq(Nat)
           /\ Append(m, Head(h)) \o Tail(h) = m \o h
<1>1. Head(h) \in Nat /\ Tail(h) \in Seq(Nat) /\ Len(h) > 0 /\ Head(h) = h[1]
    OBVIOUS
<1>2. Append(m, Head(h)) \in Seq(Nat)
    BY <1>1
<1>3. Append(m, Head(h)) \o Tail(h) = m \o h
    BY <1>1, <1>2
<1> QED
    BY <1>1, <1>2, <1>3

LEMMA FeedStep ==
    ASSUME FeedInv, [FeedNext]_feedVars
    PROVE  FeedInv'
<1> USE DEF FeedInv, FeedTypes, RowsFollow, OneFetch
<1>1. CASE DidPullToRefresh
    <2>1. /\ models' = <<>> /\ fetches' = fetches + 1
          /\ overlapped' = (overlapped \/ fetches > 0 \/ running)
          /\ UNCHANGED <<published, drawn, handler, running, reloads, answer, empty>>
        BY <1>1 DEF DidPullToRefresh
    <2>2. FeedTypes' /\ RowsFollow' /\ (~running' => handler' = <<>>)
        BY <2>1
    <2>3. ~overlapped' => ~(fetches > 0) /\ ~running'
        BY <2>1, Zenon
    <2>4. ~overlapped' => fetches' = 1 /\ ~running' /\ models' = <<>>
        BY <2>1, <2>3
    <2>5. OneFetch'
        BY <2>4
    <2> QED
        BY <2>2, <2>5
<1>2. CASE AnyAnswer
    <2>1. /\ fetches > 0 /\ ~running /\ fetches' = fetches - 1
          /\ UNCHANGED <<published, models, drawn, overlapped>>
        BY <1>2 DEF AnyAnswer, AnswerIsEmpty, AnswerFails, AnswerArrives
    <2>2. CASE AnswerIsEmpty
        BY <2>1, <2>2 DEF AnswerIsEmpty
    <2>3. CASE AnswerFails
        <3>1. /\ reloads' = reloads + 1 /\ answer' = <<>> /\ empty' = FALSE
              /\ UNCHANGED <<handler, running>>
            BY <2>3 DEF AnswerFails
        <3>2. FeedTypes' /\ (~running' => handler' = <<>>)
            BY <2>1, <3>1
        <3>5. RowsFollow'
            BY <3>1
        <3>3. ~overlapped => fetches' = 0 /\ models' \o handler' = answer'
            BY <2>1, <3>1
        <3>4. OneFetch'
            BY <2>1, <3>3
        <3> QED
            BY <3>2, <3>4, <3>5
    <2>4. CASE AnswerArrives
        <3>1. /\ running' = TRUE /\ answer' = handler' /\ empty' = FALSE
              /\ handler' = [i \in 1..published |-> i]
              /\ reloads' = reloads
            BY <2>4 DEF AnswerArrives
        <3>2. handler' \in Seq(Nat)
            BY <3>1
        <3>3. FeedTypes' /\ RowsFollow'
            BY <2>1, <3>1, <3>2
        <3>7. ~running' => handler' = <<>>
            BY <3>1, Zenon
        <3>4. ~overlapped => fetches' = 0 /\ models' = <<>>
            BY <2>1
        <3>5. <<>> \o handler' = answer'
            BY <3>1, <3>2
        <3>6. overlapped' = overlapped /\ (fetches' = 0 => ~(fetches' > 0))
            BY <2>1
        <3>8. OneFetch'
            BY <3>4, <3>5, <3>6
        <3> QED
            BY <3>3, <3>7, <3>8
    <2> QED
        BY <1>2, <2>2, <2>3, <2>4 DEF AnyAnswer
<1>3. CASE AppendPost
    <2>1. /\ running /\ handler # <<>>
          /\ models' = Append(models, Head(handler)) /\ handler' = Tail(handler)
          /\ UNCHANGED <<published, drawn, fetches, running, reloads, answer,
                         empty, overlapped>>
        BY <1>3 DEF AppendPost
    <2>2. /\ models' \in Seq(Nat) /\ handler' \in Seq(Nat)
          /\ models' \o handler' = models \o handler
        <3>1. models \in Seq(Nat) /\ handler \in Seq(Nat)
            OBVIOUS
        <3> QED
            BY <2>1, <3>1, AppendMoves
    <2>3. ~overlapped => fetches = 0
        BY <2>1
    <2> QED
        BY <2>1, <2>2, <2>3
<1>4. CASE HandlerEnds
    <2>1. /\ handler = <<>> /\ running' = FALSE /\ reloads' = reloads + 1
          /\ UNCHANGED <<published, models, drawn, fetches, handler, answer,
                         empty, overlapped>>
        BY <1>4 DEF HandlerEnds
    <2>2. FeedTypes' /\ handler' = <<>>
        BY <2>1
    <2>3. RowsFollow'
        BY <2>1
    <2>4. OneFetch'
        BY <2>1
    <2> QED
        BY <2>2, <2>3, <2>4
<1>5. CASE ReloadPosts
    BY <1>5 DEF ReloadPosts
<1>6. CASE Publish
    BY <1>6, FeedConstants DEF Publish
<1>7. CASE UNCHANGED feedVars
    BY <1>7 DEF feedVars
<1> QED
    BY <1>1, <1>2, <1>3, <1>4, <1>5, <1>6, <1>7 DEF FeedNext

\* For any number of posts, pulls and fetches: the rows of a feed at rest are
\* those of models, and the posts of the last answer unless fetches overlapped.
THEOREM RowsComeFromModels == FeedSpec => []RowsAreTheFeed
<1>1. FeedInit => FeedInv
    <2> SUFFICES ASSUME FeedInit
                 PROVE  FeedInv
        OBVIOUS
    <2>1. /\ models = <<>> /\ handler = <<>> /\ answer = <<>>
          /\ fetches = 1 /\ running = FALSE /\ reloads = 0 /\ drawn = 0
          /\ empty = FALSE /\ overlapped = FALSE /\ published \in Nat
        BY FeedConstants DEF FeedInit
    <2>2. FeedTypes
        BY <2>1 DEF FeedTypes
    <2>3. RowsFollow /\ OneFetch
        BY <2>1 DEF RowsFollow, OneFetch
    <2> QED
        BY <2>1, <2>2, <2>3 DEF FeedInv
<1>2. FeedInv => RowsAreTheFeed
    <2> SUFFICES ASSUME FeedInv, FeedQuiet, ~empty
                 PROVE  drawn = Len(models) /\ (~overlapped => models = answer)
        BY DEF RowsAreTheFeed
    <2>1. drawn = Len(models)
        BY DEF FeedInv, FeedTypes, RowsFollow, FeedQuiet
    <2>2. ~overlapped => models \o <<>> = answer
        BY DEF FeedInv, FeedTypes, OneFetch, FeedQuiet
    <2>3. models \o <<>> = models
        BY DEF FeedInv, FeedTypes
    <2> QED
        BY <2>1, <2>2, <2>3
<1> QED
    BY <1>1, <1>2, FeedStep, PTL DEF FeedSpec

----------------------------------------------------------------------------
(* The rows of the conversation list and of the chat: the main queue has   *)
(* the events in the order of the arrays, the last one is what the client  *)
(* has, and what was assigned is drawn, or will be.                        *)

Blocks == [kind : {"event"}, array : 1..Newest] \cup {Reload}

IsEvent(k) == k \in 1..Len(mainQueue) /\ mainQueue[k].kind = "event"

ArrayTypes ==
    /\ arrays \in Seq(Arrays) /\ Newest \in Nat \ {0}
    /\ cached \in 0..Newest /\ current \in 0..Newest
    /\ observers \in Nat
    /\ mainQueue \in Seq(Blocks)
    /\ shown \in Seq(1..Newest)

\* No event is older than what is assigned or than an event before it
InOrder ==
    /\ \A k \in 1..Len(mainQueue) :
           IsEvent(k) => /\ current <= mainQueue[k].array
                         /\ mainQueue[k].array <= cached
    /\ \A k, m \in 1..Len(mainQueue) :
           IsEvent(k) /\ IsEvent(m) /\ k < m =>
               mainQueue[k].array <= mainQueue[m].array
    /\ current <= cached

\* A row was drawn from an array that has it, which was assigned by then
RowsDrawn ==
    \A i \in 1..Len(shown) : /\ shown[i] <= current
                             /\ i \in 1..Len(ArrayAt(shown[i]))

\* What the client has is in the last of the events, or assigned if not empty
LastIsCached ==
    /\ \A k \in 1..Len(mainQueue) :
           IsEvent(k) /\ (\A m \in 1..Len(mainQueue) : m > k => ~IsEvent(m)) =>
               ArrayAt(mainQueue[k].array) = ArrayAt(cached)
    /\ (\A k \in 1..Len(mainQueue) : ~IsEvent(k)) =>
           Assigned = ArrayAt(cached) \/ ArrayAt(cached) = <<>>

\* What is assigned is drawn, or will be
ReloadComes == ReloadQueued \/ shown = [i \in 1..Len(Assigned) |-> current]

\* Nothing goes wrong at a time when all is drawn
TapsMatch == /\ \A o \in opened : o.early \/ o.row = o.opens
             /\ ended => ReloadQueued

ArrayInv == /\ ArrayTypes /\ InOrder /\ RowsDrawn
            /\ LastIsCached /\ ReloadComes /\ TapsMatch

\* What has a number keeps its value
LEMMA ArraysStay ==
    ASSUME UNCHANGED arrays, NEW k
    PROVE  ArrayAt(k)' = (IF k' = 0 THEN <<>> ELSE arrays[k'])
BY DEF ArrayAt

LEMMA ArrayAtType ==
    ASSUME ArrayTypes, NEW k \in 0..Newest
    PROVE  /\ ArrayAt(k) \in Seq(Elements)
           /\ DOMAIN ArrayAt(k) = 1..Len(ArrayAt(k))
           /\ Len(ArrayAt(k)) \in Nat
<1>1. ASSUME k # 0 PROVE ArrayAt(k) \in Seq(Elements)
  <2>1. arrays[k] \in Arrays
    BY <1>1 DEF ArrayTypes, Newest
  <2>2. PICK n \in 0..MaxElements : arrays[k] \in [1..n -> Elements]
    BY <2>1 DEF Arrays
  <2>3. arrays[k] \in Seq(Elements)
    BY <2>2, ArrayConstants
  <2> QED
    BY <1>1, <2>3 DEF ArrayAt
<1>2. ASSUME k = 0 PROVE ArrayAt(k) \in Seq(Elements)
  BY <1>2 DEF ArrayAt
<1>3. ArrayAt(k) \in Seq(Elements)
  BY <1>1, <1>2
<1> QED
  BY <1>3

\* Drawing all rows from what is assigned
LEMMA RowsType ==
    ASSUME ArrayTypes
    PROVE  /\ [i \in 1..Len(Assigned) |-> current] \in Seq(1..Newest)
           /\ Len([i \in 1..Len(Assigned) |-> current]) = Len(Assigned)
           /\ DOMAIN Assigned = 1..Len(Assigned)
<1>1. PICK n \in Nat : n = Len(Assigned)
  BY ArrayAtType DEF Assigned, ArrayTypes
<1>2. current = 0 => n = 0
  BY <1>1 DEF Assigned, ArrayAt
<1>3. \A i \in 1..n : current \in 1..Newest
  BY <1>2 DEF ArrayTypes
<1>4. [i \in 1..n |-> current] \in Seq(1..Newest) /\ Len([i \in 1..n |-> current]) = n
  BY <1>3
<1>5. DOMAIN Assigned = 1..Len(Assigned)
  BY ArrayAtType DEF Assigned, ArrayTypes
<1> QED
  BY <1>1, <1>4, <1>5

LEMMA TailOfQueue ==
    ASSUME ArrayTypes, mainQueue # <<>>
    PROVE  /\ Len(mainQueue) \in Nat \ {0}
           /\ Len(Tail(mainQueue)) = Len(mainQueue) - 1
           /\ \A k \in 1..Len(mainQueue) - 1 : Tail(mainQueue)[k] = mainQueue[k + 1]
           /\ Tail(mainQueue) \in Seq(Blocks)
           /\ Head(mainQueue) = mainQueue[1]
           /\ mainQueue[1] \in Blocks
BY DEF ArrayTypes

\* A step that adds to the queue, or leaves it, keeps a queued reload
LEMMA ReloadStays ==
    ASSUME ArrayTypes, ReloadQueued, NEW more \in Seq(Blocks'),
           mainQueue' = mainQueue \o more, UNCHANGED arrays
    PROVE  ReloadQueued'
<1>1. PICK k \in 1..Len(mainQueue) : mainQueue[k] = Reload
  BY DEF ReloadQueued, ArrayTypes
<1>2. mainQueue \in Seq(Blocks) /\ Blocks' = Blocks
  BY DEF ArrayTypes, Blocks, Newest, Reload
<1>3. k \in 1..Len(mainQueue') /\ mainQueue'[k] = mainQueue[k]
        /\ DOMAIN mainQueue' = 1..Len(mainQueue')
  BY <1>1, <1>2
<1> QED
  BY <1>1, <1>3 DEF ReloadQueued, Reload

----------------------------------------------------------------------------

\* The server's array, or the cache, for some observers
LEMMA EventsCome ==
    ASSUME ArrayInv, NEW new \in 1..Newest, NEW more \in Seq({Event(new)}),
           more # <<>>, mainQueue' = mainQueue \o more,
           cached' = new, cached <= new, observers' \in Nat,
           UNCHANGED <<arrays, current, shown, opened, ended>>
    PROVE  ArrayInv'
<1>0. PICK n \in Nat : n = Len(mainQueue)
  BY DEF ArrayInv, ArrayTypes
<1>14. PICK last \in Nat : last = n + Len(more)
  BY DEF Event
<1>1. /\ mainQueue \in Seq(Blocks)
      /\ Len(more) \in Nat \ {0} /\ Event(new) \in Blocks
      /\ \A k \in 1..Len(more) : more[k] = Event(new)
  BY DEF ArrayInv, ArrayTypes, Event, Blocks
<1>15. Blocks' = Blocks /\ Newest' = Newest /\ (\A k : ArrayAt(k)' = (IF k' = 0 THEN <<>> ELSE arrays[k']))
  BY DEF Blocks, Newest, Reload, ArrayAt
<1> HIDE DEF Blocks
<1>2. mainQueue' \in Seq(Blocks) /\ more \in Seq(Blocks)
  BY <1>1
<1>3. /\ Len(mainQueue') = last
      /\ \A k \in 1..n : mainQueue'[k] = mainQueue[k]
      /\ \A k \in (n + 1)..last : mainQueue'[k] = Event(new)
  <2>1. Len(mainQueue') = n + Len(more)
    BY <1>0, <1>1
  <2>2. \A k \in 1..n : mainQueue'[k] = mainQueue[k]
    BY <1>0, <1>1
  <2>3. ASSUME NEW k \in (n + 1)..last
        PROVE  mainQueue'[k] = Event(new)
    <3>1. k - n \in 1..Len(more)
      BY <1>0, <1>1, <1>14
    <3>2. mainQueue'[k] = more[k - n]
      BY <1>0, <1>1, <1>14, <3>1
    <3> QED
      BY <1>0, <1>1, <3>1, <3>2
  <2> QED
    BY <1>14, <2>1, <2>2, <2>3
<1>4. Event(new).kind = "event" /\ Event(new).array = new
  BY DEF Event
<1>5. \A k \in 1..last : k \in 1..n \/ k \in (n + 1)..last
  BY <1>0, <1>1, <1>14
<1>6. \A k \in 1..n : k \in 1..last /\ IsEvent(k)' = IsEvent(k)
  BY <1>0, <1>1, <1>3, <1>14 DEF IsEvent
<1>7. \A k \in (n + 1)..last : IsEvent(k)' /\ mainQueue'[k].array = new
  BY <1>0, <1>1, <1>3, <1>4, <1>14 DEF IsEvent
<1>8. /\ current \in Nat /\ cached \in Nat /\ new \in Nat /\ current <= new
  BY DEF ArrayInv, ArrayTypes, InOrder
<1>9. \A k \in 1..n : IsEvent(k) =>
          /\ mainQueue[k].array \in Nat
          /\ current <= mainQueue[k].array /\ mainQueue[k].array <= new
  <2>1. ASSUME NEW k \in 1..n, IsEvent(k)
        PROVE  /\ mainQueue[k].array \in Nat
               /\ current <= mainQueue[k].array /\ mainQueue[k].array <= new
    <3>1. mainQueue[k] \in Blocks /\ mainQueue[k].kind = "event"
      BY <1>0, <1>1, <2>1 DEF IsEvent
    <3>2. mainQueue[k].array \in Nat
      BY <3>1 DEF Blocks, Reload, ArrayInv, ArrayTypes
    <3>3. current <= mainQueue[k].array /\ mainQueue[k].array <= cached
      BY <1>0, <2>1 DEF ArrayInv, InOrder
    <3> QED
      BY <1>8, <3>2, <3>3
  <2> QED
    BY <2>1
<1>10. ArrayTypes'
  BY <1>2, <1>15 DEF ArrayInv, ArrayTypes
<1>11. InOrder'
  <2>1. \A k \in 1..last : IsEvent(k)' =>
            current <= mainQueue'[k].array /\ mainQueue'[k].array <= new
    BY <1>3, <1>5, <1>6, <1>7, <1>8, <1>9
  <2>2. ASSUME NEW k \in 1..last, NEW m \in 1..last, IsEvent(k)', IsEvent(m)', k < m
        PROVE  mainQueue'[k].array <= mainQueue'[m].array
    <3>1. CASE m \in 1..n
      <4>1. k \in 1..n
        BY <1>0, <1>5, <2>2, <3>1
      <4> QED
        BY <1>0, <1>3, <1>6, <2>2, <3>1, <4>1 DEF ArrayInv, InOrder
    <3>2. CASE m \in (n + 1)..last
      BY <1>7, <2>1, <2>2, <3>2
    <3> QED
      BY <1>5, <3>1, <3>2
  <2> QED
    BY <1>3, <1>8, <2>1, <2>2 DEF InOrder
<1>12. LastIsCached'
  <2>1. last \in 1..Len(mainQueue') /\ IsEvent(last)'
    BY <1>0, <1>1, <1>3, <1>7, <1>14
  <2>2. ASSUME NEW k \in 1..Len(mainQueue'), IsEvent(k)',
               \A m \in 1..Len(mainQueue') : m > k => ~IsEvent(m)'
        PROVE  mainQueue'[k].array = new
    <3>1. ~(last > k)
      BY <2>1, <2>2
    <3>2. k \in (n + 1)..last
      BY <1>0, <1>1, <1>3, <1>14, <3>1
    <3> QED
      BY <1>7, <3>2
  <2> QED
    BY <2>1, <2>2 DEF LastIsCached
<1>13. ReloadQueued => ReloadQueued'
  BY <1>2, <1>15, ReloadStays DEF ArrayInv
<1>16. RowsDrawn' /\ Assigned' = Assigned
  BY DEF ArrayInv, RowsDrawn, ArrayAt, Assigned
<1>17. ReloadComes' /\ TapsMatch'
  BY <1>13, <1>16 DEF ArrayInv, ReloadComes, TapsMatch
<1> QED
  BY <1>10, <1>11, <1>12, <1>16, <1>17 DEF ArrayInv

\* The first block ran, and an ignored event or a reload added none
LEMMA BlockLeaves ==
    ASSUME ArrayInv, mainQueue # <<>>, mainQueue' = Tail(mainQueue),
           UNCHANGED <<arrays, cached, observers, current, opened, ended>>,
           IsEvent(1) => ArrayAt(mainQueue[1].array) = <<>>,
           shown' \in Seq(1..Newest), RowsDrawn', ReloadComes', TapsMatch'
    PROVE  ArrayInv'
<1>1. /\ Len(mainQueue) \in Nat \ {0} /\ Len(mainQueue') = Len(mainQueue) - 1
      /\ \A k \in 1..Len(mainQueue') :
             k + 1 \in 1..Len(mainQueue) /\ mainQueue'[k] = mainQueue[k + 1]
      /\ mainQueue' \in Seq(Blocks)
  BY TailOfQueue DEF ArrayInv
<1>2. \A k \in 1..Len(mainQueue') : IsEvent(k)' = IsEvent(k + 1)
  BY <1>1 DEF IsEvent
<1>10. Blocks' = Blocks /\ Newest' = Newest
  BY DEF Blocks, Newest, Reload
<1>11. Assigned' = Assigned /\ ArrayAt(cached)' = ArrayAt(cached)
  BY DEF Assigned, ArrayAt
<1>3. ArrayTypes'
  BY <1>1, <1>10 DEF ArrayInv, ArrayTypes
<1>4. InOrder'
  BY <1>1, <1>2 DEF ArrayInv, InOrder
<1>5. \A k \in 1..Len(mainQueue) : k = 1 \/ k - 1 \in 1..Len(mainQueue')
  BY <1>1
<1>6. \A k \in 1..Len(mainQueue) : k # 1 => (IsEvent(k) = IsEvent(k - 1)')
  BY <1>1, <1>5 DEF IsEvent
<1>7. ASSUME NEW k \in 1..Len(mainQueue'), IsEvent(k)',
             \A m \in 1..Len(mainQueue') : m > k => ~IsEvent(m)'
      PROVE  ArrayAt(mainQueue[k + 1].array) = ArrayAt(cached)
  <2>1. \A m \in 1..Len(mainQueue) : m > k + 1 => ~IsEvent(m)
    BY <1>5, <1>6, <1>7
  <2> QED
    BY <1>1, <1>2, <1>7, <2>1 DEF ArrayInv, LastIsCached
<1>8. ASSUME \A k \in 1..Len(mainQueue') : ~IsEvent(k)'
      PROVE  Assigned = ArrayAt(cached) \/ ArrayAt(cached) = <<>>
  <2>1. \A m \in 1..Len(mainQueue) : m > 1 => ~IsEvent(m)
    BY <1>5, <1>6, <1>8
  <2>2. CASE ~IsEvent(1)
    <3>1. \A m \in 1..Len(mainQueue) : ~IsEvent(m)
      BY <1>1, <2>1, <2>2
    <3> QED
      BY <3>1 DEF ArrayInv, LastIsCached
  <2>3. CASE IsEvent(1)
    <3>1. 1 \in 1..Len(mainQueue)
      BY <1>1
    <3> QED
      BY <2>1, <2>3, <3>1 DEF ArrayInv, LastIsCached
  <2> QED
    BY <2>2, <2>3
<1>9. LastIsCached'
  <2>1. ASSUME NEW k \in 1..Len(mainQueue'), IsEvent(k)',
               \A m \in 1..Len(mainQueue') : m > k => ~IsEvent(m)'
        PROVE  ArrayAt(mainQueue[k].array)' = ArrayAt(cached)'
    <3>1. ArrayAt(mainQueue[k].array)' = ArrayAt(mainQueue[k + 1].array)
      BY <1>1, <2>1 DEF ArrayAt
    <3> QED
      BY <1>7, <1>11, <2>1, <3>1
  <2> QED
    BY <1>8, <1>11, <2>1 DEF LastIsCached
<1> QED
  BY <1>3, <1>4, <1>9 DEF ArrayInv

LEMMA EmptyEventKeeps ==
    ASSUME ArrayInv, EventRuns, ArrayAt(Head(mainQueue).array) = <<>>
    PROVE  ArrayInv'
<1>1. /\ mainQueue # <<>> /\ Head(mainQueue).kind = "event"
      /\ mainQueue' = Tail(mainQueue)
      /\ UNCHANGED <<arrays, cached, observers, current, shown, opened, ended>>
  BY DEF EventRuns
<1>2. /\ Len(mainQueue) \in Nat \ {0} /\ Len(mainQueue') = Len(mainQueue) - 1
      /\ \A k \in 1..Len(mainQueue) - 1 : mainQueue'[k] = mainQueue[k + 1]
      /\ Head(mainQueue) = mainQueue[1]
      /\ DOMAIN mainQueue = 1..Len(mainQueue)
      /\ DOMAIN mainQueue' = 1..Len(mainQueue')
  BY <1>1, TailOfQueue DEF ArrayInv, ArrayTypes
<1>3. ReloadQueued => ReloadQueued'
  <2> SUFFICES ASSUME ReloadQueued PROVE ReloadQueued'
    OBVIOUS
  <2>1. PICK k \in 1..Len(mainQueue) : mainQueue[k] = Reload
    BY <1>2 DEF ReloadQueued
  <2>2. k # 1
    BY <1>1, <1>2, <2>1 DEF Reload
  <2>3. k - 1 \in 1..Len(mainQueue') /\ mainQueue'[k - 1] = Reload
    BY <1>2, <2>1, <2>2
  <2> QED
    BY <1>2, <2>3 DEF ReloadQueued, Reload
<1>4. RowsDrawn' /\ Assigned' = Assigned /\ Newest' = Newest
  BY <1>1 DEF ArrayInv, RowsDrawn, ArrayAt, Assigned, Newest
<1>5. ReloadComes' /\ TapsMatch'
  BY <1>1, <1>3, <1>4 DEF ArrayInv, ReloadComes, TapsMatch
<1>6. shown' \in Seq(1..Newest)
  BY <1>1 DEF ArrayInv, ArrayTypes
<1> QED
  BY <1>1, <1>2, <1>4, <1>5, <1>6, BlockLeaves

LEMMA ReloadKeeps ==
    ASSUME ArrayInv, ReloadRuns
    PROVE  ArrayInv'
<1>1. /\ mainQueue # <<>> /\ Head(mainQueue).kind = "reload"
      /\ mainQueue' = Tail(mainQueue)
      /\ UNCHANGED <<arrays, cached, observers, current, opened, ended>>
      /\ ~ended
  BY DEF ReloadRuns
<1>2. ~IsEvent(1)
  BY <1>1, TailOfQueue DEF ArrayInv, IsEvent
<1>3. shown' = [i \in 1..Len(Assigned) |-> current]
  BY RowsType DEF ReloadRuns, ArrayInv
<1>4. /\ shown' \in Seq(1..Newest) /\ Len(shown') = Len(Assigned)
      /\ \A i \in 1..Len(shown') : shown'[i] = current
  BY <1>3, RowsType DEF ArrayInv
<1>5. Assigned' = Assigned /\ ArrayAt(current)' = Assigned /\ current \in Nat
  BY <1>1 DEF ArrayAt, Assigned, ArrayInv, ArrayTypes
<1>6. RowsDrawn'
  <2>1. ASSUME NEW i \in 1..Len(shown')
        PROVE  shown'[i] <= current' /\ i \in 1..Len(ArrayAt(shown[i]))'
    <3>1. shown'[i] = current' /\ current' <= current'
      BY <1>1, <1>4, <1>5
    <3>2. ArrayAt(shown[i])' = ArrayAt(current)'
      BY <3>1 DEF ArrayAt
    <3> QED
      BY <1>4, <1>5, <3>1, <3>2
  <2> QED
    BY <2>1 DEF RowsDrawn
<1>7. ReloadComes'
  BY <1>1, <1>3, <1>5 DEF ReloadComes
<1>8. TapsMatch'
  BY <1>1 DEF ArrayInv, TapsMatch
<1> QED
  BY <1>1, <1>2, <1>4, <1>6, <1>7, <1>8, BlockLeaves

LEMMA EventKeeps ==
    ASSUME ArrayInv, EventRuns, ArrayAt(Head(mainQueue).array) # <<>>
    PROVE  ArrayInv'
<1>1. /\ mainQueue # <<>> /\ Head(mainQueue).kind = "event"
      /\ mainQueue' = Append(Tail(mainQueue), Reload)
      /\ current' = Head(mainQueue).array
      /\ UNCHANGED <<arrays, cached, observers, shown, opened, ended>>
  BY DEF EventRuns
<1>2. PICK n \in Nat \ {0} : n = Len(mainQueue)
  BY <1>1, TailOfQueue DEF ArrayInv
<1>3. /\ Len(Tail(mainQueue)) = n - 1
      /\ \A k \in 1..n - 1 : Tail(mainQueue)[k] = mainQueue[k + 1]
      /\ Tail(mainQueue) \in Seq(Blocks)
      /\ Head(mainQueue) = mainQueue[1] /\ mainQueue[1] \in Blocks
  BY <1>1, <1>2, TailOfQueue DEF ArrayInv
<1>4. Reload \in Blocks /\ Reload.kind = "reload"
  BY DEF Reload, Blocks
<1>14. Blocks' = Blocks /\ Newest' = Newest
  BY <1>1 DEF Blocks, Newest, Reload
<1>5. /\ mainQueue' \in Seq(Blocks) /\ Len(mainQueue') = n
      /\ mainQueue'[n] = Reload
      /\ \A k \in 1..n - 1 : mainQueue'[k] = mainQueue[k + 1]
  BY <1>1, <1>2, <1>3, <1>4
<1>6. \A k \in 1..n : k \in 1..n - 1 \/ k = n
  BY <1>2
<1>7. \A k \in 1..n - 1 : k + 1 \in 1..n /\ IsEvent(k)' = IsEvent(k + 1)
  BY <1>2, <1>5 DEF IsEvent
<1>8. ~IsEvent(n)' /\ IsEvent(1) /\ current' = mainQueue[1].array
  BY <1>1, <1>2, <1>3, <1>4, <1>5 DEF IsEvent
<1>9. 1 \in 1..n
  BY <1>2
<1>15. /\ current' \in 1..Newest /\ current' \in Nat /\ current \in Nat
       /\ current <= current' /\ current' <= cached
  <2>1. current' \in 1..Newest
    BY <1>1, <1>3 DEF Blocks, Reload
  <2> QED
    BY <1>2, <1>8, <1>9, <2>1 DEF ArrayInv, ArrayTypes, InOrder
<1>10. ArrayTypes'
  BY <1>1, <1>5, <1>14, <1>15 DEF ArrayInv, ArrayTypes
<1>11. InOrder'
  <2>1. \A k \in 1..n : IsEvent(k)' =>
            current' <= mainQueue'[k].array /\ mainQueue'[k].array <= cached
    <3>1. ASSUME NEW k \in 1..n - 1, IsEvent(k)'
          PROVE  current' <= mainQueue'[k].array /\ mainQueue'[k].array <= cached
      <4>1. k + 1 \in 1..n /\ IsEvent(k + 1) /\ 1 < k + 1
        BY <1>2, <1>7, <3>1
      <4> QED
        BY <1>2, <1>5, <1>8, <1>9, <4>1 DEF ArrayInv, InOrder
    <3> QED
      BY <1>6, <1>8, <3>1
  <2>2. \A k, m \in 1..n : IsEvent(k)' /\ IsEvent(m)' /\ k < m =>
            mainQueue'[k].array <= mainQueue'[m].array
    <3>1. ASSUME NEW k \in 1..n - 1, NEW m \in 1..n - 1,
                 IsEvent(k)', IsEvent(m)', k < m
          PROVE  mainQueue'[k].array <= mainQueue'[m].array
      <4>1. /\ k + 1 \in 1..n /\ IsEvent(k + 1) /\ m + 1 \in 1..n /\ IsEvent(m + 1)
            /\ k + 1 < m + 1
        BY <1>2, <1>7, <3>1
      <4> QED
        BY <1>2, <1>5, <4>1 DEF ArrayInv, InOrder
    <3> QED
      BY <1>6, <1>8, <3>1
  <2> QED
    BY <1>1, <1>5, <1>15, <2>1, <2>2 DEF InOrder
<1>17. ArrayAt(cached)' = ArrayAt(cached) /\ Assigned' = ArrayAt(mainQueue[1].array)
  BY <1>1, <1>8 DEF ArrayAt, Assigned
<1>12. LastIsCached'
  <2>1. ASSUME NEW k \in 1..n, IsEvent(k)', \A m \in 1..n : m > k => ~IsEvent(m)'
        PROVE  ArrayAt(mainQueue[k].array)' = ArrayAt(cached)'
    <3>1. k \in 1..n - 1
      BY <1>6, <1>8, <2>1
    <3>2. ASSUME NEW m \in 1..n, m > k + 1 PROVE ~IsEvent(m)
      <4>1. m - 1 \in 1..n - 1 /\ m - 1 > k /\ (m - 1) + 1 = m
        BY <1>2, <3>1, <3>2
      <4>2. PICK j \in 1..n - 1 : j = m - 1
        BY <4>1
      <4>3. IsEvent(j)' = IsEvent(j + 1) /\ j \in 1..n
        BY <1>6, <1>7
      <4> QED
        BY <2>1, <4>1, <4>2, <4>3
    <3>3. k + 1 \in 1..n /\ IsEvent(k + 1) /\ mainQueue'[k] = mainQueue[k + 1]
      BY <1>5, <1>7, <2>1, <3>1
    <3>4. ArrayAt(mainQueue[k + 1].array) = ArrayAt(cached)
      BY <1>2, <3>2, <3>3 DEF ArrayInv, LastIsCached
    <3>5. ArrayAt(mainQueue[k].array)' = ArrayAt(mainQueue[k + 1].array)
      BY <1>1, <3>3 DEF ArrayAt
    <3> QED
      BY <1>17, <3>4, <3>5
  <2>2. ASSUME \A k \in 1..n : ~IsEvent(k)'
        PROVE  Assigned' = ArrayAt(cached)'
    <3>1. ASSUME NEW m \in 1..n, m > 1 PROVE ~IsEvent(m)
      <4>1. m - 1 \in 1..n - 1 /\ (m - 1) + 1 = m
        BY <1>2, <3>1
      <4>2. PICK j \in 1..n - 1 : j = m - 1
        BY <4>1
      <4>3. IsEvent(j)' = IsEvent(j + 1) /\ j \in 1..n
        BY <1>6, <1>7
      <4> QED
        BY <2>2, <4>1, <4>2, <4>3
    <3>2. ArrayAt(mainQueue[1].array) = ArrayAt(cached)
      BY <1>2, <1>8, <1>9, <3>1 DEF ArrayInv, LastIsCached
    <3> QED
      BY <1>17, <3>2
  <2> QED
    BY <1>5, <2>1, <2>2 DEF LastIsCached
<1>13. ReloadQueued'
  <2>1. n \in 1..Len(mainQueue') /\ mainQueue'[n] = Reload
    BY <1>2, <1>5
  <2>2. DOMAIN mainQueue' = 1..Len(mainQueue')
    BY <1>5
  <2> QED
    BY <2>1, <2>2 DEF ReloadQueued, Reload
<1>18. RowsDrawn'
  <2>1. \A i \in 1..Len(shown) : shown[i] \in Nat
    BY DEF ArrayInv, ArrayTypes
  <2> QED
    BY <1>1, <1>15, <2>1 DEF ArrayInv, RowsDrawn, ArrayAt
<1>19. ReloadComes' /\ TapsMatch'
  BY <1>1, <1>13 DEF ArrayInv, ReloadComes, TapsMatch
<1> QED
  BY <1>10, <1>11, <1>12, <1>18, <1>19 DEF ArrayInv

LEMMA SeqGrows ==
    ASSUME NEW S, NEW T, S \subseteq T, NEW s \in Seq(S)
    PROVE  s \in Seq(T)
OBVIOUS

LEMMA PutKeeps ==
    ASSUME ArrayInv, PutArray
    PROVE  ArrayInv'
<1>1. PICK array \in Arrays : arrays' = Append(arrays, array)
  BY DEF PutArray
<1>2. UNCHANGED <<cached, observers, mainQueue, current, shown, opened, ended>>
  BY DEF PutArray
<1>3. arrays \in Seq(Arrays) /\ Newest \in Nat \ {0}
  BY DEF ArrayInv, ArrayTypes
<1>4. /\ arrays' \in Seq(Arrays) /\ Newest' = Newest + 1
      /\ \A k \in 1..Newest : arrays'[k] = arrays[k]
  BY <1>1, <1>3 DEF Newest
<1>5. \A k \in 0..Newest :
          (IF k = 0 THEN <<>> ELSE arrays'[k]) = (IF k = 0 THEN <<>> ELSE arrays[k])
  BY <1>3, <1>4
<1>6. /\ cached \in 0..Newest /\ current \in 0..Newest
      /\ \A i \in 1..Len(shown) : shown[i] \in 0..Newest
      /\ \A k \in 1..Len(mainQueue) : IsEvent(k) => mainQueue[k].array \in 0..Newest
  <2>1. ASSUME NEW k \in 1..Len(mainQueue), IsEvent(k)
        PROVE  mainQueue[k].array \in 0..Newest
    <3>1. mainQueue[k] \in Blocks /\ mainQueue[k].kind = "event"
      BY <2>1 DEF ArrayInv, ArrayTypes, IsEvent
    <3> QED
      BY <3>1 DEF Blocks, Reload
  <2> QED
    BY <2>1 DEF ArrayInv, ArrayTypes
<1>7. ArrayTypes'
  <2>1. 1..Newest \subseteq 1..Newest'
    BY <1>3, <1>4
  <2>2. Blocks \subseteq Blocks'
    BY <2>1 DEF Blocks, Reload
  <2>3. mainQueue \in Seq(Blocks) /\ shown \in Seq(1..Newest)
    BY DEF ArrayInv, ArrayTypes
  <2>4. mainQueue \in Seq(Blocks')
    BY <2>2, <2>3, SeqGrows
  <2>5. shown \in Seq(1..Newest')
    BY <2>1, <2>3, SeqGrows
  <2> QED
    BY <1>2, <1>3, <1>4, <1>6, <2>4, <2>5 DEF ArrayInv, ArrayTypes
<1>8. \A k : IsEvent(k)' = IsEvent(k)
  BY <1>2 DEF IsEvent
<1>9. InOrder'
  BY <1>2, <1>8 DEF ArrayInv, InOrder
<1>10. /\ Assigned' = Assigned /\ ArrayAt(cached)' = ArrayAt(cached)
       /\ \A i \in 1..Len(shown) : ArrayAt(shown[i])' = ArrayAt(shown[i])
       /\ \A k \in 1..Len(mainQueue) :
              IsEvent(k) => ArrayAt(mainQueue[k].array)' = ArrayAt(mainQueue[k].array)
  BY <1>2, <1>5, <1>6 DEF Assigned, ArrayAt
<1>11. LastIsCached'
  BY <1>2, <1>8, <1>10 DEF ArrayInv, LastIsCached
<1>12. RowsDrawn'
  BY <1>2, <1>10 DEF ArrayInv, RowsDrawn
<1>13. ReloadQueued' = ReloadQueued
  BY <1>2 DEF ReloadQueued, Reload
<1>14. ReloadComes' /\ TapsMatch'
  BY <1>2, <1>10, <1>13 DEF ArrayInv, ReloadComes, TapsMatch
<1> QED
  BY <1>7, <1>9, <1>11, <1>12, <1>14 DEF ArrayInv

\* An index of a row is out of range only while a reload is queued
LEMMA RowsFit ==
    ASSUME ArrayInv, NEW i \in DOMAIN shown
    PROVE  /\ i \in 1..Len(shown) /\ DOMAIN Assigned = 1..Len(Assigned)
           /\ ReloadQueued \/ (i \in DOMAIN Assigned /\ Drawn[i] = Assigned[i])
<1>1. i \in 1..Len(shown) /\ DOMAIN Assigned = 1..Len(Assigned)
  BY RowsType DEF ArrayInv, ArrayTypes
<1>2. ASSUME ~ReloadQueued PROVE i \in DOMAIN Assigned /\ Drawn[i] = Assigned[i]
  <2>1. shown = [k \in 1..Len(Assigned) |-> current]
    BY <1>2 DEF ArrayInv, ReloadComes
  <2>2. i \in 1..Len(Assigned) /\ shown[i] = current
    BY <2>1
  <2> QED
    BY <1>1, <2>2 DEF Drawn, Assigned
<1> QED
  BY <1>1, <1>2

LEMMA DrawKeeps ==
    ASSUME ArrayInv, Draw
    PROVE  ArrayInv'
<1>1. UNCHANGED <<arrays, cached, observers, mainQueue, current, opened>>
  BY DEF Draw
<1>2. PICK i \in DOMAIN shown :
          \/ /\ i \in DOMAIN Assigned
             /\ shown' = [shown EXCEPT ![i] = current] /\ UNCHANGED ended
          \/ i \notin DOMAIN Assigned /\ ended' = TRUE /\ UNCHANGED shown
  BY Zenon DEF Draw
<1>3. /\ i \in 1..Len(shown) /\ DOMAIN Assigned = 1..Len(Assigned)
      /\ ReloadQueued \/ (i \in DOMAIN Assigned /\ Drawn[i] = Assigned[i])
  BY RowsFit
<1>4. ReloadQueued' = ReloadQueued /\ Assigned' = Assigned
  BY <1>1 DEF ReloadQueued, Reload, Assigned, ArrayAt
<1>5. InOrder' /\ LastIsCached'
  BY <1>1 DEF ArrayInv, InOrder, LastIsCached, IsEvent, ArrayAt, Assigned
<1>6. CASE i \notin DOMAIN Assigned
  <2>1. shown' = shown /\ ReloadQueued
    BY <1>2, <1>3, <1>6
  <2>2. ArrayTypes' /\ RowsDrawn'
    BY <1>1, <2>1 DEF ArrayInv, ArrayTypes, Newest, Blocks, Reload, RowsDrawn, ArrayAt
  <2>3. ReloadComes' /\ TapsMatch'
    BY <1>1, <1>4, <2>1 DEF ArrayInv, ReloadComes, TapsMatch
  <2> QED
    BY <1>5, <2>2, <2>3 DEF ArrayInv
<1>7. CASE i \in DOMAIN Assigned
  <2>1. shown' = [shown EXCEPT ![i] = current] /\ ended' = ended
    BY <1>2, <1>7
  <2>2. i \in 1..Len(Assigned) /\ current \in 0..Newest /\ Newest \in Nat
        /\ shown \in Seq(1..Newest)
    BY <1>3, <1>7 DEF ArrayInv, ArrayTypes
  <2>3. current \in 1..Newest
    BY <2>2 DEF Assigned, ArrayAt
  <2>4. /\ shown' \in Seq(1..Newest) /\ Len(shown') = Len(shown)
        /\ \A k \in 1..Len(shown) : shown'[k] = IF k = i THEN current ELSE shown[k]
    BY <1>3, <2>1, <2>2, <2>3
  <2>5. ArrayTypes'
    BY <1>1, <2>4 DEF ArrayInv, ArrayTypes, Newest, Blocks, Reload
  <2>6. ASSUME NEW k \in 1..Len(shown')
        PROVE  shown'[k] <= current' /\ k \in 1..Len(ArrayAt(shown[k]))'
    <3>1. CASE k = i
      <4>1. shown'[k] = current /\ ArrayAt(shown[k])' = Assigned
        BY <1>1, <2>4, <3>1 DEF ArrayAt, Assigned
      <4> QED
        BY <1>1, <2>2, <3>1, <4>1
    <3>2. CASE k # i
      <4>1. shown'[k] = shown[k] /\ k \in 1..Len(shown)
        BY <2>4, <3>2
      <4>2. ArrayAt(shown[k])' = ArrayAt(shown[k])
        BY <1>1, <4>1 DEF ArrayAt
      <4> QED
        BY <1>1, <4>1, <4>2 DEF ArrayInv, RowsDrawn
    <3> QED
      BY <3>1, <3>2
  <2>7. RowsDrawn'
    BY <2>6 DEF RowsDrawn
  <2>8. ASSUME ~ReloadQueued
        PROVE  shown' = [k \in 1..Len(Assigned) |-> current]
    <3>1. shown = [k \in 1..Len(Assigned) |-> current]
      BY <2>8 DEF ArrayInv, ReloadComes
    <3> QED
      BY <2>1, <2>2, <3>1
  <2>9. ReloadComes' /\ TapsMatch'
    BY <1>1, <1>4, <2>1, <2>8 DEF ArrayInv, ReloadComes, TapsMatch
  <2> QED
    BY <1>5, <2>5, <2>7, <2>9 DEF ArrayInv
<1> QED
  BY <1>6, <1>7

LEMMA TapKeeps ==
    ASSUME ArrayInv, Tap
    PROVE  ArrayInv'
<1>1. UNCHANGED <<arrays, cached, observers, mainQueue, current, shown>>
  BY DEF Tap
<1>2. PICK i \in DOMAIN shown :
          \/ /\ i \in DOMAIN Assigned
             /\ opened' = {[row |-> Drawn[i], opens |-> Assigned[i],
                            early |-> ReloadQueued]}
             /\ UNCHANGED ended
          \/ i \notin DOMAIN Assigned /\ ended' = TRUE /\ UNCHANGED opened
  BY Zenon DEF Tap
<1>3. ReloadQueued \/ (i \in DOMAIN Assigned /\ Drawn[i] = Assigned[i])
  BY RowsFit
<1>4. ReloadQueued' = ReloadQueued /\ Assigned' = Assigned
  BY <1>1 DEF ReloadQueued, Reload, Assigned, ArrayAt
<1>5. \A o \in opened' : o.early \/ o.row = o.opens
  <2>1. \A o \in opened : o.early \/ o.row = o.opens
    BY Zenon DEF ArrayInv, TapsMatch
  <2>2. CASE opened' = opened
    BY <2>1, <2>2, Zenon
  <2>3. CASE opened' = {[row |-> Drawn[i], opens |-> Assigned[i],
                         early |-> ReloadQueued]}
    <3>1. PICK o : o = [row |-> Drawn[i], opens |-> Assigned[i], early |-> ReloadQueued]
      OBVIOUS
    <3>2. o.row = Drawn[i] /\ o.opens = Assigned[i]
      BY <3>1
    <3>3. o.early = ReloadQueued
      BY <3>1, Zenon
    <3>4. o.early \/ o.row = o.opens
      BY <1>3, <3>2, <3>3, Zenon
    <3> QED
      BY <2>3, <3>1, <3>4, Zenon
  <2> QED
    BY <1>2, <2>2, <2>3, Zenon
<1>6. ended' => ReloadQueued
  <2>1. ended => ReloadQueued
    BY Zenon DEF ArrayInv, TapsMatch
  <2> QED
    BY <1>2, <1>3, <2>1, Zenon
<1>7. TapsMatch'
  BY <1>4, <1>5, <1>6, Zenon DEF TapsMatch
<1>8. ArrayTypes' /\ InOrder' /\ RowsDrawn' /\ LastIsCached' /\ ReloadComes'
  BY <1>1 DEF ArrayInv, ArrayTypes, Newest, Blocks, InOrder, RowsDrawn, LastIsCached,
              ReloadComes, ReloadQueued, IsEvent, Reload, ArrayAt, Assigned
<1> QED
  BY <1>7, <1>8, Zenon DEF ArrayInv

\* Another observer, or another number of what the client has
LEMMA NothingComes ==
    ASSUME ArrayInv, observers' \in Nat, cached' \in 0..Newest, cached <= cached',
           ArrayAt(cached)' = ArrayAt(cached),
           UNCHANGED <<arrays, mainQueue, current, shown, opened, ended>>
    PROVE  ArrayInv'
<1>1. ArrayTypes' /\ RowsDrawn'
  BY DEF ArrayInv, ArrayTypes, Newest, Blocks, Reload, RowsDrawn, ArrayAt
<1>2. InOrder'
  <2>1. ASSUME NEW k \in 1..Len(mainQueue), IsEvent(k)
        PROVE  mainQueue[k].array \in Nat
    <3>1. mainQueue[k] \in Blocks /\ mainQueue[k].kind = "event"
      BY <2>1 DEF ArrayInv, ArrayTypes, IsEvent
    <3> QED
      BY <3>1 DEF Blocks, Reload, ArrayInv, ArrayTypes
  <2>2. cached \in Nat /\ cached' \in Nat /\ current \in Nat
    BY DEF ArrayInv, ArrayTypes
  <2> QED
    BY <2>1, <2>2 DEF ArrayInv, InOrder, IsEvent
<1>3. LastIsCached'
  <2>1. /\ Assigned' = Assigned
        /\ \A k : IsEvent(k)' = IsEvent(k)
        /\ \A k \in 1..Len(mainQueue) :
               ArrayAt(mainQueue[k].array)' = ArrayAt(mainQueue[k].array)
    BY DEF Assigned, ArrayAt, IsEvent
  <2> QED
    BY <2>1 DEF ArrayInv, LastIsCached
<1>4. ReloadQueued' = ReloadQueued /\ Assigned' = Assigned
  BY DEF ReloadQueued, Reload, Assigned, ArrayAt
<1>5. ReloadComes' /\ TapsMatch'
  BY <1>4 DEF ArrayInv, ReloadComes, TapsMatch
<1> QED
  BY <1>1, <1>2, <1>3, <1>5 DEF ArrayInv

LEMMA AppearKeeps ==
    ASSUME ArrayInv, Appear
    PROVE  ArrayInv'
<1>1. /\ observers' \in Nat /\ cached \in 0..Newest /\ Newest \in Nat
      /\ UNCHANGED <<arrays, cached, current, shown, opened, ended>>
      /\ mainQueue' = IF cached = 0 THEN mainQueue
                      ELSE Append(mainQueue, Event(cached))
  BY DEF Appear, ArrayInv, ArrayTypes
<1>2. CASE cached # 0
  <2>1. PICK new \in 1..Newest : new = cached
    BY <1>1, <1>2
  <2>2. PICK more : more = <<Event(new)>>
    OBVIOUS
  <2>3. mainQueue' = mainQueue \o more
    <3>1. PICK x : x = Event(new)
      OBVIOUS
    <3>2. mainQueue \in Seq(Blocks)
      BY DEF ArrayInv, ArrayTypes
    <3>3. Append(mainQueue, x) = mainQueue \o <<x>>
      BY <3>2
    <3> QED
      BY <1>1, <1>2, <2>1, <2>2, <3>1, <3>3
  <2>4. more \in Seq({Event(new)}) /\ more # <<>>
    BY <2>2
  <2>5. cached' = new /\ cached <= new
    BY <1>1, <2>1
  <2>6. UNCHANGED <<arrays, current, shown, opened, ended>> /\ observers' \in Nat
    BY <1>1
  <2> QED
    BY <2>3, <2>4, <2>5, <2>6, EventsCome
<1>3. CASE cached = 0
  <2>1. mainQueue' = mainQueue /\ ArrayAt(cached)' = ArrayAt(cached)
    BY <1>1, <1>3 DEF ArrayAt
  <2> QED
    BY <1>1, <2>1, NothingComes
<1> QED
  BY <1>2, <1>3

LEMMA DataKeeps ==
    ASSUME ArrayInv, DataArrives
    PROVE  ArrayInv'
<1>1. /\ observers \in Nat /\ observers > 0
      /\ cached \in 0..Newest /\ Newest \in Nat \ {0} /\ cached <= Newest
      /\ cached' = Newest
      /\ UNCHANGED <<arrays, observers, current, shown, opened, ended>>
      /\ mainQueue' = IF cached # 0 /\ ArrayAt(cached) = ArrayAt(Newest) THEN mainQueue
                      ELSE mainQueue \o [i \in 1..observers |-> Event(Newest)]
  BY DEF DataArrives, ArrayInv, ArrayTypes
<1>2. CASE cached # 0 /\ ArrayAt(cached) = ArrayAt(Newest)
  <2>1. ArrayAt(cached)' = ArrayAt(Newest) /\ mainQueue' = mainQueue
    BY <1>1, <1>2 DEF ArrayAt
  <2>2. cached' \in 0..Newest /\ cached <= cached' /\ observers' \in Nat
    BY <1>1
  <2> QED
    BY <1>1, <1>2, <2>1, <2>2, NothingComes
<1>3. CASE ~(cached # 0 /\ ArrayAt(cached) = ArrayAt(Newest))
  <2>1. PICK new \in 1..Newest : new = Newest
    BY <1>1
  <2>2. PICK more : more = [i \in 1..observers |-> Event(new)]
    OBVIOUS
  <2>3. mainQueue' = mainQueue \o more
    BY <1>1, <1>3, <2>1, <2>2
  <2>4. more \in Seq({Event(new)}) /\ Len(more) = observers
    BY <1>1, <2>2
  <2>5. more # <<>>
    BY <1>1, <2>4
  <2> QED
    BY <1>1, <2>1, <2>3, <2>4, <2>5, EventsCome
<1> QED
  BY <1>2, <1>3

LEMMA ArrayStep ==
    ASSUME ArrayInv, [ArrayNext]_arrayVars
    PROVE  ArrayInv'
<1>1. CASE UNCHANGED arrayVars
  <2>1. ArrayAt(cached)' = ArrayAt(cached) /\ observers' \in Nat
        /\ cached' \in 0..Newest /\ cached <= cached'
    BY <1>1 DEF arrayVars, ArrayAt, ArrayInv, ArrayTypes
  <2> QED
    BY <1>1, <2>1, NothingComes DEF arrayVars
<1> QED
  BY <1>1, PutKeeps, AppearKeeps, DataKeeps, EmptyEventKeeps,
     EventKeeps, ReloadKeeps, DrawKeeps, TapKeeps DEF ArrayNext

LEMMA ArrayStarts == ArrayInit => ArrayInv
<1> SUFFICES ASSUME ArrayInit PROVE ArrayInv
  OBVIOUS
<1>1. /\ cached = 0 /\ current = 0 /\ shown = <<>> /\ mainQueue = <<>>
      /\ observers = 0 /\ opened = {} /\ ~ended
  BY DEF ArrayInit
<1>2. PICK array \in Arrays : arrays = <<array>>
  BY DEF ArrayInit
<1>3. ArrayTypes
  BY <1>1, <1>2 DEF ArrayTypes, Newest
<1>4. Assigned = <<>> /\ ArrayAt(cached) = <<>>
  BY <1>1 DEF Assigned, ArrayAt
<1>5. ReloadComes
  <2>1. shown = [i \in 1..Len(Assigned) |-> current]
    BY <1>1, <1>4
  <2> QED
    BY <2>1 DEF ReloadComes
<1> QED
  BY <1>1, <1>3, <1>4, <1>5
  DEF ArrayInv, InOrder, RowsDrawn, LastIsCached, TapsMatch, IsEvent

\* For any number of puts over one another, observers and events: while no
\* reload is queued each row shows the element at its index, a tap opens it and
\* no index is out of range; a screen at rest has what the client has.
THEOREM RowsStand == ArraySpec => []RowsStandForElements
<1>1. ArrayInit => ArrayInv
  BY ArrayStarts
<1>2. ArrayInv => RowsStandForElements
  <2> SUFFICES ASSUME ArrayInv PROVE RowsStandForElements
    OBVIOUS
  <2>1. ASSUME ~ReloadQueued PROVE Drawn = Assigned
    <3>1. shown = [k \in 1..Len(Assigned) |-> current]
      BY <2>1 DEF ArrayInv, ReloadComes
    <3>2. DOMAIN shown = 1..Len(Assigned)
          /\ \A i \in 1..Len(Assigned) : shown[i] = current
      BY <3>1
    <3>3. Drawn = [i \in 1..Len(Assigned) |-> Assigned[i]]
      BY <3>2 DEF Drawn, Assigned
    <3>4. Assigned \in Seq(Elements)
      BY ArrayAtType DEF Assigned, ArrayInv, ArrayTypes
    <3> QED
      BY <3>3, <3>4
  <2>2. mainQueue = <<>> => ~ReloadQueued
    BY DEF ReloadQueued
  <2>3. mainQueue = <<>> => Assigned = ArrayAt(cached) \/ ArrayAt(cached) = <<>>
    BY DEF ArrayInv, LastIsCached
  <2>4. /\ \A o \in opened : o.early \/ o.row = o.opens
        /\ ended => ReloadQueued
    BY Zenon DEF ArrayInv, TapsMatch
  <2> QED
    BY <2>1, <2>2, <2>3, <2>4, Zenon DEF RowsStandForElements
<1> QED
  BY <1>1, <1>2, ArrayStep, PTL DEF ArraySpec

\* For any number of them, neither the array nor a row goes back to an older
\* one, though every observer of a screen assigns the whole array.
THEOREM ScreenForward == ArraySpec => ScreenGoesForward
<1>1. ASSUME ArrayInv, [ArrayNext]_arrayVars
      PROVE  [/\ current <= current'
              /\ \A i \in DOMAIN shown \cap DOMAIN shown' :
                     shown[i] <= shown'[i]]_arrayVars
  <2> SUFFICES ASSUME ArrayNext
               PROVE  /\ current <= current'
                      /\ \A i \in DOMAIN shown \cap DOMAIN shown' : shown[i] <= shown'[i]
    BY <1>1
  <2>1. /\ current \in Nat
        /\ \A i \in DOMAIN shown : shown[i] \in Nat /\ shown[i] <= current
    BY <1>1 DEF ArrayInv, ArrayTypes, RowsDrawn
  <2>2. CASE PutArray \/ Appear \/ DataArrives \/ Tap
    <3>1. current' = current /\ shown' = shown
      BY <2>2 DEF PutArray, Appear, DataArrives, Tap
    <3> QED
      BY <2>1, <3>1
  <2>3. CASE EventRuns
    <3>1. shown' = shown
      BY <2>3 DEF EventRuns
    <3>2. current <= current'
      <4>1. CASE ArrayAt(Head(mainQueue).array) = <<>>
        BY <2>1, <2>3, <4>1 DEF EventRuns
      <4>2. CASE ArrayAt(Head(mainQueue).array) # <<>>
        <5>1. /\ mainQueue # <<>> /\ Head(mainQueue).kind = "event"
              /\ current' = Head(mainQueue).array
          BY <2>3, <4>2 DEF EventRuns
        <5>2. Head(mainQueue) = mainQueue[1] /\ 1 \in 1..Len(mainQueue)
          BY <1>1, <5>1, TailOfQueue DEF ArrayInv
        <5> QED
          BY <1>1, <5>1, <5>2 DEF ArrayInv, InOrder, IsEvent
      <4> QED
        BY <4>1, <4>2
    <3> QED
      BY <2>1, <3>1, <3>2
  <2>4. CASE ReloadRuns
    <3>1. current' = current /\ shown' = [i \in DOMAIN Assigned |-> current]
      BY <2>4 DEF ReloadRuns
    <3> QED
      BY <2>1, <3>1
  <2>5. CASE Draw
    <3>1. /\ current' = current
          /\ shown' = shown \/ \E i \in DOMAIN shown : shown' = [shown EXCEPT ![i] = current]
      BY <2>5 DEF Draw
    <3> QED
      BY <2>1, <3>1
  <2> QED
    BY <2>2, <2>3, <2>4, <2>5 DEF ArrayNext
<1> QED
  BY <1>1, ArrayStarts, ArrayStep, PTL DEF ArraySpec, ScreenGoesForward

----------------------------------------------------------------------------
(* The types of the screens                                                *)

LEMMA HudTyped ==
    ASSUME NEW h \in HudStates
    PROVE  HudShow(h) \in HudStates /\ HudDismiss(h) \in HudStates
<1>1. HudShow(h) \in HudStates
    BY DEF HudShow, HudStates
<1>2. HudDismiss(h) \in HudStates
    BY DEF HudDismiss, HudStates
<1> QED
    BY <1>1, <1>2

LEMMA HudAnimatedTyped ==
    ASSUME NEW h \in HudStates, h.state \in {"showing", "hiding"}
    PROVE  HudAnimated(h) \in HudStates
<1>1. h.later \in BOOLEAN
    BY DEF HudStates
<1>2. CASE h.state = "showing" /\ h.later
    <2>1. HudAnimated(h) = [state |-> "hiding", later |-> FALSE]
        BY <1>2 DEF HudAnimated
    <2> QED
        BY <2>1 DEF HudStates
<1>3. CASE h.state = "showing" /\ ~h.later
    <2>1. HudAnimated(h) = [h EXCEPT !.state = "shown"]
        BY <1>3 DEF HudAnimated
    <2> QED
        BY <2>1 DEF HudStates
<1>4. CASE h.state = "hiding"
    <2>1. HudAnimated(h) = Hidden
        BY <1>4 DEF HudAnimated
    <2> QED
        BY <2>1 DEF HudStates, Hidden
<1> QED
    BY <1>1, <1>2, <1>3, <1>4

LEMMA SearchTyped ==
    ASSUME SearchTypeOK, [SearchNext]_searchVars
    PROVE  SearchTypeOK'
<1>1. /\ registered \subseteq Users /\ users \subseteq Users
      /\ results \subseteq Users /\ rows \subseteq Users
      /\ spinner \in HudStates /\ asked \in Seq(Terms)
      /\ searches \in 0..MaxSearches /\ chosen \subseteq Users
    BY DEF SearchTypeOK
<1>2. hasFetched \in BOOLEAN /\ hidden \in BOOLEAN
    BY Zenon DEF SearchTypeOK
<1>3. Terms \subseteq SUBSET Users /\ MaxSearches \in Nat
    BY SearchConstants
<1>4. HudShow(spinner) \in HudStates /\ HudDismiss(spinner) \in HudStates
      /\ HudDismiss(HudShow(spinner)) \in HudStates
    BY <1>1, HudTyped
<1>5. ASSUME NEW term \in Terms, users' \subseteq Users, FilterUser(term)
      PROVE  results' \subseteq Users /\ rows' \subseteq Users /\ hidden' \in BOOLEAN
    <2>1. results' \subseteq Users /\ rows' \subseteq Users
        BY <1>1, <1>5 DEF FilterUser
    <2>2. hidden' \in BOOLEAN
        BY <1>5, Zenon DEF FilterUser
    <2> QED
        BY <2>1, <2>2
<1>6. ASSUME NEW term \in Terms, SearchButtonClicked(term)
      PROVE  SearchTypeOK'
    <2>1. /\ searches < MaxSearches /\ searches' = searches + 1
          /\ registered' = registered /\ hasFetched' = hasFetched /\ chosen' = chosen
        BY <1>6, Zenon DEF SearchButtonClicked
    <2>2. searches' \in 0..MaxSearches
        BY <1>1, <1>3, <2>1
    <2>3. CASE hasFetched
        <3>1. /\ spinner' = HudDismiss(HudShow(spinner)) /\ users' = users /\ asked' = asked
              /\ FilterUser(term)
            BY <1>6, <2>3, Zenon DEF SearchButtonClicked
        <3>2. results' \subseteq Users /\ rows' \subseteq Users /\ hidden' \in BOOLEAN
            BY <1>1, <1>5, <3>1
        <3> QED
            BY <1>1, <1>2, <1>4, <2>1, <2>2, <3>1, <3>2, Zenon DEF SearchTypeOK
    <2>4. CASE ~hasFetched
        <3>1. /\ spinner' = HudShow(spinner) /\ results' = {} /\ asked' = Append(asked, term)
              /\ users' = users /\ hidden' = hidden /\ rows' = rows
            BY <1>6, <2>4, Zenon DEF SearchButtonClicked
        <3>2. asked' \in Seq(Terms) /\ results' \subseteq Users
            BY <1>1, <3>1
        <3> QED
            BY <1>1, <1>2, <1>4, <2>1, <2>2, <3>1, <3>2, Zenon DEF SearchTypeOK
    <2> QED
        BY <2>3, <2>4
<1>7. CASE UsersArriveAtSearch
    <2>1. /\ asked # <<>> /\ asked' = Tail(asked) /\ spinner' = HudDismiss(spinner)
          /\ registered' = registered /\ searches' = searches /\ chosen' = chosen
        BY <1>7, Zenon DEF UsersArriveAtSearch
    <2>2. asked' \in Seq(Terms) /\ Head(asked) \in Terms
        BY <1>1, <2>1
    <2>3. CASE registered = {}
        <3>1. /\ hasFetched' = hasFetched /\ users' = users /\ results' = results
              /\ hidden' = hidden /\ rows' = rows
            BY <1>7, <2>3, Zenon DEF UsersArriveAtSearch
        <3> QED
            BY <1>1, <1>2, <1>4, <2>1, <2>2, <3>1, Zenon DEF SearchTypeOK
    <2>4. CASE registered # {}
        <3>1. hasFetched' = TRUE /\ users' = registered /\ FilterUser(Head(asked))
            BY <1>7, <2>4 DEF UsersArriveAtSearch
        <3>2. results' \subseteq Users /\ rows' \subseteq Users /\ hidden' \in BOOLEAN
            BY <1>1, <1>5, <2>2, <3>1
        <3> QED
            BY <1>1, <1>4, <2>1, <2>2, <3>1, <3>2, Zenon DEF SearchTypeOK
    <2> QED
        BY <2>3, <2>4
<1>8. CASE SpinnerAnimated
    <2>1. HudAnimated(spinner) \in HudStates
        BY <1>1, <1>8, HudAnimatedTyped DEF SpinnerAnimated
    <2> QED
        BY <1>1, <1>2, <1>8, <2>1, Zenon DEF SpinnerAnimated, SearchTypeOK
<1>9. CASE Registers
    <2>1. registered' \subseteq Users
        BY <1>1, <1>9 DEF Registers
    <2> QED
        BY <1>1, <1>2, <1>9, <2>1, Zenon DEF Registers, SearchTypeOK
<1>10. ASSUME NEW u \in Users, SelectRow(u)
       PROVE  SearchTypeOK'
    <2>1. chosen' \subseteq Users
        BY <1>1, <1>10 DEF SelectRow
    <2> QED
        BY <1>1, <1>2, <1>10, <2>1, Zenon DEF SelectRow, SearchTypeOK
<1>11. CASE UNCHANGED searchVars
    BY <1>1, <1>2, <1>11, Zenon DEF searchVars, SearchTypeOK
<1> QED
    BY <1>6, <1>7, <1>8, <1>9, <1>10, <1>11, Zenon DEF SearchNext

\* The lists of posts and the numbers of fetches and reloads
FeedListed ==
    /\ published \in 0..MaxPosts
    /\ models \in Seq(1..MaxPosts) /\ handler \in Seq(1..MaxPosts)
    /\ answer \in Seq(1..MaxPosts)
    /\ drawn \in Nat /\ fetches \in Nat /\ reloads \in Nat
    /\ fetched \in 1..MaxFetches

FeedFlagged ==
    /\ refreshing \in BOOLEAN /\ running \in BOOLEAN
    /\ empty \in BOOLEAN /\ overlapped \in BOOLEAN

LEMMA PostMoves ==
    ASSUME NEW S, NEW m \in Seq(S), NEW h \in Seq(S), h # <<>>
    PROVE  Append(m, Head(h)) \in Seq(S) /\ Tail(h) \in Seq(S)
<1>1. Head(h) \in S
    OBVIOUS
<1> QED
    BY <1>1

LEMMA FeedTyped ==
    ASSUME FeedTypeOK, [FeedNext]_feedVars
    PROVE  FeedTypeOK'
<1>1. FeedListed
    BY DEF FeedTypeOK, FeedListed
<1>2. FeedFlagged
    BY Zenon DEF FeedTypeOK, FeedFlagged
<1>3. MaxPosts \in Nat /\ MaxFetches \in Nat
    BY FeedConstants
<1>4. FeedFlagged'
    <2>1. CASE DidPullToRefresh
        BY <1>2, <2>1, Zenon DEF DidPullToRefresh, FeedFlagged
    <2>2. CASE AnyAnswer
        BY <1>2, <2>2, Zenon DEF AnyAnswer, AnswerIsEmpty, AnswerFails, AnswerArrives, FeedFlagged
    <2>3. CASE AppendPost \/ HandlerEnds \/ ReloadPosts
        BY <1>2, <2>3, Zenon DEF AppendPost, HandlerEnds, ReloadPosts, FeedFlagged
    <2>4. CASE Publish \/ UNCHANGED feedVars
        BY <1>2, <2>4, Zenon DEF Publish, feedVars, FeedFlagged
    <2> QED
        BY <2>1, <2>2, <2>3, <2>4 DEF FeedNext
<1>5. FeedListed'
    <2>1. CASE DidPullToRefresh
        <3>1. fetched' \in 1..MaxFetches /\ fetches' \in Nat
            BY <1>1, <1>3, <2>1 DEF DidPullToRefresh, FeedListed
        <3>2. models' \in Seq(1..MaxPosts)
            BY <2>1 DEF DidPullToRefresh
        <3>3. UNCHANGED <<published, handler, answer, drawn, reloads>>
            BY <2>1 DEF DidPullToRefresh
        <3> QED
            BY <1>1, <3>1, <3>2, <3>3 DEF FeedListed
    <2>2. CASE AnswerIsEmpty
        BY <1>1, <2>2 DEF AnswerIsEmpty, FeedListed
    <2>3. CASE AnswerFails
        BY <1>1, <2>3 DEF AnswerFails, FeedListed
    <2>4. CASE AnswerArrives
        <3>1. [i \in 1..published |-> i] \in Seq(1..MaxPosts)
            <4>1. published \in Nat /\ published <= MaxPosts
                BY <1>1, <1>3 DEF FeedListed
            <4> QED
                BY <1>3, <4>1
        <3>2. handler' \in Seq(1..MaxPosts) /\ answer' \in Seq(1..MaxPosts)
            BY <2>4, <3>1 DEF AnswerArrives
        <3>3. fetches' \in Nat /\ UNCHANGED <<published, models, drawn, fetched, reloads>>
            BY <1>1, <2>4 DEF AnswerArrives, FeedListed
        <3> QED
            BY <1>1, <3>2, <3>3 DEF FeedListed
    <2>5. CASE AppendPost
        <3>1. models' \in Seq(1..MaxPosts) /\ handler' \in Seq(1..MaxPosts)
            BY <1>1, <2>5, PostMoves DEF AppendPost, FeedListed
        <3>2. UNCHANGED <<published, answer, drawn, fetches, fetched, reloads>>
            BY <2>5 DEF AppendPost
        <3> QED
            BY <1>1, <3>1, <3>2 DEF FeedListed
    <2>6. CASE HandlerEnds
        BY <1>1, <2>6 DEF HandlerEnds, FeedListed
    <2>7. CASE ReloadPosts
        BY <1>1, <2>7 DEF ReloadPosts, FeedListed
    <2>8. CASE Publish
        <3>1. published' \in 0..MaxPosts
            BY <1>1, <1>3, <2>8 DEF Publish, FeedListed
        <3>2. UNCHANGED <<models, handler, answer, drawn, fetches, fetched, reloads>>
            BY <2>8 DEF Publish
        <3> QED
            BY <1>1, <3>1, <3>2 DEF FeedListed
    <2>9. CASE UNCHANGED feedVars
        BY <1>1, <2>9 DEF feedVars, FeedListed
    <2> QED
        BY <2>1, <2>2, <2>3, <2>4, <2>5, <2>6, <2>7, <2>8, <2>9 DEF FeedNext, AnyAnswer
<1> QED
    BY <1>4, <1>5, Zenon DEF FeedTypeOK, FeedListed, FeedFlagged

LEMMA ArrayTyped ==
    ASSUME ArrayInv, ArrayInv', ArrayTypeOK, [ArrayNext]_arrayVars
    PROVE  ArrayTypeOK'
<1>1. /\ arrays' \in Seq(Arrays) /\ arrays' # <<>>
      /\ cached' \in 0..Newest' /\ current' \in 0..Newest'
      /\ mainQueue' \in Seq(Blocks') /\ shown' \in Seq(1..Newest')
    BY DEF ArrayInv, ArrayTypes, Newest
<1>2. ended' \in BOOLEAN
    <2>1. ended \in BOOLEAN
        BY Zenon DEF ArrayTypeOK
    <2> QED
        BY <2>1, Zenon DEF ArrayNext, arrayVars, PutArray, Appear, DataArrives, EventRuns,
                           ReloadRuns, Draw, Tap
<1>3. observers' \in 0..MaxAppearances
    <2>1. observers \in 0..MaxAppearances /\ MaxAppearances \in Nat
        BY ArrayConstants DEF ArrayTypeOK
    <2>2. CASE Appear
        BY <2>1, <2>2 DEF Appear
    <2>3. CASE ~Appear
        <3>1. observers' = observers
            BY <2>3, Zenon DEF ArrayNext, arrayVars, PutArray, DataArrives, EventRuns,
                               ReloadRuns, Draw, Tap
        <3> QED
            BY <2>1, <3>1
    <2> QED
        BY <2>2, <2>3
<1>4. opened' \subseteq [row : Elements, opens : Elements, early : BOOLEAN]
    <2>1. opened \subseteq [row : Elements, opens : Elements, early : BOOLEAN]
        BY Zenon DEF ArrayTypeOK
    <2>2. CASE Tap
        <3>1. PICK i \in DOMAIN shown :
                  \/ UNCHANGED opened
                  \/ /\ i \in DOMAIN Assigned
                     /\ opened' = {[row |-> Drawn[i], opens |-> Assigned[i],
                                    early |-> ReloadQueued]}
            BY <2>2, Zenon DEF Tap
        <3>2. ASSUME i \in DOMAIN Assigned
              PROVE  Drawn[i] \in Elements /\ Assigned[i] \in Elements
            <4>1. /\ i \in 1..Len(shown) /\ shown[i] \in 0..Newest
                  /\ i \in 1..Len(ArrayAt(shown[i])) /\ Drawn[i] = ArrayAt(shown[i])[i]
                BY RowsFit DEF ArrayInv, ArrayTypes, RowsDrawn, Drawn
            <4>2. ArrayAt(shown[i]) \in Seq(Elements) /\ Assigned \in Seq(Elements)
                BY <4>1, ArrayAtType DEF Assigned, ArrayInv, ArrayTypes
            <4> QED
                BY <3>2, <4>1, <4>2
        <3>3. ReloadQueued \in BOOLEAN
            BY Zenon DEF ReloadQueued
        <3>4. ASSUME NEW x \in Elements, NEW y \in Elements, NEW b \in BOOLEAN
              PROVE  [row |-> x, opens |-> y, early |-> b]
                         \in [row : Elements, opens : Elements, early : BOOLEAN]
            OBVIOUS
        <3>5. CASE UNCHANGED opened
            BY <2>1, <3>5, Zenon
        <3>6. CASE /\ i \in DOMAIN Assigned
                   /\ opened' = {[row |-> Drawn[i], opens |-> Assigned[i],
                                  early |-> ReloadQueued]}
            <4>1. [row |-> Drawn[i], opens |-> Assigned[i], early |-> ReloadQueued]
                      \in [row : Elements, opens : Elements, early : BOOLEAN]
                BY <3>2, <3>3, <3>4, <3>6, Zenon
            <4> QED
                BY <3>6, <4>1, Zenon
        <3> QED
            BY <3>1, <3>5, <3>6, Zenon
    <2>3. CASE ~Tap
        <3>1. opened' = opened
            BY <2>3, Zenon DEF ArrayNext, arrayVars, PutArray, Appear, DataArrives, EventRuns,
                               ReloadRuns, Draw
        <3> QED
            BY <2>1, <3>1
    <2> QED
        BY <2>2, <2>3
<1> QED
    BY <1>1, <1>2, <1>3, <1>4, Zenon DEF ArrayTypeOK, Blocks

\* The flags, the counters and the pictures of the input bar
ComposerFlagged == open \in BOOLEAN /\ hasId \in BOOLEAN /\ isNewConversation \in BOOLEAN

ComposerCounted ==
    /\ texts \in 0..MaxTexts
    /\ creating \in Nat /\ sending \in Nat
    /\ second \in 1..MaxSeconds
    /\ pictures \in 0..MaxPictures

ComposerSaved ==
    /\ uploads \subseteq Picking
    /\ pickedAt \in [1..MaxPictures -> 0..MaxSeconds]
    /\ files \in [0..MaxSeconds -> 0..MaxPictures]
    /\ photos \subseteq [picture : 1..MaxPictures, file : 0..MaxSeconds]

LEMMA ComposerTyped ==
    ASSUME ComposerTypeOK, [ComposerNext]_composerVars
    PROVE  ComposerTypeOK'
<1>1. ComposerFlagged
    BY Zenon DEF ComposerTypeOK, ComposerFlagged
<1>2. ComposerCounted /\ ComposerSaved
    BY DEF ComposerTypeOK, ComposerCounted, ComposerSaved
<1>3. MaxTexts \in Nat /\ MaxPictures \in Nat /\ MaxSeconds \in Nat \ {0}
    BY ComposerConstants
<1>4. ComposerFlagged' /\ ComposerCounted' /\ ComposerSaved' => ComposerTypeOK'
    BY Zenon DEF ComposerTypeOK, ComposerFlagged, ComposerCounted, ComposerSaved
<1>5. CASE ClockTicks
    <2>1. ComposerFlagged'
        BY <1>1, <1>5, Zenon DEF ClockTicks, ComposerFlagged
    <2>2. ComposerCounted' /\ ComposerSaved'
        BY <1>2, <1>3, <1>5 DEF ClockTicks, ComposerCounted, ComposerSaved
    <2> QED
        BY <1>4, <2>1, <2>2
<1>6. CASE PressSend
    <2>1. ComposerFlagged'
        BY <1>1, <1>6, Zenon DEF PressSend, ComposerFlagged
    <2>2. ComposerCounted' /\ ComposerSaved'
        BY <1>2, <1>3, <1>6 DEF PressSend, ComposerCounted, ComposerSaved
    <2> QED
        BY <1>4, <2>1, <2>2
<1>7. CASE SendEnds
    <2>1. ComposerFlagged'
        BY <1>1, <1>7, Zenon DEF SendEnds, ComposerFlagged
    <2>2. ComposerCounted' /\ ComposerSaved'
        BY <1>2, <1>3, <1>7 DEF SendEnds, ComposerCounted, ComposerSaved
    <2> QED
        BY <1>4, <2>1, <2>2
<1>8. CASE PickPicture
    <2>1. ComposerFlagged'
        BY <1>1, <1>8, Zenon DEF PickPicture, ComposerFlagged
    <2>2. /\ pictures' \in 1..MaxPictures /\ second \in 0..MaxSeconds
          /\ pickedAt' \in [1..MaxPictures -> 0..MaxSeconds]
          /\ UNCHANGED <<texts, creating, sending, second, files, photos>>
        BY <1>2, <1>3, <1>8 DEF PickPicture, ComposerCounted, ComposerSaved
    <2>3. ComposerCounted'
        BY <1>2, <1>3, <2>2 DEF ComposerCounted
    <2>4. [picture |-> pictures', file |-> FileName(second), step |-> "upload"] \in Picking
        BY <2>2 DEF Picking, FileName
    <2>5. uploads' \subseteq Picking
        BY <1>2, <1>8, <2>4 DEF PickPicture, ComposerSaved
    <2> QED
        BY <1>2, <1>4, <2>1, <2>2, <2>3, <2>5 DEF ComposerSaved
<1>9. CASE Close
    <2>1. ComposerFlagged'
        BY <1>1, <1>9, Zenon DEF Close, ComposerFlagged
    <2>2. ComposerCounted' /\ ComposerSaved'
        BY <1>2, <1>3, <1>9 DEF Close, ComposerCounted, ComposerSaved
    <2> QED
        BY <1>4, <2>1, <2>2
<1>10. ASSUME NEW success \in BOOLEAN, CreationEnds(success)
       PROVE  ComposerTypeOK'
    <2>1. ComposerFlagged'
        BY <1>1, <1>10, Zenon DEF CreationEnds, ComposerFlagged
    <2>2. ComposerCounted' /\ ComposerSaved'
        BY <1>2, <1>3, <1>10 DEF CreationEnds, ComposerCounted, ComposerSaved
    <2> QED
        BY <1>4, <2>1, <2>2
<1>11. ASSUME NEW success \in BOOLEAN, NEW u \in uploads, UploadEnds(u, success)
       PROVE  ComposerTypeOK'
    <2>1. ComposerFlagged'
        BY <1>1, <1>11, Zenon DEF UploadEnds, ComposerFlagged
    <2>2. u \in Picking /\ u.picture \in 0..MaxPictures
        <3>1. u \in Picking
            BY <1>2 DEF ComposerSaved
        <3>2. u.picture \in 1..MaxPictures
            BY <3>1 DEF Picking
        <3> QED
            BY <1>3, <3>1, <3>2
    <2>3. files' \in [0..MaxSeconds -> 0..MaxPictures]
        BY <1>2, <1>11, <2>2 DEF UploadEnds, ComposerSaved
    <2>4. [u EXCEPT !.step = "url"] \in Picking
        BY <2>2 DEF Picking
    <2>5. uploads' \subseteq Picking
        BY <1>2, <1>11, <2>4 DEF UploadEnds, ComposerSaved
    <2>6. UNCHANGED <<texts, creating, sending, second, pickedAt, pictures, photos>>
        BY <1>11 DEF UploadEnds
    <2> QED
        BY <1>2, <1>4, <2>1, <2>3, <2>5, <2>6 DEF ComposerCounted, ComposerSaved
<1>12. ASSUME NEW success \in BOOLEAN, NEW u \in uploads, UrlArrives(u, success)
       PROVE  ComposerTypeOK'
    <2>1. ComposerFlagged'
        BY <1>1, <1>12, Zenon DEF UrlArrives, ComposerFlagged
    <2>2. u \in Picking
        BY <1>2 DEF ComposerSaved
    <2>3. [picture |-> u.picture, file |-> u.file]
              \in [picture : 1..MaxPictures, file : 0..MaxSeconds]
        BY <2>2 DEF Picking
    <2>4. /\ photos' \subseteq [picture : 1..MaxPictures, file : 0..MaxSeconds]
          /\ sending' \in Nat
        BY <1>2, <1>12, <2>3 DEF UrlArrives, ComposerSaved, ComposerCounted
    <2>5. uploads' \subseteq Picking
        BY <1>2, <1>12 DEF UrlArrives, ComposerSaved
    <2>6. UNCHANGED <<texts, creating, second, pickedAt, pictures, files>>
        BY <1>12 DEF UrlArrives
    <2> QED
        BY <1>2, <1>4, <2>1, <2>4, <2>5, <2>6 DEF ComposerCounted, ComposerSaved
<1>13. CASE UNCHANGED composerVars
    <2>1. ComposerFlagged'
        BY <1>1, <1>13, Zenon DEF composerVars, ComposerFlagged
    <2>2. ComposerCounted' /\ ComposerSaved'
        BY <1>2, <1>13 DEF composerVars, ComposerCounted, ComposerSaved
    <2> QED
        BY <1>4, <2>1, <2>2
<1> QED
    BY <1>5, <1>6, <1>7, <1>8, <1>9, <1>10, <1>11, <1>12, <1>13, Zenon DEF ComposerNext

\* A behaviour of one screen leaves the others as they begin
LEMMA ScreensStep ==
    ASSUME ScreensTypeOK, ArrayInv, [Next]_allVars
    PROVE  ScreensTypeOK' /\ ArrayInv'
<1>1. SearchTypeOK /\ FeedTypeOK /\ ArrayTypeOK /\ ComposerTypeOK
    BY DEF ScreensTypeOK
<1>2. /\ [SearchNext]_searchVars /\ [FeedNext]_feedVars
      /\ [ArrayNext]_arrayVars /\ [ComposerNext]_composerVars
    BY Zenon DEF Next, allVars, Search, Feed, Array, Compose
<1>3. ArrayInv'
    BY <1>2, ArrayStep
<1> QED
    BY <1>1, <1>2, <1>3, SearchTyped, FeedTyped, ArrayTyped, ComposerTyped DEF ScreensTypeOK

\* For any number of users, posts, elements, texts and pictures, the state of
\* every screen keeps its types: no counter of fetches, reloads, uploads or
\* calls without an answer goes below zero, and every picture on its way has a
\* file of its second.
THEOREM ScreensTyped == Init /\ [][Next]_allVars => []ScreensTypeOK
<1>1. Init => ScreensTypeOK /\ ArrayInv
    <2> SUFFICES ASSUME Init PROVE ScreensTypeOK /\ ArrayInv
        OBVIOUS
    <2>1. SearchInit /\ FeedInit /\ ArrayInit /\ ComposerInit
        BY DEF Init
    <2>2. ArrayInv
        BY <2>1, ArrayStarts
    <2>3. SearchTypeOK
        <3>1. hasFetched \in BOOLEAN /\ hidden \in BOOLEAN
            BY <2>1, Zenon DEF SearchInit
        <3>2. /\ registered \subseteq Users /\ users \subseteq Users
              /\ results \subseteq Users /\ rows \subseteq Users
              /\ spinner \in HudStates /\ asked \in Seq(Terms)
              /\ searches \in 0..MaxSearches /\ chosen \subseteq Users
            BY <2>1, SearchConstants DEF SearchInit, Hidden, HudStates
        <3> QED
            BY <3>1, <3>2, Zenon DEF SearchTypeOK
    <2>4. FeedTypeOK
        <3>1. FeedFlagged
            BY <2>1, Zenon DEF FeedInit, FeedFlagged
        <3>2. FeedListed
            BY <2>1, FeedConstants DEF FeedInit, FeedListed
        <3> QED
            BY <3>1, <3>2, Zenon DEF FeedTypeOK, FeedListed, FeedFlagged
    <2>5. ArrayTypeOK
        <3>1. ended \in BOOLEAN
            BY <2>1, Zenon DEF ArrayInit
        <3>2. /\ arrays \in Seq(Arrays) /\ arrays # <<>>
              /\ cached \in 0..Newest /\ current \in 0..Newest
              /\ mainQueue \in Seq(Blocks) /\ shown \in Seq(1..Newest)
            BY <2>2 DEF ArrayInv, ArrayTypes, Newest
        <3>3. /\ observers \in 0..MaxAppearances
              /\ opened \subseteq [row : Elements, opens : Elements, early : BOOLEAN]
            BY <2>1, ArrayConstants DEF ArrayInit
        <3> QED
            BY <3>1, <3>2, <3>3, Zenon DEF ArrayTypeOK, Blocks
    <2>6. ComposerTypeOK
        <3>1. ComposerFlagged
            BY <2>1, Zenon DEF ComposerInit, ComposerFlagged
        <3>2. ComposerCounted /\ ComposerSaved
            BY <2>1, ComposerConstants DEF ComposerInit, ComposerCounted, ComposerSaved
        <3> QED
            BY <3>1, <3>2, Zenon DEF ComposerTypeOK, ComposerFlagged, ComposerCounted, ComposerSaved
    <2> QED
        BY <2>2, <2>3, <2>4, <2>5, <2>6 DEF ScreensTypeOK
<1> QED
    BY <1>1, ScreensStep, PTL
=============================================================================

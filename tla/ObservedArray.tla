---------------------------- MODULE ObservedArray ----------------------------
(***************************************************************************)
(* What ConversationsViewController and ChatViewController do with an      *)
(* array they observe: an event's block, on the main queue, assigns the    *)
(* whole array and queues a reload; rows are drawn at the reload and       *)
(* whenever they scroll into view.  The chat screen adds an observer each  *)
(* time it appears and removes none.                                       *)
(*                                                                         *)
(* The array at the path is put back whole by several devices, from reads  *)
(* that may be old (ChatDatabase): the next one may be shorter, or have    *)
(* any other element at an index.  A row indexes the array of the moment,  *)
(* so between an assignment and its reload a tap may open another          *)
(* conversation, and a tap or a draw may end the app.                      *)
(***************************************************************************)
EXTENDS Naturals, Sequences

CONSTANTS
    Elements,       \* conversations with a latest message, or messages
    MaxElements, MaxPuts,
    MaxAppearances

ASSUME ArrayConstants ==
    MaxElements \in Nat /\ MaxPuts \in Nat /\ MaxAppearances \in Nat

VARIABLES
    arrays,      \* the arrays that the path has had, the last is there now
    cached,      \* which of them the device's client has, 0: none yet
    observers,
    mainQueue,   \* blocks: events with an array's number, and reloads
    current,     \* the number of self.conversations or self.messages
    shown,       \* shown[i]: the array that row i was drawn from
    opened,      \* the last tap: none or one
    ended        \* an index was out of range: the app is gone

arrayVars == <<arrays, cached, observers, mainQueue, current, shown, opened, ended>>

\* <<>> is also a value that is no array, or one without an element that can
\* be parsed: the blocks ignore all of them alike
Arrays == UNION {[1..n -> Elements] : n \in 0..MaxElements}

\* An array by its number; the view controllers begin with an empty one
ArrayAt(k) == IF k = 0 THEN <<>> ELSE arrays[k]
Newest == Len(arrays)
Assigned == ArrayAt(current)

\* What the rows show
Drawn == [i \in DOMAIN shown |-> ArrayAt(shown[i])[i]]

Event(k) == [kind |-> "event", array |-> k]
Reload == [kind |-> "reload"]
ReloadQueued == \E k \in DOMAIN mainQueue : mainQueue[k] = Reload

ArrayInit ==
    /\ \E array \in Arrays : arrays = <<array>>
    /\ cached = 0
    /\ observers = 0
    /\ mainQueue = <<>>
    /\ current = 0 /\ shown = <<>>
    /\ opened = {} /\ ended = FALSE

\* Some device stores another array, which the device here sees at once where
\* the put is its own
PutArray ==
    /\ Newest <= MaxPuts
    /\ \E array \in Arrays :
           array # ArrayAt(Newest) /\ arrays' = Append(arrays, array)
    /\ UNCHANGED <<cached, observers, mainQueue, current, shown, opened, ended>>

\* Mutant: the first event of an observer does not wait for its turn
AppearFirst ==
    /\ ~ended
    /\ observers < MaxAppearances
    /\ observers' = observers + 1
    /\ mainQueue' = IF cached = 0 THEN mainQueue
                    ELSE <<Event(cached)>> \o mainQueue
    /\ UNCHANGED <<arrays, cached, current, shown, opened, ended>>

\* viewDidAppear, viewDidLoad: observe.  A client that has the array raises
\* the first event from its cache.
Appear ==
    /\ ~ended
    /\ observers < MaxAppearances
    /\ observers' = observers + 1
    /\ mainQueue' = IF cached = 0 THEN mainQueue
                    ELSE Append(mainQueue, Event(cached))
    /\ UNCHANGED <<arrays, cached, current, shown, opened, ended>>

\* The client gets the array: an event for every observer, if it is another
DataArrives ==
    /\ ~ended
    /\ observers > 0
    /\ cached # Newest
    /\ cached' = Newest
    /\ mainQueue' = IF cached # 0 /\ ArrayAt(cached) = ArrayAt(Newest) THEN mainQueue
                    ELSE mainQueue \o [i \in 1..observers |-> Event(Newest)]
    /\ UNCHANGED <<arrays, observers, current, shown, opened, ended>>

\* Mutant: the rows are drawn before the array is assigned
EventRunsReloadFirst ==
    /\ ~ended
    /\ mainQueue # <<>> /\ Head(mainQueue).kind = "event"
    /\ mainQueue' = Tail(mainQueue)
    /\ IF ArrayAt(Head(mainQueue).array) = <<>>
       THEN UNCHANGED <<current, shown>>
       ELSE /\ shown' = [i \in DOMAIN Assigned |-> current]
            /\ current' = Head(mainQueue).array
    /\ UNCHANGED <<arrays, cached, observers, opened, ended>>

\* The block of observe: assigns an array that is not empty
EventRuns ==
    /\ ~ended
    /\ mainQueue # <<>> /\ Head(mainQueue).kind = "event"
    /\ IF ArrayAt(Head(mainQueue).array) = <<>>
       THEN mainQueue' = Tail(mainQueue) /\ UNCHANGED current
       ELSE /\ current' = Head(mainQueue).array
            /\ mainQueue' = Append(Tail(mainQueue), Reload)
    /\ UNCHANGED <<arrays, cached, observers, shown, opened, ended>>

\* reloadData
ReloadRuns ==
    /\ ~ended
    /\ mainQueue # <<>> /\ Head(mainQueue).kind = "reload"
    /\ mainQueue' = Tail(mainQueue)
    /\ shown' = [i \in DOMAIN Assigned |-> current]
    /\ UNCHANGED <<arrays, cached, observers, current, opened, ended>>

\* A row scrolls into view: cellForRowAt
Draw ==
    /\ ~ended
    /\ \E i \in DOMAIN shown :
           \/ i \in DOMAIN Assigned
              /\ shown' = [shown EXCEPT ![i] = current] /\ UNCHANGED ended
           \/ i \notin DOMAIN Assigned
              /\ ended' = TRUE /\ UNCHANGED shown
    /\ UNCHANGED <<arrays, cached, observers, mainQueue, current, opened>>

\* didSelectRowAt
Tap ==
    /\ ~ended
    /\ \E i \in DOMAIN shown :
           \/ /\ i \in DOMAIN Assigned
              /\ opened' = {[row |-> Drawn[i], opens |-> Assigned[i],
                             early |-> ReloadQueued]}
              /\ UNCHANGED ended
           \/ i \notin DOMAIN Assigned
              /\ ended' = TRUE /\ UNCHANGED opened
    /\ UNCHANGED <<arrays, cached, observers, mainQueue, current, shown>>

ArrayNext == \/ PutArray \/ Appear \/ DataArrives \/ EventRuns
             \/ ReloadRuns \/ Draw \/ Tap

ArraySpec == ArrayInit /\ [][ArrayNext]_arrayVars

ArrayFairness == /\ WF_arrayVars(DataArrives)
                 /\ WF_arrayVars(EventRuns) /\ WF_arrayVars(ReloadRuns)

----------------------------------------------------------------------------

ArrayTypeOK ==
    /\ arrays \in Seq(Arrays) /\ arrays # <<>>
    /\ cached \in 0..Newest /\ current \in 0..Newest
    /\ observers \in 0..MaxAppearances
    /\ mainQueue \in Seq([kind : {"event"}, array : 1..Newest] \cup {Reload})
    /\ shown \in Seq(1..Newest)
    /\ opened \subseteq [row : Elements, opens : Elements, early : BOOLEAN]
    /\ ended \in BOOLEAN

\* Whatever array is put over another, and however many observers bring it: as
\* long as no reload is queued every row shows the element at its index, so
\* that a tap opens what its row shows and no index is out of range; and at
\* rest the screen has the array that the client has, unless that is empty.
\* (While a reload is queued the code promises none of it.)
RowsStandForElements ==
    /\ ReloadQueued \/ Drawn = Assigned
    /\ \A o \in opened : o.early \/ o.row = o.opens
    /\ ended => ReloadQueued
    /\ mainQueue = <<>> /\ cached # 0 /\ ArrayAt(cached) # <<>>
           => Drawn = ArrayAt(cached)

\* Events of several observers, first ones from the cache among them, never
\* bring back an older array, nor a row of one.
ScreenGoesForward ==
    [][/\ current <= current'
       /\ \A i \in DOMAIN shown \cap DOMAIN shown' : shown[i] <= shown'[i]]_arrayVars

\* What is stored last is shown in the end, unless it is empty or the app has
\* ended (puts are bounded).
StoredIsShown ==
    <>[](ended \/ observers = 0 \/ ArrayAt(Newest) = <<>> \/ Drawn = ArrayAt(Newest))
=============================================================================

# TLA+ models of Hackathon

Hackathon is an iOS app (Swift, UIKit) in which developers look for members of
a school project team: posts with pictures, a user search, and a chat on top of
the Firebase Realtime Database. The program is `src/Hackathon/Hackathon/`
(about 3500 lines of Swift); `Pods/` is third-party code and
`src/Hackathon1` an older copy of the project. Paths below are relative to
`src/Hackathon/Hackathon/`.

The modules in this directory are specifications of that code, the `.cfg`
files the instances TLC checks, the modules named `...Proofs` the proofs TLAPS
checks, and `PROJECT.json` the index: runs, mutants, the lines each definition
stands for, hazards, findings and theorems.

| Part | Specification | Abstract specification | Instances | Proofs |
|---|---|---|---|---|
| conversations | `ChatDatabase` | `ConversationLog` | `MCChatDatabase` | `ChatDatabaseProofs`, `RowsProofs`, `SerialProofs` |
| accounts and sign-in | `Accounts` | `ConversationLog` | `MCAccounts` | `AccountsProofs`, `SessionProofs` |
| Firebase's client | `WriteTree`, `RealtimeClient` | `PutQueue` | `MCRealtimeClient` | `WriteTreeProofs`, `RealtimeClientProofs` |
| screens | `UserSearch` (with `ProgressHUD`), `PostFeed`, `ObservedArray`, `Composer` | - | `MCScreens` | `ScreensProofs` |

## Inventory

| Component | State it keeps | Operations | What is hard | What makes it correct |
|---|---|---|---|---|
| `Resources/DatabaseManager.swift`, conversations | in the tree: one list of rows per user, one message array per conversation; in the client: outstanding `setValue`s; per call: the callback it waits for | `createNewConversation`, `finishCreatingConversation`, `sendMessage`, `getAllConversations`, `getAllMessagesForConversation` | each is a chain of read-copy-write callbacks over whole arrays, from several devices, with lost answers, repeated puts, errors and ended apps | arrays stay ordered and keep their opening, rows name the other party, previews are of stored messages, an answer means the writes are done, every call is answered |
| the same file, accounts | user nodes, the user collection | `insertUser`, `userExists`, `getAllUsers` | read-modify-write of the collection; a check whose cast never succeeds | no account is lost from the collection, a node's conversations survive a sign-in |
| `AppDelegate.swift`, `ViewController/Login/`, `ViewController/ProfileViewController.swift`: sign-in, session, logout | the Firebase user, `UserDefaults` (`email`, `name`, token) | Google sign-in, e-mail sign-in, logout, start-up check | callbacks of the two services in either order; values left from the last session | the cached e-mail is that of the signed-in user |
| `ViewController/Login/RegisterViewController.swift` | form | one HTTP request | its answer | - |
| `message/ChatViewController.swift` | `isNewConversation`, `conversationid`, the messages shown, observers | input bar, photo messages, `listenForMessages` | flags changed in completion blocks; observers added at each appearance | what the user sends is sent or kept; what is shown is what is stored |
| `message/ConversationsViewController.swift`, `ConversationTableViewCell.swift` | rows, a login observer | listen, open a row, open a search result, reused cells | late answers | a row shows its own conversation |
| `message/NewConversationViewController.swift` | `users`, `results`, `hasFetched` | search, filter, select | a second search before the first fetch has answered; results emptied without a reload | results answer the last query; a selected row exists |
| `Resources/StorageManager.swift`, profile picture | uploaded files | upload, then download URL | two steps, either may fail | a URL is that of the uploaded file |
| `ViewController/main/` | `models`, a refresh control | fetch posts, like, images in reused cells | overlapping fetches that append from background threads; late images | each post once; refreshing ends; a cell shows its own post |
| `ViewController/AddViewController.swift` | form, image URL | send post, upload image | the alert precedes the answer, the upload follows it | nothing that the code relates: see *Not modelled* |
| Firebase's realtime client (`Pods/FirebaseDatabase`), below every read and `setValue` | connection, outstanding puts, listens, the local writes | `putInternal`, `listen`, `onDisconnect`, `restoreState`, `tryScheduleReconnect`, `addOverwrite`, `removeWriteId` | attempts, fetches of tokens and interrupts that overlap; puts sent again; blocks that wait for listens | the server gets the puts in order, the blocks run once and in order, the client never gives up |
| static screens, view models, `Extension.swift`, `SceneDelegate.swift`, storyboards | - | - | - | no behaviour over several steps: not modelled |

The components interact through the database tree (the chat operations read the
nodes that the sign-in inserts), through `UserDefaults` (every chat operation
reads the e-mail, a creation the name), and through closures: the conversation
list opens a chat screen with a conversation id or, from the user search, with
none; the chat screen calls `createNewConversation` or `sendMessage`.

## Plan

Built, in this order:

1. `ChatDatabase`: the conversation operations over Firebase's client and server.
2. `ConversationLog`: what they promise when calls do not overlap, with the
   refinement from 1.
3. `ChatDatabaseProofs`: types, message order and openings for every instance;
   `RowsProofs`, built on it, the rows and the acknowledgements; `SerialProofs`,
   built on both, the calls that do not overlap and the refinement of 2.
4. `Accounts`, `AccountsProofs`: sign-in, `insertUser`, session and logout; the
   user collection implements `ConversationLog` too when sign-ins do not overlap.
   `SessionProofs` adds the cached e-mail.
5. `WriteTree`, `RealtimeClient`, `PutQueue`: the client below 1 and 4, which both
   assume a queue of puts; the refinement shows that the client is one.
   `WriteTreeProofs` and `RealtimeClientProofs` prove it.
6. `UserSearch`, `PostFeed`, `ObservedArray`, `Composer`: the screens, with
   `ScreensProofs`.

Dropped from the plan: a composition of `Accounts` and `ChatDatabase`. What the
two share is the node of an account, and `accounts_again` already shows what an
insertion does to it (`Converse` stands for the chat's writes there); the
conversation properties do not survive that, so a composition would only
repeat the finding. The screens share no state with each other; their calls
are the presses of `ChatDatabase` and the sign-ins of `Accounts`. The post
editor and reused cells: see *Not modelled*.

Every invariant, action property and refinement that a passing run checks is
also a theorem; the liveness properties are not (see *Only model-checked*).

## The conversation model

### ChatDatabase.tla

One action is one callback of `DatabaseManager`, with everything the block does.

| Code | Model |
|---|---|
| `<user>/conversations` | `convs[u]`: absent, an array of rows, or the string that line 200 may store |
| `<conversation>/messages` | `msgs[c]`: the calls whose messages it holds, `<<>>` when absent |
| outstanding `setValue`s of a device, and how many of them the server has stored on this connection | `outbox[u]`, `applied[u]` |
| the callback a call waits for; its arguments; the update of the recipient's list that nobody waits for | `pc[o]`, `req[o]`, `peer[o]` |
| rows the conversation screen has offered to open | `shown[u]` |
| what the device has heard of the paths its screens observe | `heardList[u]`; `late[u]`, `heardLogs[u]` |
| - (history) | `told`, `stamp`, `clock`: the writes done, when the array was composed |

`CreateNewConversation` and `SendMessage` are the presses of the send button.
`UserNodeArrives`, `PeerListArrives`, `LogArrives` and `RowsArrive` are the
blocks of `observeSingleEvent`; `FinishCreatingConversation` and `Completed`
the completion blocks of `setValue`, `Refused` the same blocks with an error.
`RowsArrive` stands for the two blocks that replace the latest message of a row
(lines 452-480 and 482-520), which do the same to the sender's and to the
recipient's list. `sendMessage` repeats the answer of the last put; that is the
`ok` after `theirs`.

External behaviour, as the code uses it: a `setValue` is queued on the device;
the server stores and answers the puts of one connection in order
(`ServerApplies`); the device reads its own outstanding puts (`ListOn`,
`LogOn`); a connection may be lost at any time and every put without an answer
is sent again (`Reconnects`), so a put may be stored twice, the second time
over something newer; persistence is not enabled, so the end of the process
drops the queue (`Kill`, `Quit`). A put refused by the server is rolled back.

Reads. `observeSingleEvent` is answered by the device itself where an observer is
at the path already (`FSyncTree.m:480`), and else by the server. The conversation
list observes the device's own list for good (`ConversationsViewController.swift:67`),
and a chat screen opened from a row observes `<id>/messages` (`ChatViewController.swift:192`)
and never stops. So `SeenList` and `SeenLog` are the device's own outstanding put, else what it has
heard last: its own list (`heardList`), and the messages of the conversations in
`late`, of which it has not heard the latest (`heardLogs`; for all others it goes by what is
stored). `Observes` says which conversations a device may have opened. The list of another
user and the whole user node (`NodeList`) are observed by no screen and come from the server.
(A device belongs to one account here.)

A device hears of a put at once or later (`MayMiss`, `HeardBy`, `HearsList`, `HearsLog`), with one
restriction that the protocol gives: everything comes over one connection in order, so
what the server had stored before a device's own put reaches that device before the
answer to the put. The model lets it arrive as soon as the put is stored: an older value read
between that and the answer is the same read just before the server stored the put,
which changes nothing on the device. A device that hears late of several puts
goes by the messages before the first of them until it hears of the last. The states
between are those of a device that hears of the first puts at once and of the rest late.

This is why a call that begins when nothing else is in progress may still read an old
array. `Prompt` is the hypothesis that it does not: a text is sent from a device that
has heard of the messages stored in its conversation. Neither `Serial` nor `Prompt` is
something that the code makes sure of. The properties that need them
(`SentMessageStored`, `ImplementsLogs`) say what faults and repeated puts alone cannot do,
and `chat_lost_message` shows the loss under `Serial` without `Prompt`. All other
properties of the conversations, `PreviewFollowsLast` among them, hold with stale reads.

`FinishCreatingConversation` leaves out the early `completion(false)` for a missing `email`
(lines 269-272): the call began with one, and nothing removes it.

A message, an account and a date are model values. A conversation id keeps its
three parts (`createMessageId`: the two accounts and the date), because
uniqueness depends on them. Dates with a `.` matter (Firebase raises on a path
that contains one) and are the constant `DottedLocale`: accounts whose device
writes such dates. `Registered` are the accounts with a node, `Named` those with a
`name` in `UserDefaults`, `Faulty` those that may fail, which is how a run says
who is not to blame.

### ConversationLog.tla

The promise of the operations when calls do not overlap and devices have heard of what
is stored: each conversation's messages are a log that only grows at its end, one
message at a time.
`ImplementsLogs` (in `ChatDatabase`) is its specification with `log <- msgs`,
`ImplementsDirectory` (in `Accounts`) with the array at `users` as the only log.
Without these hypotheses the code does not implement it (see `chat_lost_message`).

## The account model

### Accounts.tla

| Code | Model |
|---|---|
| keys below an account's node | `node[a]` |
| the array at `users`; an entry is named by the sign-in that made it | `users` |
| queues of `setValue`s, as in `ChatDatabase` | `outbox[d]`, `applied[d]` |
| the account, device and kind of a sign-in | `who[s]`, `dev[s]`, `how[s]` |
| the chain `userExists`, `insertUser` | `ins[s]` |
| the chain `Auth.signIn`, its block, `getDataFor` | `auth[s]` |
| whether the block's `self` is still there | `alive[s]` |
| `Auth.currentUser`; `email` and `name` in `UserDefaults` | `current[d]`, `email[d]`, `name[d]` |
| the login screen, and the screen below it | `login[d]`, `front[d]` |

`GoogleSignIn` is `AppDelegate.sign`: it sets `email` and starts both chains.
`PasswordSignIn` is `loginButtonTapped`. Firebase Auth sets the current user
first (`AuthGrants`) and calls the completion block on the main queue later
(`GoogleCompletes`, `PasswordCompletes`), so taps, logouts and other blocks come in between. A
dismissed login screen is deallocated, and the block of a password sign-in then
returns at `strongSelf`; the notification of a Google sign-in dismisses whatever
login screen there is. `validateAuth` runs when the main screen appears
(`Dismiss`, `Navigate`, `Restart`), not on the profile screen, where the logout
is. `Converse` stands for what `createNewConversation` does to a node: somebody else's puts
a list below it (`OtherConverses`); the account's own reads the whole node (`NodeRead`) and puts it
back with a row later (`NodeStored`, with `draft[a]` in between), perhaps over a newer
one and, since its place in the device's queue is left out, any number of times.
Therefore `NodeBeforeEntry` asks for a node, not for the names of the latest insertion.

`userExists` casts the node to `String`; a node is a dictionary or nothing, so
`Exists` is `FALSE` for every node. `insertUser` writes `firset_name`, and
`loginButtonTapped` reads `first_name`: with nodes that this code has written
`name` is never set, and `createNewConversation` returns without an answer
(line 134). `Older` are accounts whose node has `first_name` from elsewhere,
the only ones for which `NameArrives` sets `name`.

`SessionMatches` needs its two restrictions, `Patient` and `Restarting`: TLC
finds a counterexample without either. A second Google sign-in that is tapped
while the first waits for Auth leaves `email` at the second account when the
first one dismisses the screen; and an app that ends between Auth's grant and
the block of a password sign-in starts with a current user and the `email` of
before, or none. The program does not say that it excludes these, so they are
stated here and not as findings. In the second case the `fatalError` of
`message/ChatViewController.swift:326` is still not reached: without `email` the
conversation list listens to nothing, so no chat screen has messages to show.

## The client model

`ChatDatabase` and `Accounts` take `setValue` to be a queue: the server stores and
answers the puts of a connection in order, a lost connection forgets which of
the unanswered ones it stored, the completion blocks run in order, and a read on
the device sees its own outstanding puts. That is a claim about 1600 lines of
vendored Objective-C, and these modules check it.

### WriteTree.tla

`FWriteTree` and `FCompoundWrite`: `allWrites` and `visibleWrites`. A path is the
set of leaves below it, and a leaf carries the number of the write that gave it
its value; nodes themselves are not followed. `AddOverwrite` and
`AckUserWrites` are what `FRepo` does at a `setValue` and at its answer.
`removeWriteId` is faithful in its three cases (shadowed, layered again,
removed), and `VisibleIsLayered` says what it is for. It gives that only because
the client removes the oldest write first: removing one in the middle
would take the value of an older write below it along.

### RealtimeClient.tla

`FPersistentConnection`, with `FRepo`'s blocks and the retry helper's task.

| Code | Model |
|---|---|
| `connectionState`, `interruptReasons` | `state`, `interruptReasons` |
| the helper's scheduled task; whether it forces a new token | `retry` |
| `currentFetchTokenAttempt`; the fetches under way | `attempt`, `fetching` |
| `authToken`, `forceAuthTokenRefresh`; Firebase Auth's token | `authToken`, `forceRefresh`, `credential` |
| the messages of the connection, in both directions | `up`, `down` |
| `listens`, `unackedListensCount` | `listens`, `unacked`; `made` tells apart two listens to a location |
| `putCounter`, `outstandingPuts`, `putsToAck` | the same |
| blocks that have run; the put that the server has (history) | `ran`, `last` |

`Resume`, `Interrupt`, `Reachable`, `FetchToken`, `TokenFetched`, `TokenFailed`,
`OnReady`, `ConnectionLost`, `AuthRevoked`, `RefreshAuthToken`, `PutData`, `Listen`
and `Unlisten` are the methods, `OnDataMessage` the block of the request that the
next message answers. `ServerAnswers` is the server. A connection that is lost
takes its messages along: late ones carry a number of an older connection and are
dropped. `restoreState` sends the listens in the order in which a
dictionary enumerates them, that is, in any, and the puts by index.

What the model shows of the code besides its properties:

- An answered put waits in `putsToAck` while a listen is unanswered
  (line 688), and only an answer to a listen empties it. It stays there over a
  lost connection, so it is not sent again. `ChatDatabase` stores all
  puts without a block again; the difference is one of when the block runs, not of
  what the server has, since an answered put is at the head of the queue and
  storing it again is what a lost answer would have done.
- Without a listen that is made on every connection, such a block may not run
  at all, and blocks of later puts may run before it. Hence `Permanent`: in the
  chat it is the observer of the conversation list, which is never removed
  (`message/ConversationsViewController.swift:67`). A device that only signs in
  has none; `FIRDatabaseReference.h` promises nothing about that.
- A listen made while the connection authenticates is sent twice, at once
  and by `restoreState`, and counted twice, and both are answered (`CountMatches`).
- `unackedListensCount` is unsigned, so the assertion of line 813, that it is not
  negative, cannot fail; `CountMatches` and `TypeOK` say what it means to.
- The forced refresh of a revoked token belongs to the scheduled task; a call
  of `reachabilityCallback` or `enteringForeground` replaces that task by one that
  does not force (line 451), and the old token is tried, and refused, again.

### PutQueue.tla

The queue that 1 and 4 assume, as a specification: `Put`, `Store`, `Answer`,
`Run(n)`, `Lose`. `ImplementsQueue` (in `RealtimeClient`) is its refinement with
`queue <- putsToAck \o Sorted(outstandingPuts)`.

## The screens

One module per screen; `MCScreens` puts them in one run, where each behaviour
is one of a single screen: they share no state, so interleaving them would show
nothing more.

- `UserSearch` is `NewConversationViewController`. The first search fetches, later
  ones filter the copy; the search bar stays usable under the spinner, so
  fetches overlap. `searchBarSearchButtonClicked` empties `results` without a
  reload, and `updateUI` hides the table where it does not reload it:
  `VisibleRowsExist` is why a tap does not index an empty array. `ProgressHUD` is
  the spinner, whose `show` is ignored during an animation and whose `dismiss` is
  then kept for later. A later answer replaces the results of a newer query;
  nothing in the code excludes that, and no property says otherwise.
- `PostFeed` is `MainViewController`: fetches answer on a background queue, one
  handler at a time, and append to `models`, which a pull empties on the main thread. The
  two threads use the array without a lock; the model takes one append or one
  removal to be a step, so it says nothing of torn arrays, nor of the
  force-unwrapped `link` of a post without one.
- `ObservedArray` is what both the conversation list and the chat do with an
  array: an event's block assigns it and queues a reload. The chat adds an
  observer at every appearance; one that is added when the client has the array gets its
  first event from the cache. `PutArray` puts *any* array over the stored one, since the
  whole-array puts of `ChatDatabase` may shrink it or put another conversation at an
  index. `arrays` keeps what the path has had, and events, the assigned array (`current`) and each row
  (`shown`) name one of these by number. A tap and a draw index the array that is
  assigned, not the one the row was drawn from: between an assignment and its reload a tap may
  open another conversation, and either may be out of range, which ends the app
  (`ended`). The code does not exclude that. `RowsStandForElements` says that it is confined to
  this time: whenever no reload is queued, rows, taps and indices are right.
  `ScreenGoesForward` says that several observers never bring an older array back.
- `Composer` is the chat screen's input bar. The bar stays enabled while a creation has no
  answer and `isNewConversation` is cleared by the completion, so a second text
  before it starts a second creation (`PressSend`); no property excludes that, and within one
  second the two have one id (`chat_same_second`). After a creation the flag is
  cleared but `conversationid` is still nil, and further texts are dropped. A picture's
  file is named by a date with seconds, so pictures of one second share a file:
  `PictureIsItsOwn` says that the link in a message leads to a picture of its
  own second, hence to itself where it is the only one, and never to nothing, however uploads
  overlap, fail and end.

## Runs

`chat_*` run on `MCChatDatabase`, `accounts_*` on `MCAccounts`, which name the model
values and the symmetries; `client` on `MCRealtimeClient`, `screens` on `MCScreens`.

| Run | Instance | Shows |
|---|---|---|
| `chat_races` | 2 accounts, 3 overlapping calls, one may fail, both hear late of each other's puts; 2512164 states | the invariants of the arrays and lists in every interleaving, with stale reads, repeated and refused puts and ended apps |
| `chat_serial` | 2 accounts (one with dotted dates), 3 calls one after the other under `Prompt`, both may fail; 494521 states | `ImplementsLogs`; a sent message is stored; a row shows the last message from the moment its call has answered |
| `chat_live` | 4 accounts (one faulty, one without node, one without name), 2 overlapping calls; 123165 states | every call is answered, everything comes to rest, creations of sound accounts succeed, rows lead to messages |
| `chat_recipient_list` | violation | line 200 stores the bare id over the recipient's list |
| `chat_lost_message` | violation | calls one after the other: a device that lags behind puts an older array back, and an acknowledged message is gone |
| `chat_same_second` | violation | two creations with one id |
| `chat_dotted_date` | violation | a dotted date ends the app between the list and the message |
| `accounts_races` | 2 accounts, 2 devices (one with a patient user, one whose puts may be refused), 3 overlapping sign-ins; 2343007 states | entries have nodes and are there once; the session's account is Auth's; an `email` is there |
| `accounts_serial` | 2 accounts (one with older names and conversations), 2 devices (one refusing and restarting), 2 sign-ins one after the other; 41053 states | `ImplementsDirectory`; an acknowledged account is listed; insertions end; a granted sign-in opens the app |
| `accounts_again` | violation | a second sign-in takes the conversations from the account's node |
| `client` | 2 puts to nested or separate paths, 2 listens (one permanent, one that may be refused), 2 faults of any kind; 556123 states | `ImplementsQueue`; blocks run once, in order and in the end; the client is never stranded; counters and local writes agree with what is on its way |
| `screens` | each screen by itself: 4 searches over 2 users, 4 fetches of 2 posts, 2 observers of an array of up to 2 of 2 elements that is put over twice, 3 texts and 3 pictures in 2 seconds; 257266 states | rows stand for what a tap indexes once they are reloaded; no older array comes back; pictures are of their second; spinner, refresh control and observed arrays come to rest |

Bounds. Three calls are what the interesting cases need: a creation and two sends
that race, two creations and a send that finds the wrong row, or an old array that is
sent again after another device's send. Two accounts are enough for
the races, because a conversation has two parties; one of the serial run's two ends its
app at every creation, and the live run adds accounts that never get an answer or have
no node, to see that they do not disturb the others. One date is enough where ids are to be
distinct: two creations between the same accounts then need different
directions, and the pair (to, from) and (from, to) already gives one user two
rows. `chat_same_second` drops that restriction. Queues are bounded by the
calls: a call has at most two puts outstanding. Reconnections are not bounded: a
queue is finite and `applied` returns to 0. For the accounts, three sign-ins are
two that race on one device and one of another device, or a sign-in, a logout
and a sign-in with the first insertion still under way; two accounts are what a
mix-up needs. Restarts are left to the serial run, where they cut every chain at
every step, and to the proofs, which have them together with overlaps.

For the client, two faults are an interrupt and a resume during a fetch, a revoked
token and a reachability callback before its refresh, or a connection lost twice;
two puts are what an order needs. The same safety properties were also checked
with two listens per location (3118516 states) and with three puts and one
fault (836222 states). Four searches or fetches are two that overlap, one before
and one after; an array of up to two elements that is put over twice shrinks, grows, exchanges
its rows and comes back, each under two observers.

`CHECK_DEADLOCK FALSE` everywhere: calls are consumed, so every behaviour
stops; that nothing stops *too early* is `Settles` and `CallsAnswered`.

Fairness (`FairSpec`). Weak fairness for `Arrives` and `PeerListArrives`: a read
is answered once the device is connected. Weak fairness for `ServerApplies`: the
client sends what is queued. Strong fairness for `Replies`: connections may be
lost again and again, but not always between the storing of a put and its
answer; Firebase keeps reconnecting, and the code retries nothing itself. No
fairness for presses, refusals, reconnections and kills. `Accounts` assumes the
same of reads and puts, and that Auth answers and its completion block runs.
`RealtimeClient` assumes weak fairness only: `open` is called, tasks and fetches
end, an attempt connects or fails, the server and the client take their
messages. Faults need not happen and are at most `MaxFaults`; the bound plays the
part that the strong fairness of `Replies` has in `ChatDatabase`. The screens assume that
requests are answered (an `URLSession` times out), animations end and queues run
their blocks, and nothing of the user.

What the mutants are for: each property of a passing run has a changed
definition (in the modules, marked *Mutant*) that a plausible slip in the Swift
code would give, and the run finds the property violated under it.

## Findings

1. `Resources/DatabaseManager.swift:200` puts `conversationId` where the array
   just appended to (line 199) belongs. From the second conversation that others
   start with a user, that user's list is a string: the rows are gone, the
   screen fails to list, and every later `sendMessage` of that user fails after
   the message was stored.
2. `sendMessage` puts back a whole array that it read earlier (lines 386-441), or that the
   device had heard earlier: messages of another device in between are lost, though
   both sends answer true. Overlapping calls do it, and so does one later call of a
   device that lags behind, which is what the run shows.
3. `message/ChatViewController.swift:313`: ids have a resolution of one second,
   where the comment above (line 303) speaks of a random number. Two presses before the
   first creation is answered are enough.
4. `Resources/DatabaseManager.swift:293` raises on dates with a `.`, after the
   caller's list has been stored.
5. `Resources/DatabaseManager.swift:48`: `userExists` always answers false, so every
   Google sign-in inserts the account again, where the comment (line 57) says
   that `insertUser` inserts a new user: its `setValue` (line 59) takes the
   conversation list from the node, and the search lists the account once more.

## Proofs

`ChatDatabaseProofs.tla` proves, for every value of the constants that
`ChatConstants` allows and for any number of accounts, calls and dates:

- `TypeCorrect`: `Spec => []TypeOK`;
- `SendOrder`: `Spec => []MessagesInSendOrder`;
- `OpeningFirst`: `Spec => []OpeningMessageFirst`;
- `OpeningKept`: `Spec => OpeningMessageKept`, an action property.

`TypeOK` is not inductive: that a completion block runs for a call with
arguments depends on the queue. `CallInv` adds that every put belongs to a call
of its device which waits for exactly that answer (`PutFits`), and that a
device has at most one put per call that a block waits for. Three lemmas carry
its step, one per thing an action does to a queue: `AgreeAfterPut`,
`AgreeAfterAnswer`, `AgreeAfterQuit`.

The order of a stored array cannot be kept if an unordered array waits in some
queue, since any put may be stored late or again. `OrderInv` therefore says of
every queued array what is to hold of the stored ones: its messages belong to
the conversation, their stamps increase and are at most the clock, and it begins
with a creation. It also says that a call which has not composed its array has
no stamp (`FreshCalls`), which is what keeps old arrays ordered when a new
stamp is given (`OrderedKept`), and that a new array read by a device is
ordered before its message is appended (`SeenLogOrdered`, `ComposedAppend`).
`OpeningKept` adds that creations have different ids under `DistinctSeconds`
(`DistinctCreations`), so two arrays of one conversation begin alike.

TLC has checked `CallInv` and `OrderInv` on the instance of `chat_races`.

`RowsProofs.tla`, over `ChatDatabaseProofs`, from the same assumptions:

- `ChainsInOrder`: `Spec => []WritesInOrder`;
- `OkIsReadable`: `Spec => []AcknowledgedIsReadable`;
- `RowsNamePeer`: `Spec => []EntryNamesPeer`;
- `PreviewsBacked`: `Spec => []PreviewBacked`;
- `RowsUnique`: `Spec => []EntriesUnique`;
- `RowsReadable`: `Spec => []RowsReadableWhenQuiet`.

The first two come from `ChainInv`. A completion block runs for a put that this
connection has applied, so `AppliedTold` says that such a put has been stored;
`Stage` says for every callback a call can wait for which writes are stored by
then; and `StoredLogs` that a stored message array is never lost, which needs
`OrderInv`: no queued array is empty.

The others come from `RowInv`: every row that is stored, queued or shown names a
conversation of the list's owner, a latest message that was sent to it, and a
creation that got past its first read (`RowFits`). Queued lists must fit like
stored ones, since any of them may be stored late or again, and so must the
rows a screen has offered, since the next `sendMessage` takes its arguments from
one of them (`ShownRows`, `CallParties`). That a new row is the only one of its
conversation follows from the creation it names: with `DistinctCreations` that is the
call itself, which has not put a row yet. `Creators` says why a creation
failed, so that a quiet row without such a failure has a creation that
answered true.

`SerialProofs.tla`, over `RowsProofs`, for any accounts, faults and
reconnections, where a press waits until nothing is in progress (`Serial`) and
dates differ (`DistinctSeconds`):

- `PreviewsFollow`: `Spec => []PreviewFollowsLast`;
- `SentStays`: `Spec => []SentMessageStored`, assuming `Prompt` too;
- `LogsImplemented`: `Spec => ImplementsLogs`, assuming `Prompt` too.

The three are hypotheses about the users, not about the code: `chat_lost_message` shows
what becomes of the last two without `Prompt`, overlapping calls lose messages as well, and
`chat_same_second` shows two creations of one second. What the theorems say is that under
them the *faults* do no harm. They make the properties true but not inductive, because a
call that is alone still leaves puts behind that are stored late, twice, or not at all,
and devices behind that have not heard of them. The invariant has three parts.

- `BusyInv`: only one call has a callback, an unawaited update or a put in some
  queue, and if it has composed its message, that is the newest (`OneBusy`, `NewestBusy`).
- `CurrentInv`: under `Prompt` a queued message array is the stored one or has exactly its
  call's message more (`LogFits`), so storing it, once or again, adds one message or
  nothing, and a put that the server has stored is there to stay (`SentStored`). Without
  `Prompt` an array may be older, but it ends with its call's message (`LogEnds`). And every row
  of a stored list (`StoredCurrent`) as well as of a queued one, once that put is
  stored (`QueuedCurrent`), shows the last message of its conversation if that message's
  call has got as far as this list (`Previewed`). The last is weaker than the property on
  purpose: between the storing of the log and of the two lists the rows are behind, and
  stay behind when the call fails there.
- `SendInv`: what the devices have heard. A send that waits for the messages has heard of
  the stored ones, under `Prompt` (`HeardSent`); once its array is stored, its device has
  heard of its own list (`HeardOwn`), since that is older than the put: so the preview
  goes into the stored list and not into an old one. This is why `PreviewFollowsLast` needs no
  `Prompt`.

That an appended message is nowhere yet (`AddedOnce`) follows from the stamps of `OrderInv`, and
that a row of a creation alone shows its first message from `FirstMessage`. TLC has
checked `BusyInv`, `CurrentInv` and `SendInv` on the instance of `chat_serial`.

`AccountsProofs.tla` proves, for every value of the constants that
`AccountConstants` allows:

- `TypeCorrect`: `Spec => []TypeOK`;
- `EntriesLeadToNodes`: `Spec => []NodeBeforeEntry`;
- `EntryOnce`: `Spec => []EntriesOnce`;
- `InsertedStays`: `Spec => []InsertedIsListed`;
- `DirectoryImplemented`: `Spec => ImplementsDirectory`, assuming `Serial`.

The first needs that an insertion under way and a queued put have an account and
a device (`Callers`, `Queued`). The second needs `NodeInv`: a put of a node that
this connection has applied (`PutsKnown`), the entries of the stored and of all
queued arrays (`UsersKnown`, `PutsKnown`), and every insertion past its first
put (`InsertionsKnown`) are of accounts whose node is at the server. It is the
applied puts, not the answered ones, that matter: after a reconnection a put
may be unapplied again while its effect stays. No step takes a node away, not even a
conversation's put of an older one (`NodeGrows`), and a sign-in keeps its account (`WhoKept`), so what is known
stays known (`KnownKept`).

For `EntryOnce`: a stored array may be replaced by any queued
one, so `OnceInv` says of all of them that they have no entry twice, and that
the sign-ins they name are past their append (`Listed`); a queued put belongs
to an insertion that waits for it, and to one only (`QueueOf`). An insertion appends in
the step in which it gets past that point, so its entry is not there yet.

For `InsertedStays` and `DirectoryImplemented`, `SerialInv` says that under
`Serial` at most one insertion waits, and that its queued array has every entry that
was acknowledged, and its own, and is the stored array or has that one entry more
(`PutLists`); no older put is left that could be stored again (`OnePut`). A
put that is stored twice finds its own array and changes nothing; the entry is
new by `Listed`. TLC has checked `SerialInv` on the instance of `accounts_serial`.

`SessionProofs.tla`, over `AccountsProofs`:

- `EmailIsThere`: `Spec => []EmailCatched`. `EmailInv` adds that a device on which a
  Google sign-in was ever tapped has an e-mail; a password sign-in stores it
  in the step that dismisses the screen.
- `SessionsMatch`: `Spec => []SessionMatches`. `SessionInv` adds what a patient user
  brings about: a device has one attempt at a time that Auth or its block has
  still to answer, the login screen stays for it, Auth's user is that attempt's once it is
  granted, and a Google sign-in has already stored its e-mail. `Signing` says that
  such an attempt has an account.

`WriteTreeProofs.tla` has the lemmas about `WriteTree` for any paths and any
number of writes. `LayerTree` and `RemoveWrites` are recursive functions, and the library's
induction theorems cannot be instantiated here. What can be cited is that `<`
is well-founded on `Nat` (`NatLessThanWellFounded`, `WFMin`), which gives induction
over *sets* of numbers (`NatSetInduction`, `UpTo`); with it `LayerExists` and
`RemovedExists` show that there is a function that satisfies the recursion,
and `LayerRecursion` and `RemovedRecursion` that the one the module chooses does. `Layered`
is the closed form: a leaf has the value of the newest write whose path covers it.
`RemoveOldest` is the theorem about `removeWriteId`: in all of its three cases, taking
the oldest write from a layered tree leaves a layered tree.

`RealtimeClientProofs.tla`, over it, for any locations, puts and faults:

- `GoesOn`: `Spec => []NeverStranded`;
- `ClientTypeOK`: `Spec => []TypeOK`;
- `ListensCounted`: `Spec => []CountMatches`;
- `PutsSentInOrder`: `Spec => []PutsInOrder`;
- `BlocksRunInOrder`: `Spec => []BlocksInOrder`;
- `TreeIsLayered`: `Spec => []VisibleIsLayered`, assuming `Permanent # {}`;
- `ClientImplementsQueue`: `Spec => ImplementsQueue`, under the same assumption.

For the first, `LinkInv` adds that fetches are numbered by their attempts and
that none of an open connection is current (`FetchInv`; otherwise a late token
could open a second one), and that there are no messages without a
connection (`WireInv`; an answer to an authentication would otherwise
disconnect a client that is waiting).

The next three come from `ClientInv`, which adds the types of messages
(`LinkTypes`, `MessageTypes`) and `MessageInv`: while the client authenticates,
one request in flight restores the state when it is answered, and no other
authentication is ahead of it (`RestoreFits`); the listens in flight are counted; the puts in flight are
those of `outstandingPuts`, in order, once the state is restored (`PutsAre`); and the
outstanding puts are an interval that ends at `putCounter`, which together with
`putsToAck` names the local writes that are left (`IsInterval`, `WritesFit`). That an answer takes
the *oldest* put is not looked at by the code; it follows from these.

The last three hold where some listen is made on every connection. `OrderInv`
adds that it is (`ListensStay`), that a connection which owes no listen's answer
has an empty `putsToAck`, that the blocks that ran, those that wait and the
outstanding puts are the numbers 1, 2, ... in this order (`BlocksFit`), and that
the writes are the numbers that follow the blocks (`WritesAre`). `Permanent # {}` is
needed, not convenient: without an observer that stays an answered put can wait
past the next connection, whose answers run the blocks of later puts first,
and `BlocksInOrder` and `VisibleIsLayered` are false. The conversation list's
observer is one (see *The client model*). For the refinement, `QueueIs` computes the
abstract queue from the concrete state as a line of numbers (`Line`), so that each of the
abstract actions is an equation between lines, and `HeadRank` and `StoredIs` say
which put an answer and the server's next step are about.

`ScreensProofs.tla`, for any users, queries, posts, fetches, texts, pictures and seconds:

- `RowsCanBeTapped`: `SearchSpec => []VisibleRowsExist`. The step needs that only a
  filter unhides the table, hence `~hasFetched => hidden`.
- `RowsComeFromModels`: `FeedSpec => []RowsAreTheFeed`. `FeedInv` adds that without a
  pending reload the table has the rows of `models` (`RowsFollow`), and that
  without overlaps `models` and what the handler still appends are the
  answer (`OneFetch`).
- `PicturesLead`: `ComposerSpec => []PictureIsItsOwn`. `PictureInv`: an upload's file is of the
  second in which its picture was picked (`Dated`), what is stored in a file was picked in
  the file's second (`FileOfSecond`), and a file whose URL is asked for or sent is never
  empty (`UrlLeads`, `PhotoLeads`).
- `RowsStand`: `ArraySpec => []RowsStandForElements`, for any elements, puts,
  observers and queued blocks. `ArrayInv`: events are in the order of the arrays that they
  bring, none older than what is assigned (`InOrder`); a row was drawn from an array that
  has it (`RowsDrawn`); the last event has what the client has (`LastIsCached`); what is assigned
  but not drawn has a reload queued (`ReloadComes`); and a tap of another element, or an index out of
  range, came at such a time (`TapsMatch`).
- `ScreenForward`: `ArraySpec => ScreenGoesForward`, from the same invariant.
- `ScreensTyped`: `[]ScreensTypeOK` for the specification of all screens that the run
  checks. The types of the array need `ArrayInv`; those of the other screens
  are inductive.

### Only model-checked

The liveness properties: `CallsAnswered`, `Settles` and `CreationSucceeds` of the
conversations, `InsertionEnds` and `GrantOpensApp` of the accounts, `BlocksRun` of
the client and `ScreensSettle` of the screens. They rest on fairness, hence on
`ENABLED`, which is out of the prover's reach. The five violations are
counterexamples, which need no proof.

Three definitions are worded for the proofs, with the same meaning as the code
they stand for: `Without` (a sequence without its element at an index) by `SubSeq`,
`Sorted` (the outstanding puts by their numbers) as the sequence that is increasing, and
`CountMatches` and `PutsInOrder` by the places of the requests in flight, where a
filtered sequence (`SelectSeq`) has no facts in the library.
`ClientConstants` asks for a finite set `Queries`: an app listens to
finitely many locations, and `restoreState` enumerates a dictionary of them.

## Not modelled

- A conversation with oneself: the user search does offer the own account; the
  rows of both sides are then one list.
- Reads that the server refuses: the code passes no cancel block, and the rules
  of the database are not part of the repository.
- Contents of messages (kinds, texts, the `is_read` flag, which nothing sets),
  formatting of dates beyond the `.` and the second.
- The upload of the Google picture after an insertion, and a `signOut` that
  throws; profile pictures: their uploads end in a value of `UserDefaults` that
  only the profile screen reads.
- The sign-up form, the like button and the post editor: each sends a request to a
  server that is not in the repository and prints or shows the answer. The
  editor shows its success alert before the answer, whatever it is, and uploads the
  image after it; since the code keeps nothing of the answer, there is no
  state of which a property could be said to hold.
- Pictures in reused cells (`MainTableViewCell`, `ConversationTableViewCell`): whichever
  request answers last sets the image; no code compares it with the row.
- Of Firebase: merges, transactions, `onDisconnect` operations and
  persistence, which the app does not use; the views of the sync tree
  (`ChatDatabase` takes an event to carry the array at its path); the web
  socket and its handshake below `onReady`; Auth and Storage, whose calls are external
  actions.
- The rest of `Pods/` and `src/Hackathon1`. Nearly all lines of the repository are
  third-party code: two copies of Realm, which no source file of the app
  imports, of Firebase, MessageKit and others. What is modelled of it
  is what the app's own behaviour rests on, so the share of all lines stays
  small by necessity; of the app, every part with behaviour over
  several steps is modelled except as said above.
- Static screens, storyboards and the older copy of the chat screen.

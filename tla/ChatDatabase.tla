---------------------------- MODULE ChatDatabase ----------------------------
(***************************************************************************)
(* DatabaseManager's conversation operations (createNewConversation,       *)
(* finishCreatingConversation, sendMessage) over the Firebase Realtime     *)
(* Database tree.                                                          *)
(*                                                                         *)
(* Every operation is a chain of asynchronous callbacks: read a whole      *)
(* value, change the copy, write the whole copy back.  One action stands   *)
(* for one callback, so that the callbacks of several calls, of one device *)
(* or of several, interleave as they do in the app:                        *)
(*                                                                         *)
(*   create:  userRead -> userWrite -> openWrite -> ok                     *)
(*            userRead starts the update of the recipient's list too,      *)
(*            which nobody waits for:  peer = "read" -> "done"             *)
(*   send:    logRead -> logWrite -> mineRead -> mineWrite                 *)
(*                    -> peerRead -> peerWrite -> ok                       *)
(*                                                                         *)
(* A setValue goes to the device's queue of outstanding puts (external:    *)
(* Firebase's client).  The server applies and answers the puts of one     *)
(* device in order; after a reconnection every put that has no answer yet  *)
(* is sent again, so the server may apply it more than once.               *)
(*                                                                         *)
(* A read is answered by the device itself where a screen observes what is *)
(* read: the device's own outstanding put, else what it has heard last,    *)
(* which may be older than what is stored.  Two things are observed, and   *)
(* for good: the device's own list (ConversationsViewController) and the   *)
(* messages of every conversation whose screen was opened from a row       *)
(* (ChatViewController).  Any other read is answered by the server; so is  *)
(* the first one of an observed path.                                      *)
(***************************************************************************)
EXTENDS Naturals, Sequences

CONSTANTS
    Users,           \* database keys of the accounts (safe e-mail addresses)
    Ops,             \* presses of the send button; each is one call
    Seconds,         \* values of the date a message id is made of
    Registered,      \* accounts that insertUser has given a node
    Named,           \* accounts whose device has a "name" in UserDefaults
    DottedLocale,    \* accounts whose device writes dates with a '.'
    Faulty,          \* accounts whose app may be killed, or a put refused
    Serial,          \* TRUE: a press waits until nothing is in progress
    Prompt,          \* TRUE: a text is sent from a device that has heard of
                     \* the messages that are stored in the conversation
    DistinctSeconds  \* TRUE: no two conversations are given the same id

ASSUME ChatConstants ==
    /\ Registered \subseteq Users
    /\ Named \subseteq Users
    /\ DottedLocale \subseteq Users
    /\ Faulty \subseteq Users
    /\ Serial \in BOOLEAN
    /\ Prompt \in BOOLEAN
    /\ DistinctSeconds \in BOOLEAN

VARIABLES
    convs,    \* convs[u]: the value stored at "u/conversations"
    msgs,     \* msgs[c]: the array at "c/messages", <<>> when there is none
    outbox,   \* outbox[u]: the puts of u's device that have no answer yet
    applied,  \* applied[u]: how many of them this connection has applied
    pc,       \* pc[o]: the callback that call o waits for
    req,      \* req[o]: the arguments of call o
    peer,     \* peer[o]: the update of the recipient's list, for a create
    shown,    \* shown[u]: the rows u's conversation screen has offered
    heardList, \* heardList[u]: u's own list, as u's device has heard it last
    late,      \* late[u]: the conversations of which u's device, which observes
               \* them, has not heard the latest
    heardLogs, \* heardLogs[u][c]: the messages that it goes by meanwhile
    told,     \* history: which writes of call o the server has applied
    stamp,    \* history: when call o composed its message array
    clock     \* history: number of message arrays composed so far

heard == <<heardList, late, heardLogs>>
history == <<told, stamp, clock>>
vars == <<convs, msgs, outbox, applied, pc, req, peer, shown, heard, history>>

----------------------------------------------------------------------------
(* The data.  A message is named by the call that sends it.                *)

\* "conversation_" + otherUserEmail + "_" + own e-mail + "_" + date
ConvIds == [to : Users, from : Users, at : Seconds]

Rows == [id : ConvIds, other : Users, latest : Ops]

\* What snapshot.value can be at "u/conversations": nothing, a string, an array
ListValues == [kind : {"absent", "id", "list"}, rows : Seq(Rows)]

NoList == [kind |-> "absent", rows |-> <<>>]
IdString == [kind |-> "id", rows |-> <<>>]
List(rows) == [kind |-> "list", rows |-> rows]

Requests == [kind : {"create", "send"}, me : Users, other : Users,
             conv : ConvIds]
NoRequest == [kind |-> "none"]

\* Where a put goes: a conversation list, or a conversation's messages
ListWrites == {"user", "mine", "theirs", "entry", "id"}
LogWrites == {"opening", "log"}
Puts == [op : Ops, to : ListWrites, list : ListValues]
            \cup [op : Ops, to : LogWrites, log : Seq(Ops)]

Row(c, other, m) == [id |-> c, other |-> other, latest |-> m]

\* snapshot.value as? [[String: Any]], append or build
AppendRow(value, row) ==
    IF value.kind = "list" THEN Append(value.rows, row) ELSE <<row>>

HasRow(rows, c) == \E i \in DOMAIN rows : rows[i].id = c

\* Mutant: position is never advanced
IsFirstRowAtZero(rows, i, c) == i = 1 /\ HasRow(rows, c)

\* The loop that looks for the first row of the conversation
IsFirstRow(rows, i, c) ==
    rows[i].id = c /\ \A j \in DOMAIN rows : j < i => rows[j].id # c

\* Mutant: the changed row is not put back in the array
WithLatestNotStored(rows, c, m) == rows

\* rows with the latest message of that row replaced
WithLatest(rows, c, m) ==
    [i \in DOMAIN rows |->
        IF IsFirstRow(rows, i, c) THEN [rows[i] EXCEPT !.latest = m]
                                  ELSE rows[i]]

----------------------------------------------------------------------------
(* The device's client: what it reads and how it writes.                   *)

\* Whose list put p writes
Owner(p) == IF p.to \in {"user", "mine"} THEN req[p.op].me
                                         ELSE req[p.op].other

WritesList(p, w) == p.to \in ListWrites /\ Owner(p) = w
WritesLog(p, c) == p.to \in LogWrites /\ req[p.op].conv = c

\* Where in a queue the last put that writes w's list, or c's messages, is
LastListPut(box, w) ==
    {i \in DOMAIN box : /\ WritesList(box[i], w)
                        /\ \A j \in DOMAIN box : WritesList(box[j], w) => j <= i}
LastLogPut(box, c) ==
    {i \in DOMAIN box : /\ WritesLog(box[i], c)
                        /\ \A j \in DOMAIN box : WritesLog(box[j], c) => j <= i}

\* What a device with that queue reads where it has heard `stored'
ListOn(box, stored, w) ==
    IF LastListPut(box, w) = {} THEN stored
    ELSE box[CHOOSE i \in LastListPut(box, w) : TRUE].list
LogOn(box, stored, c) ==
    IF LastLogPut(box, c) = {} THEN stored
    ELSE box[CHOOSE i \in LastLogPut(box, c) : TRUE].log

\* What u's device reads at "w/conversations" and at "c/messages"
SeenList(u, w) == ListOn(outbox[u], IF w = u THEN heardList[u] ELSE convs[w], w)
SeenLog(u, c) ==
    LogOn(outbox[u], IF c \in late[u] THEN heardLogs[u][c] ELSE msgs[c], c)

\* The list in u's node when the whole node is read, which no screen observes
NodeList(u) == ListOn(outbox[u], convs[u], u)

ListPut(o, to, value) == [op |-> o, to |-> to, list |-> value]
LogPut(o, to, log) == [op |-> o, to |-> to, log |-> log]

\* setValue
Put(u, p) == /\ outbox' = [outbox EXCEPT ![u] = Append(@, p)]
             /\ UNCHANGED applied

\* The answer to u's first put arrives, and its completion block puts `more'
Answered(u, more) ==
    /\ outbox' = [outbox EXCEPT ![u] = Tail(@) \o more]
    /\ applied' = [applied EXCEPT ![u] = IF @ = 0 THEN 0 ELSE @ - 1]

\* Call o composes the array that its message ends
Compose(o) == /\ clock' = clock + 1
              /\ stamp' = [stamp EXCEPT ![o] = clock + 1]

----------------------------------------------------------------------------
(* Calls and screens                                                       *)

Over == {"ok", "failed", "unanswered", "killed"}
Active(o) == pc[o] \notin Over \cup {"idle"}

Quiet == /\ \A o \in Ops : ~Active(o) /\ peer[o] # "read"
         /\ \A u \in Users : outbox[u] = <<>>
MayPress == Serial => Quiet

Goto(o, where) == pc' = [pc EXCEPT ![o] = where]

RowsOf(value) == {[conv |-> value.rows[i].id, other |-> value.rows[i].other] :
                     i \in DOMAIN value.rows}

\* u's conversation screen shows what u's device reads after the step
Screen(u) == shown' = [shown EXCEPT ![u] =
                          @ \cup RowsOf(ListOn(outbox'[u], heardList'[u], u))]

\* A screen on w's device may observe the messages of c: it was opened from a
\* row.  Observing a conversation whose id has a '.' raises.
Observes(w, c) == /\ c.from \notin DottedLocale
                  /\ \E row \in shown[w] : row.conv = c

\* No log is heard of late
NoLogs == [c \in ConvIds |-> <<>>]

\* The process of u's device ends: its closures, outstanding puts and
\* observers are gone, and its next launch shows what the server has
Quit(u) ==
    /\ pc' = [o \in Ops |->
                IF Active(o) /\ req[o].me = u THEN "killed" ELSE pc[o]]
    /\ peer' = [o \in Ops |->
                IF peer[o] = "read" /\ req[o].me = u THEN "done" ELSE peer[o]]
    /\ outbox' = [outbox EXCEPT ![u] = <<>>]
    /\ applied' = [applied EXCEPT ![u] = 0]
    /\ shown' = [shown EXCEPT ![u] = RowsOf(convs[u])]
    /\ heardList' = [heardList EXCEPT ![u] = convs[u]]
    /\ late' = [late EXCEPT ![u] = {}]
    /\ heardLogs' = [heardLogs EXCEPT ![u] = NoLogs]

Init ==
    /\ convs = [u \in Users |-> NoList]
    /\ msgs = [c \in ConvIds |-> <<>>]
    /\ outbox = [u \in Users |-> <<>>]
    /\ applied = [u \in Users |-> 0]
    /\ pc = [o \in Ops |-> "idle"]
    /\ req = [o \in Ops |-> NoRequest]
    /\ peer = [o \in Ops |-> "none"]
    /\ shown = [u \in Users |-> {}]
    /\ heardList = [u \in Users |-> NoList]
    /\ late = [u \in Users |-> {}]
    /\ heardLogs = [u \in Users |-> NoLogs]
    /\ told = [o \in Ops |-> {}]
    /\ stamp = [o \in Ops |-> 0]
    /\ clock = 0

----------------------------------------------------------------------------
(* createNewConversation                                                   *)

\* The send button of a screen that the user search opened.  The search
\* offers registered accounts; a conversation with oneself is left out.
\* Without a "name" in UserDefaults the call returns and never answers.
CreateNewConversation(o, me, other, at) ==
    LET c == [to |-> other, from |-> me, at |-> at] IN
    /\ pc[o] = "idle"
    /\ MayPress
    /\ other \in Registered \ {me}
    /\ DistinctSeconds => \A p \in Ops : req[p].kind = "create"
                                            => req[p].conv # c
    /\ req' = [req EXCEPT ![o] = [kind |-> "create", me |-> me,
                                  other |-> other, conv |-> c]]
    /\ Goto(o, IF me \in Named THEN "userRead" ELSE "unanswered")
    /\ UNCHANGED <<convs, msgs, outbox, applied, peer, shown, heard, history>>

\* Mutant: a missing node is not answered
UserNodeArrivesIgnored(o) ==
    LET r == req[o]
        value == List(AppendRow(NodeList(r.me), Row(r.conv, r.other, o)))
    IN
    /\ pc[o] = "userRead"
    /\ r.me \in Registered
    /\ Put(r.me, ListPut(o, "user", value))
    /\ Goto(o, "userWrite")
    /\ peer' = [peer EXCEPT ![o] = "read"]
    /\ shown' = [shown EXCEPT ![r.me] = @ \cup RowsOf(value)]
    /\ heardList' = [heardList EXCEPT ![r.me] = convs[r.me]]
    /\ UNCHANGED <<convs, msgs, req, late, heardLogs, history>>

\* The user node arrives, and with it the list in it: the new row is put in
\* the caller's list, and the recipient's list is asked for
UserNodeArrives(o) ==
    LET r == req[o]
        row == Row(r.conv, r.other, o)
    IN
    /\ pc[o] = "userRead"
    /\ \/ /\ r.me \notin Registered
          /\ Goto(o, "failed")
          /\ UNCHANGED <<outbox, applied, peer, shown>>
       \/ /\ r.me \in Registered
          /\ Put(r.me, ListPut(o, "user", List(AppendRow(NodeList(r.me), row))))
          /\ Goto(o, "userWrite")
          /\ peer' = [peer EXCEPT ![o] = "read"]
          /\ shown' = [shown EXCEPT ![r.me] = @ \cup
                          RowsOf(List(AppendRow(NodeList(r.me), row)))]
    /\ heardList' = [heardList EXCEPT ![r.me] = convs[r.me]]
    /\ UNCHANGED <<convs, msgs, req, late, heardLogs, history>>

\* Mutant: the recipient's row names the recipient
PeerListArrivesSameRow(o) ==
    LET r == req[o]
        entry == List(<<Row(r.conv, r.other, o)>>)
    IN
    /\ peer[o] = "read"
    /\ peer' = [peer EXCEPT ![o] = "done"]
    /\ Put(r.me, IF SeenList(r.me, r.other).kind = "list"
                 THEN ListPut(o, "id", IdString)
                 ELSE ListPut(o, "entry", entry))
    /\ UNCHANGED <<convs, msgs, pc, req, shown, heard, history>>

\* The recipient's list arrives.  An array is replaced by the conversation
\* id, whatever else by an array of the one new row; no completion block.
PeerListArrives(o) ==
    LET r == req[o]
        entry == List(<<Row(r.conv, r.me, o)>>)
    IN
    /\ peer[o] = "read"
    /\ peer' = [peer EXCEPT ![o] = "done"]
    /\ Put(r.me, IF SeenList(r.me, r.other).kind = "list"
                 THEN ListPut(o, "id", IdString)
                 ELSE ListPut(o, "entry", entry))
    /\ UNCHANGED <<convs, msgs, pc, req, shown, heard, history>>

\* Mutant: the creation is answered when the row is stored
FinishWithoutMessages(u) ==
    LET o == outbox[u][1].op IN
    /\ applied[u] > 0
    /\ outbox[u][1].to = "user"
    /\ Answered(u, <<>>)
    /\ Goto(o, "ok")
    /\ UNCHANGED <<convs, msgs, peer, req, heard, history>>
    /\ Screen(u)

\* Mutant: the missing e-mail guard of finishCreatingConversation is inverted
FinishFails(u) ==
    LET o == outbox[u][1].op IN
    /\ applied[u] > 0
    /\ outbox[u][1].to = "user"
    /\ Answered(u, <<>>)
    /\ Goto(o, "failed")
    /\ UNCHANGED <<convs, msgs, peer, req, heard, history>>
    /\ Screen(u)

\* The user node is stored: finishCreatingConversation puts the node of the
\* conversation, or raises where the id has a '.'.  (Its guard for a missing
\* "email" in UserDefaults never fires: the call began with one, and nothing
\* removes it.)
FinishCreatingConversation(u) ==
    LET o == outbox[u][1].op IN
    /\ applied[u] > 0
    /\ outbox[u][1].to = "user"
    /\ UNCHANGED <<convs, msgs, req, told>>
    /\ \/ /\ u \in DottedLocale
          /\ Quit(u)
          /\ UNCHANGED <<stamp, clock>>
       \/ /\ u \notin DottedLocale
          /\ Answered(u, <<LogPut(o, "opening", <<o>>)>>)
          /\ Goto(o, "openWrite")
          /\ Compose(o)
          /\ UNCHANGED <<peer, heard>>
          /\ Screen(u)

----------------------------------------------------------------------------
(* sendMessage                                                             *)

\* The send button of a screen opened from a row.  A screen whose
\* conversation id has a '.' cannot be opened: listening raises.
SendMessage(o, me, row) ==
    /\ pc[o] = "idle"
    /\ MayPress
    /\ row \in shown[me]
    /\ Observes(me, row.conv)
    /\ Prompt => row.conv \notin late[me]
    /\ req' = [req EXCEPT ![o] = [kind |-> "send", me |-> me,
                                  other |-> row.other, conv |-> row.conv]]
    /\ Goto(o, "logRead")
    /\ UNCHANGED <<convs, msgs, outbox, applied, peer, shown, heard, history>>

\* Mutants of LogArrives: the array that is put back, given the one that was
\* read, is another one or has the conversation's id for the message; an empty array
\* is built instead of refused
LogArrivesWith(o, ok(_), new(_)) ==
    LET r == req[o]
        log == SeenLog(r.me, r.conv)
    IN
    /\ pc[o] = "logRead"
    /\ \/ /\ ~ok(log)
          /\ Goto(o, "failed")
          /\ UNCHANGED <<outbox, applied, stamp, clock>>
       \/ /\ ok(log)
          /\ Put(r.me, LogPut(o, "log", new(log)))
          /\ Goto(o, "logWrite")
          /\ Compose(o)
    /\ UNCHANGED <<convs, msgs, req, peer, shown, heard, told>>
LogArrivesPrepends(o) == LogArrivesWith(o, LAMBDA log : log # <<>>,
                                           LAMBDA log : <<o>> \o log)
LogArrivesReplaces(o) == LogArrivesWith(o, LAMBDA log : log # <<>>,
                                           LAMBDA log : <<o>>)
LogArrivesForgets(o) == LogArrivesWith(o, LAMBDA log : log # <<>>,
                                          LAMBDA log : log)
LogArrivesBuilds(o) == LogArrivesWith(o, LAMBDA log : TRUE,
                                         LAMBDA log : Append(log, o))
LogArrivesAppendsId(o) == LogArrivesWith(o, LAMBDA log : log # <<>>,
                                            LAMBDA log : Append(log, req[o].conv))

\* The message array arrives: put it back with the new message
LogArrives(o) ==
    LET r == req[o]
        log == SeenLog(r.me, r.conv)
    IN
    /\ pc[o] = "logRead"
    /\ \/ /\ log = <<>>
          /\ Goto(o, "failed")
          /\ UNCHANGED <<outbox, applied, stamp, clock>>
       \/ /\ log # <<>>
          /\ Put(r.me, LogPut(o, "log", Append(log, o)))
          /\ Goto(o, "logWrite")
          /\ Compose(o)
    /\ UNCHANGED <<convs, msgs, req, peer, shown, heard, told>>

\* A conversation list arrives, the sender's and then the recipient's: put
\* it back with the latest message of the conversation's row replaced
RowsArrive(o) ==
    LET r == req[o]
        mine == pc[o] = "mineRead"
        value == SeenList(r.me, IF mine THEN r.me ELSE r.other)
        found == value.kind = "list" /\ HasRow(value.rows, r.conv)
        new == List(WithLatest(value.rows, r.conv, o))
    IN
    /\ pc[o] \in {"mineRead", "peerRead"}
    /\ \/ /\ ~found
          /\ Goto(o, "failed")
          /\ UNCHANGED <<outbox, applied>>
       \/ /\ found
          /\ Put(r.me, ListPut(o, IF mine THEN "mine" ELSE "theirs", new))
          /\ Goto(o, IF mine THEN "mineWrite" ELSE "peerWrite")
    /\ UNCHANGED <<convs, msgs, req, peer, shown, heard, history>>

----------------------------------------------------------------------------
(* The server's answers                                                    *)

\* The devices other than u's that may hear late of a put of messages
MayMiss(u, p) ==
    {w \in Users \ {u} : /\ p.to \in LogWrites
                         /\ Observes(w, req[p.op].conv)
                         /\ req[p.op].conv \notin late[w]}

\* The devices of `slow' go by the old messages of c from now on.  u's device
\* has heard everything.
HeardBy(u, slow, c) ==
    /\ late' = [w \in Users |-> IF w = u THEN {}
                                ELSE IF w \in slow THEN late[w] \cup {c}
                                ELSE late[w]]
    /\ heardLogs' = [w \in Users |->
                        IF w = u THEN NoLogs
                        ELSE IF w \in slow
                             THEN [heardLogs[w] EXCEPT ![c] = msgs[c]]
                             ELSE heardLogs[w]]
    /\ heardList' = [heardList EXCEPT ![u] = convs'[u]]

\* The server stores the next put of u's device.  What it has stored by then
\* reaches that device before the answer to the put does, as both come over
\* the device's one connection, in order; other devices hear of it at once or
\* later.
ServerApplies(u) ==
    LET p == outbox[u][applied[u] + 1] IN
    /\ applied[u] < Len(outbox[u])
    /\ applied' = [applied EXCEPT ![u] = @ + 1]
    /\ \/ /\ p.to \in ListWrites
          /\ convs' = [convs EXCEPT ![Owner(p)] = p.list]
          /\ UNCHANGED msgs
       \/ /\ p.to \in LogWrites
          /\ msgs' = [msgs EXCEPT ![req[p.op].conv] = p.log]
          /\ UNCHANGED convs
    /\ told' = [told EXCEPT ![p.op] = @ \cup {p.to}]
    /\ UNCHANGED <<outbox, pc, req, peer, stamp, clock>>
    /\ \E slow \in SUBSET MayMiss(u, p) : HeardBy(u, slow, req[p.op].conv)
    /\ Screen(u)

\* Mutants of Completed: the sender's row is skipped; a block never goes on
CompletedWith(u, afterLog, afterMine) ==
    LET p == outbox[u][1] IN
    /\ applied[u] > 0
    /\ p.to # "user"
    /\ CASE p.to \in {"opening", "theirs"} -> Goto(p.op, "ok")
         [] p.to = "log" -> Goto(p.op, afterLog)
         [] p.to = "mine" -> Goto(p.op, afterMine)
         [] OTHER -> UNCHANGED pc
    /\ Answered(u, <<>>)
    /\ UNCHANGED <<convs, msgs, req, peer, heard, history>>
    /\ Screen(u)
CompletedSkipsSender(u) == CompletedWith(u, "peerRead", "peerRead")
CompletedStops(u) == CompletedWith(u, "mineRead", "mineWrite")

\* The completion blocks that only answer or go on to the next read
Completed(u) ==
    LET p == outbox[u][1] IN
    /\ applied[u] > 0
    /\ p.to # "user"
    /\ CASE p.to \in {"opening", "theirs"} -> Goto(p.op, "ok")
         [] p.to = "log" -> Goto(p.op, "mineRead")
         [] p.to = "mine" -> Goto(p.op, "peerRead")
         [] OTHER -> UNCHANGED pc
    /\ Answered(u, <<>>)
    /\ UNCHANGED <<convs, msgs, req, peer, heard, history>>
    /\ Screen(u)

\* Mutants of Refused: the error is not looked at; the creation starts again
RefusedWith(u, where) ==
    LET p == outbox[u][1] IN
    /\ u \in Faulty
    /\ outbox[u] # <<>>
    /\ applied[u] = 0
    /\ IF p.to \in {"entry", "id"} THEN UNCHANGED pc ELSE Goto(p.op, where)
    /\ Answered(u, <<>>)
    /\ UNCHANGED <<convs, msgs, req, peer, heard, history>>
    /\ Screen(u)
RefusedIsSuccess(u) == RefusedWith(u, "ok")
RefusedStartsAgain(u) ==
    RefusedWith(u, IF outbox[u][1].to = "opening" THEN "userRead" ELSE "failed")

\* The server refuses the first put; the completion block gets an error
Refused(u) ==
    LET p == outbox[u][1] IN
    /\ u \in Faulty
    /\ outbox[u] # <<>>
    /\ applied[u] = 0
    /\ IF p.to \in {"entry", "id"} THEN UNCHANGED pc ELSE Goto(p.op, "failed")
    /\ Answered(u, <<>>)
    /\ UNCHANGED <<convs, msgs, req, peer, heard, history>>
    /\ Screen(u)

\* u's device hears of its list, which its screen shows
HearsList(u) ==
    /\ heardList[u] # convs[u]
    /\ heardList' = [heardList EXCEPT ![u] = convs[u]]
    /\ UNCHANGED <<convs, msgs, outbox, applied, pc, req, peer, late, heardLogs,
                   history>>
    /\ Screen(u)

\* u's device hears of the messages of c
HearsLog(u, c) ==
    /\ c \in late[u]
    /\ late' = [late EXCEPT ![u] = @ \ {c}]
    /\ heardLogs' = [heardLogs EXCEPT ![u][c] = <<>>]
    /\ UNCHANGED <<convs, msgs, outbox, applied, pc, req, peer, shown, heardList,
                   history>>

\* The connection is lost and comes back: what has no answer is sent again
Reconnects(u) ==
    /\ applied[u] > 0
    /\ applied' = [applied EXCEPT ![u] = 0]
    /\ UNCHANGED <<convs, msgs, outbox, pc, req, peer, shown, heard, history>>

\* The user or the system ends the app in the middle of something
Kill(u) ==
    /\ u \in Faulty
    /\ \/ outbox[u] # <<>>
       \/ \E o \in Ops : req[o].kind # "none" /\ req[o].me = u
                            /\ (Active(o) \/ peer[o] = "read")
    /\ Quit(u)
    /\ UNCHANGED <<convs, msgs, req, history>>

----------------------------------------------------------------------------

Press(o) == \/ \E me, other \in Users, at \in Seconds :
                    CreateNewConversation(o, me, other, at)
            \/ \E me \in Users : \E row \in shown[me] : SendMessage(o, me, row)

Arrives(o) == \/ UserNodeArrives(o)
              \/ LogArrives(o)
              \/ RowsArrive(o)

Replies(u) == FinishCreatingConversation(u) \/ Completed(u)

Hears(u) == HearsList(u) \/ \E c \in ConvIds : HearsLog(u, c)

Next == \/ \E o \in Ops : Press(o) \/ Arrives(o) \/ PeerListArrives(o)
        \/ \E u \in Users : \/ ServerApplies(u) \/ Replies(u) \/ Refused(u)
                            \/ Reconnects(u) \/ Kill(u) \/ Hears(u)

Spec == Init /\ [][Next]_vars

\* A read is answered, a put reaches the server, and a connection stays up
\* long enough, sooner or later, for an answer to come back
FairSpec ==
    /\ Spec
    /\ \A o \in Ops : WF_vars(Arrives(o)) /\ WF_vars(PeerListArrives(o))
    /\ \A u \in Users : WF_vars(ServerApplies(u)) /\ SF_vars(Replies(u))
----------------------------------------------------------------------------
(* What the operations promise                                             *)

PcValues == Over \cup {"idle", "userRead", "userWrite", "openWrite",
                       "logRead", "logWrite", "mineRead", "mineWrite",
                       "peerRead", "peerWrite"}

\* Every variable has its type.
TypeOK ==
    /\ convs \in [Users -> ListValues]
    /\ msgs \in [ConvIds -> Seq(Ops)]
    /\ outbox \in [Users -> Seq(Puts)]
    /\ applied \in [Users -> Nat]
    /\ pc \in [Ops -> PcValues]
    /\ req \in [Ops -> Requests \cup {NoRequest}]
    /\ peer \in [Ops -> {"none", "read", "done"}]
    /\ shown \in [Users -> SUBSET [conv : ConvIds, other : Users]]
    /\ heardList \in [Users -> ListValues]
    /\ late \in [Users -> SUBSET ConvIds]
    /\ heardLogs \in [Users -> [ConvIds -> Seq(Ops)]]
    /\ told \in [Ops -> SUBSET (ListWrites \cup LogWrites)]
    /\ stamp \in [Ops -> Nat]
    /\ clock \in Nat

\* The messages of a conversation were sent to that conversation and are
\* stored in the order in which their senders composed them, however the
\* whole-array writes of several devices interleave and are sent again.
MessagesInSendOrder ==
    \A c \in ConvIds : \A i \in DOMAIN msgs[c] :
        /\ req[msgs[c][i]].conv = c
        /\ \A j \in DOMAIN msgs[c] :
              i < j => stamp[msgs[c][i]] < stamp[msgs[c][j]]

\* A conversation that has messages begins with the first message of a
\* createNewConversation call for it: sendMessage never starts one.
OpeningMessageFirst ==
    \A c \in ConvIds : msgs[c] # <<>> => req[msgs[c][1]].kind = "create"

\* A conversation never loses its first message again, whatever stale array
\* is written over it (with distinct ids; two creates may share an id).
OpeningMessageKept ==
    [][\A c \in ConvIds : msgs[c] # <<>> =>
          /\ msgs'[c] # <<>>
          /\ DistinctSeconds => msgs'[c][1] = msgs[c][1]]_msgs

\* A row of a user's list is about a conversation of that user, and names
\* the other party of it: sendMessage and the screens rely on it to find the
\* recipient's list.
EntryNamesPeer ==
    \A u \in Users : \A i \in DOMAIN convs[u].rows :
        LET row == convs[u].rows[i] IN
        \/ row.id.from = u /\ row.id.to = row.other
        \/ row.id.to = u /\ row.id.from = row.other

\* The latest message of a row is a message of that row's conversation, and
\* one that sendMessage previews has been stored before it is previewed.
PreviewBacked ==
    \A u \in Users : \A i \in DOMAIN convs[u].rows :
        LET row == convs[u].rows[i] IN
        /\ req[row.latest].conv = row.id
        /\ req[row.latest].kind = "send" => "log" \in told[row.latest]

\* A call that answers true has done every write its chain consists of, and
\* at every moment the writes done are a prefix of the chain.
WritesInOrder ==
    \A o \in Ops :
        /\ pc[o] = "ok" => IF req[o].kind = "send"
                           THEN {"log", "mine", "theirs"} \subseteq told[o]
                           ELSE {"user", "opening"} \subseteq told[o]
        /\ "theirs" \in told[o] => "mine" \in told[o]
        /\ "mine" \in told[o] => "log" \in told[o]
        /\ "opening" \in told[o] => "user" \in told[o]

\* A conversation whose creation was acknowledged has messages to show.
AcknowledgedIsReadable ==
    \A o \in Ops : pc[o] = "ok" => msgs[req[o].conv] # <<>>

\* With distinct ids, a user's list has one row per conversation, which is
\* what sendMessage's search for the first row takes for granted.
EntriesUnique ==
    DistinctSeconds =>
        \A u \in Users : \A i, j \in DOMAIN convs[u].rows :
            convs[u].rows[i].id = convs[u].rows[j].id => i = j

\* When nothing is in progress, a row that a screen lists leads to messages,
\* unless its creator's app or puts failed; interleaved creations and sends,
\* lost answers and repeated puts do not change that.
RowsReadableWhenQuiet ==
    Quiet => \A u \in Users : \A i \in DOMAIN convs[u].rows :
                LET c == convs[u].rows[i].id IN
                c.from \notin Faulty \cup DottedLocale => msgs[c] # <<>>

\* One call at a time: a row's latest message is the last message of the
\* conversation, if the call that sent that one succeeded, whether or not the
\* device had heard of the messages before it.
PreviewFollowsLast ==
    Serial /\ DistinctSeconds =>
        \A u \in Users : \A i \in DOMAIN convs[u].rows :
            LET row == convs[u].rows[i]
                log == msgs[row.id]
            IN log # <<>> /\ pc[log[Len(log)]] = "ok"
                  => row.latest = log[Len(log)]

\* One call at a time: the conversations are append-only logs
Logs == INSTANCE ConversationLog WITH
            Conversations <- ConvIds, Messages <- Ops, log <- msgs

\* The stored messages implement the append-only logs of ConversationLog when
\* the presses do not overlap (Serial) and every text is sent from a device
\* that has heard of the messages stored (Prompt), with lost answers, repeated
\* puts, refusals and ended apps.
ImplementsLogs == Logs!Spec

\* A call that started is answered, unless the app ended under it.
CallsAnswered ==
    \A o \in Ops : pc[o] \in {"userRead", "logRead"}
                        ~> pc[o] \in {"ok", "failed", "killed"}

\* Everything comes to rest: no callback and no put stays outstanding,
\* the unawaited update of the recipient's list included.
Settles == <>[]Quiet

\* A creation by a user with a node and a '.'-free date, whose app and puts
\* do not fail, succeeds.
CreationSucceeds ==
    \A o \in Ops :
        /\ pc[o] = "userRead"
        /\ req[o].me \in Registered \ (Faulty \cup DottedLocale)
        ~> pc[o] = "ok"

----------------------------------------------------------------------------
(* What the comments say and the code does not do                          *)

\* "create a new Conversation with target user Email and first message sent"
\* (DatabaseManager.swift:129): when nothing fails, a creation by a user with
\* a node ends with the first message stored.
FirstMessageSent ==
    \A o \in Ops :
        pc[o] = "userRead" /\ req[o].me \in Registered \ Faulty ~> pc[o] = "ok"

\* "//update recipient conversation entry ... //append"
\* (DatabaseManager.swift:195-198): a new row is appended to the recipient's
\* list, so a list stays a list.
RecipientListStaysList ==
    [][\A u \in Users : convs[u].kind = "list" => convs'[u].kind = "list"]_convs

\* "//add new message to messages" (DatabaseManager.swift:376): a message
\* whose sendMessage answered true is one of the conversation's messages.
\* It is, where the presses do not overlap (Serial) and every text is sent
\* from a device that has heard of the messages stored (Prompt); overlapping calls,
\* or one later call of a device that lags behind, put an older array back.
SentMessageStored ==
    \A o \in Ops : pc[o] = "ok" /\ req[o].kind = "send" =>
        \E i \in DOMAIN msgs[req[o].conv] : msgs[req[o].conv][i] = o

\* "//date , otherUserEmail, senderEmail, randomInt"
\* (ChatViewController.swift:303): two new conversations have different ids.
ConversationIdsDistinct ==
    \A o, p \in Ops :
        /\ req[o].kind = "create" /\ req[p].kind = "create"
        /\ req[o].conv = req[p].conv
        => o = p
=============================================================================

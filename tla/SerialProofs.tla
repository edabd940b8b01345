---------------------------- MODULE SerialProofs ----------------------------
(***************************************************************************)
(* Conversations whose calls do not overlap (Serial) and whose ids differ, *)
(* for every set of accounts, calls, faults and reconnections: the rows of *)
(* a list follow the last message; and messages are only added, at the end *)
(* of the arrays, if every text is sent from a device that has heard of    *)
(* the messages stored (Prompt).  A device that lags behind puts an older  *)
(* array back.                                                             *)
(***************************************************************************)
EXTENDS RowsProofs

----------------------------------------------------------------------------
(* The invariant                                                           *)

\* Something of call o is in progress: a callback, the update of the
\* recipient's list, or a put that has no answer
Waits(o) == \E u \in Users : \E i \in 1..Len(outbox[u]) : outbox[u][i].op = o
Busy(o) == Active(o) \/ peer[o] = "read" \/ Waits(o)

\* One call at a time, and it is the last one that composed
OneBusy == \A o, p \in Ops : Busy(o) /\ Busy(p) => o = p
NewestBusy == \A o \in Ops : Busy(o) /\ stamp[o] > 0 => stamp[o] = clock

BusyInv == OneBusy /\ NewestBusy

\* Only a creation updates the recipient's list without waiting for it
UpdateFits(p, rq) == ~Awaited(p) => rq[p.op].kind = "create"

\* A queued message array is the stored one, or has one more message: a
\* creation's always, a text's where its device had heard of what is stored
LogFits(p, rq, ms) ==
    p.to \in LogWrites /\ (Prompt \/ p.to = "opening")
        => \/ p.log = ms[rq[p.op].conv]
           \/ p.log = Append(ms[rq[p.op].conv], p.op)

\* A message array ends with the message of the call that puts it, and a
\* sendMessage's has one more
LastOf(log) == log[Len(log)]
LogEnds(p) == /\ p.to \in LogWrites => LastOf(p.log) = p.op
              /\ p.to = "log" => Len(p.log) > 1

QueueFits == \A u \in Users : \A i \in 1..Len(outbox[u]) :
                /\ UpdateFits(outbox[u][i], req)
                /\ LogFits(outbox[u][i], req, msgs)
                /\ LogEnds(outbox[u][i])

\* A message that the server was told of is stored, for good where devices
\* do not lag; and it was not the first
Holds(log, o) == \E i \in 1..Len(log) : log[i] = o
SentStored == \A o \in Ops : "log" \in told[o] /\ (Prompt \/ Busy(o))
                                 => Holds(msgs[req[o].conv], o)
SentGrown == \A o \in Ops : "log" \in told[o] => Len(msgs[req[o].conv]) > 1

\* A call with request r and writes done has put its message in u's row
Previewed(u, r, done) == \/ u = r.me /\ "mine" \in done
                         \/ u = r.other /\ "theirs" \in done

\* u's row shows the last message, if its call has got so far
RowCurrent(u, row, ms, rq, done) ==
    LET log == ms[row.id]
        last == LastOf(log)
    IN  /\ log # <<>>
        /\ rq[last].kind = "send"
        /\ Previewed(u, rq[last], done[last])
        => row.latest = last

RowsCurrent(u, value, ms, rq, done) ==
    \A i \in 1..Len(value.rows) : RowCurrent(u, value.rows[i], ms, rq, done)

\* What is stored for the calls once put p is
DoneAfter(done, p) == [done EXCEPT ![p.op] = @ \cup {p.to}]

PutCurrent(p, ms, rq, done) ==
    p.to \in ListWrites =>
        RowsCurrent(OwnerIn(p, rq), p.list, ms, rq, DoneAfter(done, p))

StoredCurrent == \A u \in Users : RowsCurrent(u, convs[u], msgs, req, told)
QueuedCurrent == \A u \in Users : \A i \in 1..Len(outbox[u]) :
                    PutCurrent(outbox[u][i], msgs, req, told)

CurrentInv == /\ QueueFits /\ SentStored /\ SentGrown
              /\ StoredCurrent /\ QueuedCurrent

\* Once its message array is stored, the device of a send in progress has
\* heard of its list
HeardOwn == \A o \in Ops : Busy(o) /\ "log" \in told[o]
                               => heardList[req[o].me] = convs[req[o].me]

\* A send that waits for the messages hears of the stored ones
HeardSent == Prompt => \A o \in Ops : pc[o] = "logRead"
                                          => req[o].conv \notin late[req[o].me]

\* A send that waits for the messages or puts them has previewed nothing yet
SendsStart == \A o \in Ops : pc[o] \in {"logRead", "logWrite"}
                 => "mine" \notin told[o] /\ "theirs" \notin told[o]

SendInv == HeardOwn /\ HeardSent /\ SendsStart

\* The invariants this one stands on
BaseInv == /\ CallInv /\ OrderInv /\ ChainInv /\ DistinctCreations
           /\ Creators /\ RowInv

----------------------------------------------------------------------------
(* One call at a time                                                      *)

LEMMA BaseTypes ==
    ASSUME BaseInv
    PROVE  /\ CallInv /\ OrderInv /\ ChainInv /\ RowInv /\ TypeInv
           /\ convs \in [Users -> ListValues] /\ msgs \in [ConvIds -> Seq(Ops)]
           /\ outbox \in [Users -> Seq(Puts)] /\ applied \in [Users -> Nat]
           /\ pc \in [Ops -> PcValues]
           /\ req \in [Ops -> Requests \cup {NoRequest}]
           /\ peer \in [Ops -> {"none", "read", "done"}]
           /\ told \in [Ops -> SUBSET (ListWrites \cup LogWrites)]
           /\ stamp \in [Ops -> Nat] /\ clock \in Nat
           /\ \A o \in Ops : pc[o] # "idle" => req[o] \in Requests
BY DEF BaseInv, CallInv, TypeInv, TypeOK, CallsHaveArguments

\* A call is not busy after a step in which nothing of it goes on
LEMMA BusyBefore ==
    ASSUME \A q \in Ops :
              \/ Busy(q)
              \/ /\ pc'[q] = pc[q] \/ pc'[q] \in Over \cup {"idle"}
                 /\ peer'[q] = "read" => peer[q] = "read",
           \A w \in Users : \A i \in 1..Len(outbox'[w]) :
              \/ \E j \in 1..Len(outbox[w]) : outbox'[w][i] = outbox[w][j]
              \/ Busy(outbox'[w][i].op)
    PROVE  \A q \in Ops : Busy(q)' => Busy(q)
<1> SUFFICES ASSUME NEW q \in Ops, Busy(q)', ~Busy(q)
             PROVE  FALSE
  OBVIOUS
<1>1. ~Active(q)' /\ ~(peer'[q] = "read")
  BY DEF Busy, Active
<1>2. Waits(q)'
  BY <1>1 DEF Busy
<1>3. PICK w \in Users : \E i \in 1..Len(outbox'[w]) : outbox'[w][i].op = q
  BY <1>2 DEF Waits
<1>4. PICK i \in 1..Len(outbox'[w]) : outbox'[w][i].op = q
  BY <1>3
<1>5. \E j \in 1..Len(outbox[w]) : outbox[w][j].op = q
  BY <1>4
<1> QED
  BY <1>5 DEF Busy, Waits

\* The call of a put in a queue is busy
LEMMA PutBusy ==
    ASSUME BaseInv, NEW u \in Users, NEW i \in 1..Len(outbox[u])
    PROVE  /\ outbox[u][i] \in Puts /\ outbox[u][i].op \in Ops
           /\ Busy(outbox[u][i].op)
           /\ PutFits(u, outbox[u][i], pc, req)
<1>1. outbox[u][i] \in Puts /\ outbox[u][i].op \in Ops
  BY BaseTypes, QueueElements
<1>2. PutFits(u, outbox[u][i], pc, req)
  BY DEF BaseInv, CallInv, PutsAgree
<1> QED
  BY <1>1, <1>2 DEF Busy, Waits

LEMMA QuietIsIdle ==
    ASSUME BaseInv, Quiet
    PROVE  \A q \in Ops : ~Busy(q)
<1>1. \A u \in Users : Len(outbox[u]) = 0
  BY NoLength DEF Quiet
<1>2. \A u \in Users : \A i \in 1..Len(outbox[u]) : FALSE
  BY <1>1
<1> QED
  BY <1>2 DEF Quiet, Busy, Waits

LEMMA PressBusy ==
    ASSUME Serial, BaseInv, NEW o \in Ops, Press(o)
    PROVE  /\ \A q \in Ops : Busy(q)' => q = o
           /\ stamp'[o] = 0
<1>1. /\ pc[o] = "idle" /\ UNCHANGED <<outbox, peer, stamp>> /\ Quiet
  BY DEF Press, CreateNewConversation, SendMessage, heard, history, MayPress
<1>2. \A q \in Ops \ {o} : pc'[q] = pc[q]
  BY BaseTypes DEF Press, CreateNewConversation, SendMessage, Goto
<1>3. \A q \in Ops : ~Busy(q)
  BY <1>1, QuietIsIdle
<1>4. ASSUME NEW q \in Ops \ {o}
      PROVE  ~Busy(q)'
  BY <1>1, <1>2, <1>3 DEF Busy, Active, Waits
<1>5. stamp[o] = 0
  BY <1>1, BaseTypes, StampType DEF Fresh
<1> QED
  BY <1>1, <1>4, <1>5

LEMMA ArrivesBusy ==
    ASSUME BaseInv, NEW o \in Ops, Arrives(o) \/ PeerListArrives(o)
    PROVE  Busy(o) /\ \A q \in Ops : Busy(q)' => Busy(q)
<1>1. Busy(o)
  BY DEF Arrives, UserNodeArrives, LogArrives, RowsArrive, PeerListArrives,
         Busy, Active, Over
<1>2. \A q \in Ops \ {o} : pc'[q] = pc[q] /\ peer'[q] = peer[q]
  BY BaseTypes
  DEF Arrives, UserNodeArrives, LogArrives, RowsArrive, PeerListArrives, Goto
<1>3. UNCHANGED outbox \/ \E p \in Puts : p.op = o /\ Put(req[o].me, p)
  <2>1. CASE UserNodeArrives(o)
    BY <2>1, UserPutType, PutFields, BaseTypes DEF UserNodeArrives
  <2>2. CASE LogArrives(o)
    BY <2>2, LogArrivesPutType, PutFields, BaseTypes DEF LogArrives
  <2>3. CASE RowsArrive(o)
    BY <2>3, RowsPutType, PutFields, BaseTypes DEF RowsArrive
  <2>4. CASE PeerListArrives(o)
    <3> DEFINE entry == ListPut(o, "entry", List(<<Row(req[o].conv, req[o].me, o)>>))
               id == ListPut(o, "id", IdString)
    <3>1. Put(req[o].me, id) \/ Put(req[o].me, entry)
      BY <2>4 DEF PeerListArrives
    <3>2. entry \in Puts /\ id \in Puts /\ entry.op = o /\ id.op = o
      BY <2>4, PeerPutTypes, PutFields, BaseTypes DEF PeerListArrives
    <3> HIDE DEF entry, id
    <3> QED
      BY <3>1, <3>2
  <2> QED
    BY <2>1, <2>2, <2>3, <2>4 DEF Arrives
<1>4. req[o].me \in Users
  <2>1. pc[o] # "idle" \/ peer[o] = "read"
    BY DEF Arrives, UserNodeArrives, LogArrives, RowsArrive, PeerListArrives
  <2> QED
    BY <2>1, BaseTypes, RequestType
<1>5. \A w \in Users : \A i \in 1..Len(outbox'[w]) :
          \/ \E j \in 1..Len(outbox[w]) : outbox'[w][i] = outbox[w][j]
          \/ outbox'[w][i].op = o
  <2>1. CASE UNCHANGED outbox
    BY <2>1
  <2>2. CASE \E p \in Puts : p.op = o /\ Put(req[o].me, p)
    <3> PICK p \in Puts : p.op = o /\ Put(req[o].me, p)
      BY <2>2
    <3> QED
      BY <1>4, BaseTypes, PutElements
  <2> QED
    BY <1>3, <2>1, <2>2
<1> QED
  BY <1>1, <1>2, <1>5, BusyBefore

LEMMA QuitBusy ==
    ASSUME BaseInv, NEW u \in Users, Quit(u)
    PROVE  \A q \in Ops : Busy(q)' => Busy(q)
<1>1. \A q \in Ops : /\ pc'[q] = pc[q] \/ pc'[q] \in Over \cup {"idle"}
                     /\ peer'[q] = "read" => peer[q] = "read"
  BY DEF Quit, Over
<1>2. \A w \in Users : \A i \in 1..Len(outbox'[w]) :
          \E j \in 1..Len(outbox[w]) : outbox'[w][i] = outbox[w][j]
  BY BaseTypes, QuitElements
<1> QED
  BY <1>1, <1>2, BusyBefore

LEMMA AnswerBusy ==
    ASSUME BaseInv, NEW u \in Users, outbox[u] # <<>>,
           NEW more \in Seq(Puts), Answered(u, more),
           \A j \in 1..Len(more) : more[j].op = outbox[u][1].op,
           \A q \in Ops \ {outbox[u][1].op} : pc'[q] = pc[q], UNCHANGED peer
    PROVE  \A q \in Ops : Busy(q)' => Busy(q)
<1>1. Busy(outbox[u][1].op)
  BY FirstPut, BaseTypes, PutBusy
<1>2. \A w \in Users : \A i \in 1..Len(outbox'[w]) :
          \/ \E j \in 1..Len(outbox[w]) : outbox'[w][i] = outbox[w][j]
          \/ \E j \in 1..Len(more) : outbox'[w][i] = more[j]
  BY BaseTypes, AnsweredElements
<1>3. \A w \in Users : \A i \in 1..Len(outbox'[w]) :
          \/ \E j \in 1..Len(outbox[w]) : outbox'[w][i] = outbox[w][j]
          \/ Busy(outbox'[w][i].op)
  BY <1>1, <1>2
<1>4. \A q \in Ops : Busy(q) \/ (pc'[q] = pc[q] /\ peer'[q] = peer[q])
  BY <1>1
<1> QED
  BY <1>3, <1>4, BusyBefore

LEMMA AnswerOnlyBusy ==
    ASSUME BaseInv, NEW u \in Users, outbox[u] # <<>>, Answered(u, <<>>),
           \A q \in Ops \ {outbox[u][1].op} : pc'[q] = pc[q], UNCHANGED peer
    PROVE  \A q \in Ops : Busy(q)' => Busy(q)
<1> DEFINE more == <<>>
<1>1. more \in Seq(Puts) /\ Answered(u, more) /\ \A j \in 1..Len(more) : FALSE
  BY NoLength
<1> HIDE DEF more
<1> QED
  BY <1>1, AnswerBusy

\* What FinishCreatingConversation does to the calls, where nothing raises
LEMMA FinishCreates ==
    ASSUME BaseInv, NEW u \in Users, FinishCreatingConversation(u),
           u \notin DottedLocale
    PROVE  \E o \in Ops :
              /\ o = outbox[u][1].op /\ outbox[u] # <<>>
              /\ pc[o] = "userWrite" /\ Busy(o) /\ req[o].me = u
              /\ pc' = [pc EXCEPT ![o] = "openWrite"]
              /\ Compose(o) /\ UNCHANGED <<convs, msgs, req, told, peer>>
              /\ Answered(u, <<LogPut(o, "opening", <<o>>)>>)
<1>1. outbox[u][1].to = "user" /\ applied[u] > 0
  BY DEF FinishCreatingConversation
<1>2. /\ outbox[u] # <<>> /\ 1 \in 1..Len(outbox[u])
  BY <1>1, FirstPut, BaseTypes
<1>3. PICK o \in Ops : o = outbox[u][1].op
  BY <1>2, PutBusy
<1>4. Busy(o) /\ pc[o] = "userWrite" /\ req[o].me = u
  BY <1>1, <1>2, <1>3, PutBusy DEF PutFits
<1>5. /\ pc' = [pc EXCEPT ![o] = "openWrite"]
      /\ Compose(o) /\ UNCHANGED <<convs, msgs, req, told, peer>>
      /\ Answered(u, <<LogPut(o, "opening", <<o>>)>>)
  BY <1>3 DEF FinishCreatingConversation, Goto
<1> QED
  BY <1>2, <1>3, <1>4, <1>5

LEMMA RepliesBusy ==
    ASSUME BaseInv, NEW u \in Users, Replies(u) \/ Refused(u)
    PROVE  \A q \in Ops : Busy(q)' => Busy(q)
<1>1. CASE FinishCreatingConversation(u)
  <2>1. CASE u \in DottedLocale
    BY <1>1, <2>1, QuitBusy DEF FinishCreatingConversation
  <2>2. CASE u \notin DottedLocale
    <3>1. PICK o \in Ops :
              /\ o = outbox[u][1].op /\ outbox[u] # <<>>
              /\ pc' = [pc EXCEPT ![o] = "openWrite"] /\ UNCHANGED peer
              /\ Answered(u, <<LogPut(o, "opening", <<o>>)>>)
      BY <1>1, <2>2, FinishCreates
    <3> DEFINE p == LogPut(o, "opening", <<o>>)
               more == <<p>>
    <3>2. more \in Seq(Puts) /\ p.op = o
      BY OpeningPutType, PutFields
    <3>3. \A q \in Ops \ {o} : pc'[q] = pc[q]
      BY <3>1, BaseTypes
    <3> HIDE DEF p
    <3>4. \A j \in 1..Len(more) : more[j].op = o
      BY <3>2
    <3> HIDE DEF more
    <3> QED
      BY <3>1, <3>2, <3>3, <3>4, AnswerBusy DEF p, more
  <2> QED
    BY <2>1, <2>2
<1>2. CASE Completed(u)
  <2>1. outbox[u] # <<>> /\ Answered(u, <<>>) /\ UNCHANGED peer
    BY <1>2, FirstPut, BaseTypes DEF Completed
  <2>2. \A q \in Ops \ {outbox[u][1].op} : pc'[q] = pc[q]
    BY <1>2, BaseTypes DEF Completed, Goto
  <2> QED
    BY <2>1, <2>2, AnswerOnlyBusy
<1>3. CASE Refused(u)
  <2>1. outbox[u] # <<>> /\ Answered(u, <<>>) /\ UNCHANGED peer
    BY <1>3 DEF Refused
  <2>2. \A q \in Ops \ {outbox[u][1].op} : pc'[q] = pc[q]
    BY <1>3, BaseTypes DEF Refused, Goto
  <2> QED
    BY <2>1, <2>2, AnswerOnlyBusy
<1> QED
  BY <1>1, <1>2, <1>3 DEF Replies

\* A step is a press, or makes no call busy
LEMMA BusyStays ==
    ASSUME BaseInv, [Next]_vars
    PROVE  (\E o \in Ops : Press(o)) \/ (\A q \in Ops : Busy(q)' => Busy(q))
<1>1. CASE UNCHANGED vars
  BY <1>1 DEF vars, Busy, Active, Waits
<1>2. ASSUME NEW o \in Ops, Arrives(o) \/ PeerListArrives(o)
      PROVE  \A q \in Ops : Busy(q)' => Busy(q)
  BY <1>2, ArrivesBusy
<1>3. ASSUME NEW u \in Users, Replies(u) \/ Refused(u)
      PROVE  \A q \in Ops : Busy(q)' => Busy(q)
  BY <1>3, RepliesBusy
<1>4. ASSUME NEW u \in Users, ServerApplies(u) \/ Reconnects(u) \/ Hears(u)
      PROVE  \A q \in Ops : Busy(q)' => Busy(q)
  BY <1>4
  DEF ServerApplies, Reconnects, Hears, HearsList, HearsLog, Busy, Active, Waits
<1>5. ASSUME NEW u \in Users, Kill(u)
      PROVE  \A q \in Ops : Busy(q)' => Busy(q)
  BY <1>5, QuitBusy DEF Kill
<1> QED
  BY <1>1, <1>2, <1>3, <1>4, <1>5 DEF Next

\* Only a busy call composes
LEMMA BusyComposes ==
    ASSUME BaseInv, [Next]_vars
    PROVE  \/ UNCHANGED <<stamp, clock>>
           \/ \E o \in Ops : Busy(o) /\ Compose(o)
<1>1. CASE UNCHANGED vars
  BY <1>1 DEF vars, heard, history
<1>2. ASSUME NEW o \in Ops, LogArrives(o)
      PROVE  UNCHANGED <<stamp, clock>> \/ (Busy(o) /\ Compose(o))
  BY <1>2 DEF LogArrives, Busy, Active, Over
<1>3. ASSUME NEW u \in Users, FinishCreatingConversation(u)
      PROVE  \/ UNCHANGED <<stamp, clock>>
             \/ \E o \in Ops : Busy(o) /\ Compose(o)
  BY <1>3, FinishCreates DEF FinishCreatingConversation
<1>4. ASSUME NEW o \in Ops,
             Press(o) \/ UserNodeArrives(o) \/ RowsArrive(o) \/ PeerListArrives(o)
      PROVE  UNCHANGED <<stamp, clock>>
  BY <1>4 DEF Press, CreateNewConversation, SendMessage, UserNodeArrives,
              RowsArrive, PeerListArrives, heard, history
<1>5. ASSUME NEW u \in Users,
             \/ Completed(u) \/ Refused(u) \/ ServerApplies(u)
             \/ Reconnects(u) \/ Kill(u) \/ Hears(u)
      PROVE  UNCHANGED <<stamp, clock>>
  BY <1>5 DEF Completed, Refused, ServerApplies, Reconnects, Kill, Hears, HearsList,
              HearsLog, heard, history
<1> QED
  BY <1>1, <1>2, <1>3, <1>4, <1>5 DEF Next, Arrives, Replies

\* A call that is busy after a step was busy before it, or idle
LEMMA BusyKept ==
    ASSUME Serial, BaseInv, [Next]_vars
    PROVE  \A q \in Ops : Busy(q)' /\ pc[q] # "idle" => Busy(q)
<1>1. CASE \E o \in Ops : Press(o)
  <2>1. PICK o \in Ops : Press(o)
    BY <1>1
  <2>2. pc[o] = "idle"
    BY <2>1 DEF Press, CreateNewConversation, SendMessage
  <2> QED
    BY <2>1, <2>2, PressBusy
<1> QED
  BY <1>1, BusyStays

LEMMA BusyStep ==
    ASSUME Serial, BaseInv, BusyInv, [Next]_vars
    PROVE  BusyInv'
<1>1. CASE \E o \in Ops : Press(o)
  <2>1. PICK o \in Ops : Press(o)
    BY <1>1
  <2> QED
    BY <2>1, PressBusy DEF BusyInv, OneBusy, NewestBusy
<1>2. CASE \A q \in Ops : Busy(q)' => Busy(q)
  <2>1. OneBusy'
    BY <1>2 DEF BusyInv, OneBusy
  <2>2. NewestBusy'
    <3>1. CASE UNCHANGED <<stamp, clock>>
      BY <1>2, <3>1 DEF BusyInv, NewestBusy
    <3>2. CASE \E o \in Ops : Busy(o) /\ Compose(o)
      <4>1. PICK o \in Ops : Busy(o) /\ Compose(o)
        BY <3>2
      <4>2. stamp'[o] = clock'
        BY <4>1, BaseTypes DEF Compose
      <4>3. \A q \in Ops : Busy(q)' => q = o
        BY <1>2, <4>1 DEF BusyInv, OneBusy
      <4> QED
        BY <4>2, <4>3 DEF NewestBusy
    <3> QED
      BY <3>1, <3>2, BusyComposes
  <2> QED
    BY <2>1, <2>2 DEF BusyInv
<1> QED
  BY <1>1, <1>2, BusyStays

----------------------------------------------------------------------------
(* The calls and the messages, one call at a time                          *)

\* Two queued puts are of one call, and of these one has a block that waits
LEMMA OneAwaited ==
    ASSUME BaseInv, BusyInv, NEW w \in Users, NEW i \in 1..Len(outbox[w]),
           NEW x \in Users, NEW j \in 1..Len(outbox[x])
    PROVE  /\ outbox[w][i].op = outbox[x][j].op /\ w = x
           /\ Awaited(outbox[w][i]) /\ Awaited(outbox[x][j]) => i = j
<1>1. outbox[w][i].op = outbox[x][j].op
  BY PutBusy DEF BusyInv, OneBusy
<1>2. w = x
  BY <1>1, PutBusy DEF PutFits
<1> QED
  BY <1>1, <1>2 DEF BaseInv, CallInv, PutsAgree

\* A call keeps its arguments
LEMMA RequestsKept ==
    ASSUME BaseInv, [Next]_vars
    PROVE  \A q \in Ops : pc[q] # "idle" => req'[q] = req[q]
<1>1. CASE \E o \in Ops : Press(o)
  <2>1. PICK o \in Ops : Press(o)
    BY <1>1
  <2>2. pc[o] = "idle" /\ \A q \in Ops \ {o} : req'[q] = req[q]
    BY <2>1, BaseTypes DEF Press, CreateNewConversation, SendMessage
  <2> QED
    BY <2>2
<1>2. CASE UNCHANGED vars
  BY <1>2 DEF vars
<1>3. ASSUME NEW o \in Ops, Arrives(o) \/ PeerListArrives(o)
      PROVE  UNCHANGED req
  BY <1>3 DEF Arrives, UserNodeArrives, LogArrives, RowsArrive, PeerListArrives
<1>4. ASSUME NEW u \in Users,
             \/ Replies(u) \/ Refused(u) \/ ServerApplies(u)
             \/ Reconnects(u) \/ Kill(u) \/ Hears(u)
      PROVE  UNCHANGED req
  BY <1>4 DEF Replies, FinishCreatingConversation, Completed, Refused,
              ServerApplies, Reconnects, Kill, Hears, HearsList, HearsLog
<1> QED
  BY <1>1, <1>2, <1>3, <1>4 DEF Next

\* Every message is of a call to its conversation that has composed
LEMMA MessageSent ==
    ASSUME BaseInv, NEW c \in ConvIds, NEW i \in 1..Len(msgs[c])
    PROVE  /\ msgs[c][i] \in Ops /\ req[msgs[c][i]].conv = c
           /\ 0 < stamp[msgs[c][i]] /\ stamp[msgs[c][i]] <= clock
           /\ pc[msgs[c][i]] # "idle"
           /\ \A j \in 1..Len(msgs[c]) : i < j => stamp[msgs[c][i]] < stamp[msgs[c][j]]
<1>1. msgs[c] \in Seq(Ops)
  BY BaseTypes
<1>2. msgs[c][i] \in Ops
  BY <1>1, ElementOfSeq
<1>3. Ordered(msgs[c], c, req, stamp, clock)
  BY BaseTypes DEF OrderInv, LogsOrdered
<1>4. 0 < stamp[msgs[c][i]]
  BY <1>3 DEF Ordered
<1>5. pc[msgs[c][i]] # "idle"
  <2>1. \A o \in Ops : pc[o] = "idle" => stamp[o] = 0
    BY BaseTypes, StampType DEF Fresh
  <2> HIDE DEF BaseInv
  <2> QED
    BY <1>2, <1>4, <2>1
<1> QED
  BY <1>2, <1>3, <1>4, <1>5 DEF Ordered

\* The last message of a conversation that has one
LEMMA LastMessage ==
    ASSUME BaseInv, NEW c \in ConvIds, msgs[c] # <<>>
    PROVE  /\ Len(msgs[c]) \in 1..Len(msgs[c]) /\ 1 \in 1..Len(msgs[c])
           /\ LastOf(msgs[c]) \in Ops /\ pc[LastOf(msgs[c])] # "idle"
           /\ req[LastOf(msgs[c])].conv = c /\ stamp[LastOf(msgs[c])] > 0
<1>1. msgs[c] \in Seq(Ops)
  BY BaseTypes
<1>2. Len(msgs[c]) \in 1..Len(msgs[c]) /\ 1 \in 1..Len(msgs[c])
  BY <1>1, EmptySeq, LenProperties
<1> QED
  BY <1>2, MessageSent DEF LastOf

\* The first message is a creation's, the only one with that id
LEMMA FirstMessage ==
    ASSUME DistinctSeconds, BaseInv, NEW o \in Ops, req[o].kind = "create",
           pc[o] # "idle", msgs[req[o].conv] # <<>>
    PROVE  msgs[req[o].conv][1] = o
<1>1. PICK c \in ConvIds : c = req[o].conv
  BY BaseTypes DEF Requests
<1>2. 1 \in 1..Len(msgs[c])
  BY <1>1, LastMessage
<1>3. msgs[c][1] \in Ops /\ req[msgs[c][1]].conv = c
  BY <1>2, MessageSent
<1>4. req[msgs[c][1]].kind = "create"
  BY <1>1 DEF BaseInv, OrderInv, LogsOrdered, Ordered
<1> QED
  BY <1>1, <1>3, <1>4 DEF BaseInv, DistinctCreations, ConversationIdsDistinct

\* A creation that has not composed has no messages
LEMMA CreationEmpty ==
    ASSUME DistinctSeconds, BaseInv, NEW o \in Ops, req[o].kind = "create",
           pc[o] # "idle", stamp[o] = 0
    PROVE  msgs[req[o].conv] = <<>>
<1>1. PICK c \in ConvIds : c = req[o].conv
  BY BaseTypes DEF Requests
<1> SUFFICES ASSUME msgs[c] # <<>> PROVE FALSE
  BY <1>1
<1>2. msgs[c][1] = o /\ 1 \in 1..Len(msgs[c])
  BY <1>1, FirstMessage, LastMessage
<1>3. 0 < stamp[msgs[c][1]]
  BY <1>2, MessageSent
<1> QED
  BY <1>2, <1>3

\* A message of the call that composed last is the last one
LEMMA BusyMessageLast ==
    ASSUME BaseInv, BusyInv, NEW c \in ConvIds, NEW o \in Ops, Busy(o),
           NEW i \in 1..Len(msgs[c]), msgs[c][i] = o
    PROVE  i = Len(msgs[c])
<1>1. Len(msgs[c]) \in Nat
  BY BaseTypes, LenProperties
<1> SUFFICES ASSUME i < Len(msgs[c]) PROVE FALSE
  BY <1>1
<1> DEFINE n == Len(msgs[c])
<1>2. n \in 1..n /\ i < n
  BY <1>1
<1>3. stamp[msgs[c][i]] = clock
  BY MessageSent DEF BusyInv, NewestBusy
<1>4. /\ stamp[msgs[c][i]] < stamp[msgs[c][n]] /\ stamp[msgs[c][n]] <= clock
      /\ msgs[c][n] \in Ops
  BY <1>2, MessageSent
<1>5. stamp[msgs[c][n]] \in Nat /\ clock \in Nat
  BY <1>4, BaseTypes
<1> HIDE DEF n
<1>6. \A a, b \in Nat : ~ (b < a /\ a <= b)
  OBVIOUS
<1> QED
  BY <1>3, <1>4, <1>5, <1>6

\* While a creation is in progress, its message is the only one
LEMMA CreationLast ==
    ASSUME DistinctSeconds, BaseInv, BusyInv, NEW o \in Ops, Busy(o),
           req[o].kind = "create", pc[o] # "idle", msgs[req[o].conv] # <<>>
    PROVE  LastOf(msgs[req[o].conv]) = o
<1>1. PICK c \in ConvIds : c = req[o].conv
  BY BaseTypes DEF Requests
<1>2. msgs[c][1] = o /\ 1 \in 1..Len(msgs[c])
  BY <1>1, FirstMessage, LastMessage
<1>3. 1 = Len(msgs[c])
  BY <1>2, BusyMessageLast
<1> QED
  BY <1>1, <1>2, <1>3 DEF LastOf

\* The message that a call in progress has stored is the last one
LEMMA SentLast ==
    ASSUME BaseInv, BusyInv, CurrentInv, NEW o \in Ops, Busy(o), pc[o] # "idle",
           "log" \in told[o]
    PROVE  /\ msgs[req[o].conv] # <<>>
           /\ LastOf(msgs[req[o].conv]) = o
<1>1. PICK c \in ConvIds : c = req[o].conv
  BY BaseTypes DEF Requests
<1>2. PICK i \in 1..Len(msgs[c]) : msgs[c][i] = o
  BY <1>1 DEF CurrentInv, SentStored, Holds
<1>3. i = Len(msgs[c])
  BY <1>2, BusyMessageLast
<1>4. msgs[c] # <<>>
  BY <1>2, NoLength
<1> QED
  BY <1>1, <1>2, <1>3, <1>4 DEF LastOf

\* A call that reads the messages reads the stored ones
LEMMA SeenLogStored ==
    ASSUME Prompt, BaseInv, BusyInv, SendInv, NEW o \in Ops, pc[o] = "logRead"
    PROVE  SeenLog(req[o].me, req[o].conv) = msgs[req[o].conv]
<1>1. PICK u \in Users : u = req[o].me
  BY BaseTypes DEF Requests
<1>2. Busy(o)
  BY DEF Busy, Active, Over
<1>3. \A i \in 1..Len(outbox[u]) : outbox[u][i].to \notin LogWrites
  <2> SUFFICES ASSUME NEW i \in 1..Len(outbox[u]), outbox[u][i].to \in LogWrites
               PROVE  FALSE
    OBVIOUS
  <2>1. outbox[u][i].op = o
    BY <1>2, PutBusy DEF BusyInv, OneBusy
  <2> QED
    BY <2>1, PutBusy DEF PutFits, LogWrites
<1>4. DOMAIN outbox[u] = 1..Len(outbox[u])
  BY BaseTypes, LenProperties
<1>5. LastLogPut(outbox[u], req[o].conv) = {}
  BY <1>3, <1>4 DEF LastLogPut, WritesLog
<1>6. req[o].conv \notin late[u]
  BY <1>1 DEF SendInv, HeardSent
<1> QED
  BY <1>1, <1>5, <1>6 DEF SeenLog, LogOn

\* The places of an array that gets one more
LEMMA NextPlace ==
    \A a \in Nat : /\ ~(a < a)
                   /\ \A b \in 1..a : /\ b \in 1..a + 1 /\ b < a + 1
                                      /\ a + 1 \in 1..a + 1
OBVIOUS

\* An array with one more message
LEMMA LogLength ==
    \A s \in Seq(Ops), o \in Ops :
        /\ Len(s) \in Nat
        /\ s # <<>> => Len(s) \in 1..Len(s)
        /\ Len(Append(s, o)) = Len(s) + 1
        /\ Append(s, o)[Len(s) + 1] = o
        /\ \A j \in 1..Len(s) : Append(s, o)[j] = s[j]
<1> SUFFICES ASSUME NEW s \in Seq(Ops), NEW o \in Ops
             PROVE  /\ Len(s) \in Nat
                    /\ s # <<>> => Len(s) \in 1..Len(s)
                    /\ Len(Append(s, o)) = Len(s) + 1
                    /\ Append(s, o)[Len(s) + 1] = o
                    /\ \A j \in 1..Len(s) : Append(s, o)[j] = s[j]
  OBVIOUS
<1>1. Len(s) \in Nat /\ (s # <<>> => Len(s) # 0)
  BY EmptySeq, LenProperties
<1> QED
  BY <1>1, AppendProperties

----------------------------------------------------------------------------
(* What is put                                                             *)

\* p is what call o puts next
Composed(o, p) ==
    LET r == req[o] IN
    \/ /\ pc[o] = "userRead"
       /\ p = ListPut(o, "user", List(AppendRow(NodeList(r.me),
                                                Row(r.conv, r.other, o))))
    \/ /\ peer[o] = "read"
       /\ \/ p = ListPut(o, "entry", List(<<Row(r.conv, r.me, o)>>))
          \/ p = ListPut(o, "id", IdString)
    \/ /\ pc[o] = "logRead" /\ SeenLog(r.me, r.conv) # <<>>
       /\ p = LogPut(o, "log", Append(SeenLog(r.me, r.conv), o))
    \/ /\ pc[o] = "mineRead"
       /\ p = ListPut(o, "mine",
                      List(WithLatest(SeenList(r.me, r.me).rows, r.conv, o)))
    \/ /\ pc[o] = "peerRead"
       /\ p = ListPut(o, "theirs",
                      List(WithLatest(SeenList(r.me, r.other).rows, r.conv, o)))
    \/ pc[o] = "userWrite" /\ p = LogPut(o, "opening", <<o>>)

\* A put is in its queue already, or is one of these
OldPut(p, w) == \E j \in 1..Len(outbox[w]) : p = outbox[w][j]
NewPut(p) == \E o \in Ops : p \in Puts /\ Composed(o, p)

QueuesGrow == \A w \in Users : \A i \in 1..Len(outbox'[w]) :
                 OldPut(outbox'[w][i], w) \/ NewPut(outbox'[w][i])

LEMMA GrowsByPut ==
    ASSUME BaseInv, NEW o \in Ops, pc[o] # "idle" \/ peer[o] = "read",
           NEW p \in Puts, Composed(o, p), Put(req[o].me, p)
    PROVE  QueuesGrow
<1>1. PICK u \in Users : u = req[o].me
  BY BaseTypes, RequestType
<1>2. \A w \in Users : \A i \in 1..Len(outbox'[w]) :
         \/ \E j \in 1..Len(outbox[w]) : outbox'[w][i] = outbox[w][j]
         \/ outbox'[w][i] = p
  BY <1>1, BaseTypes, PutElements
<1>3. NewPut(p)
  BY DEF NewPut
<1> HIDE DEF NewPut, Composed
<1> QED
  BY <1>2, <1>3 DEF QueuesGrow, OldPut

LEMMA ArrivesGrows ==
    ASSUME BaseInv, NEW o \in Ops, Arrives(o) \/ PeerListArrives(o)
    PROVE  QueuesGrow
<1> DEFINE Answer == UNCHANGED outbox \/ \E p \in Puts : /\ Composed(o, p)
                                                      /\ Put(req[o].me, p)
<1>0. SUFFICES Answer
  <2>1. pc[o] # "idle" \/ peer[o] = "read"
    BY DEF Arrives, UserNodeArrives, LogArrives, RowsArrive, PeerListArrives
  <2>2. CASE UNCHANGED outbox
    BY <2>2 DEF QueuesGrow, OldPut
  <2>3. CASE \E p \in Puts : Composed(o, p) /\ Put(req[o].me, p)
    BY <2>1, <2>3, GrowsByPut
  <2> QED
    BY <2>2, <2>3
<1>1. CASE UserNodeArrives(o)
  <2> DEFINE p == ListPut(o, "user", List(AppendRow(NodeList(req[o].me),
                                                 Row(req[o].conv, req[o].other, o))))
  <2>1. pc[o] = "userRead" /\ (UNCHANGED outbox \/ Put(req[o].me, p))
    BY <1>1 DEF UserNodeArrives
  <2>2. p \in Puts /\ Composed(o, p)
    BY <2>1, BaseTypes, UserPutType DEF Composed
  <2> HIDE DEF p
  <2> QED
    BY <2>1, <2>2
<1>2. CASE PeerListArrives(o)
  <2> DEFINE entry == ListPut(o, "entry", List(<<Row(req[o].conv, req[o].me, o)>>))
             id == ListPut(o, "id", IdString)
  <2>1. peer[o] = "read" /\ (Put(req[o].me, id) \/ Put(req[o].me, entry))
    BY <1>2 DEF PeerListArrives
  <2>2. /\ entry \in Puts /\ Composed(o, entry)
        /\ id \in Puts /\ Composed(o, id)
    BY <2>1, BaseTypes, PeerPutTypes DEF Composed
  <2> HIDE DEF entry, id
  <2> QED
    BY <2>1, <2>2
<1>3. CASE LogArrives(o)
  <2> DEFINE log == SeenLog(req[o].me, req[o].conv)
             p == LogPut(o, "log", Append(log, o))
  <2>1. /\ pc[o] = "logRead"
        /\ UNCHANGED outbox \/ (log # <<>> /\ Put(req[o].me, p))
    BY <1>3 DEF LogArrives
  <2>2. p \in Puts /\ (log # <<>> => Composed(o, p))
    BY <2>1, BaseTypes, LogArrivesPutType DEF Composed
  <2> HIDE DEF p
  <2> QED
    BY <2>1, <2>2
<1>4. CASE RowsArrive(o)
  <2> DEFINE mine == pc[o] = "mineRead"
             value == SeenList(req[o].me, IF mine THEN req[o].me ELSE req[o].other)
             p == ListPut(o, IF mine THEN "mine" ELSE "theirs",
                          List(WithLatest(value.rows, req[o].conv, o)))
  <2>1. /\ pc[o] \in {"mineRead", "peerRead"}
        /\ UNCHANGED outbox \/ Put(req[o].me, p)
    BY <1>4 DEF RowsArrive
  <2>2. p \in Puts
    BY <2>1, BaseTypes, RowsPutType
  <2>3. Composed(o, p)
    <3>1. CASE mine
      BY <3>1 DEF Composed
    <3>2. CASE ~mine
      BY <2>1, <3>2 DEF Composed
    <3> QED
      BY <3>1, <3>2
  <2> HIDE DEF p
  <2> QED
    BY <2>1, <2>2, <2>3
<1> QED
  BY <1>1, <1>2, <1>3, <1>4 DEF Arrives

LEMMA AnswerGrows ==
    ASSUME BaseInv, NEW u \in Users, outbox[u] # <<>>,
           NEW more \in Seq(Puts), Answered(u, more),
           \A j \in 1..Len(more) : NewPut(more[j])
    PROVE  QueuesGrow
<1>1. \A w \in Users : \A i \in 1..Len(outbox'[w]) :
          \/ \E j \in 1..Len(outbox[w]) : outbox'[w][i] = outbox[w][j]
          \/ \E j \in 1..Len(more) : outbox'[w][i] = more[j]
  BY BaseTypes, AnsweredElements
<1> HIDE DEF NewPut
<1> QED
  BY <1>1 DEF QueuesGrow, OldPut

LEMMA AnswerOnlyGrows ==
    ASSUME BaseInv, NEW u \in Users, outbox[u] # <<>>, Answered(u, <<>>)
    PROVE  QueuesGrow
<1> DEFINE more == <<>>
<1>1. more \in Seq(Puts) /\ Answered(u, more) /\ \A j \in 1..Len(more) : FALSE
  BY NoLength
<1> HIDE DEF more
<1> QED
  BY <1>1, AnswerGrows

LEMMA QuitGrows ==
    ASSUME BaseInv, NEW u \in Users, Quit(u)
    PROVE  QueuesGrow
BY BaseTypes, QuitElements DEF QueuesGrow, OldPut

\* The server's part of the state changes only where it applies a put
LEMMA QueueStep ==
    ASSUME BaseInv, [Next]_vars
    PROVE  \/ \E u \in Users : ServerApplies(u)
           \/ UNCHANGED <<convs, msgs, told>> /\ QueuesGrow
<1>1. CASE UNCHANGED vars
  BY <1>1 DEF vars, heard, history, QueuesGrow, OldPut
<1>2. ASSUME NEW o \in Ops, Press(o)
      PROVE  UNCHANGED <<convs, msgs, told>> /\ QueuesGrow
  <2>1. UNCHANGED <<convs, msgs, told, outbox>>
    BY <1>2 DEF Press, CreateNewConversation, SendMessage, heard, history
  <2> QED
    BY <2>1 DEF QueuesGrow, OldPut
<1>3. ASSUME NEW o \in Ops, Arrives(o) \/ PeerListArrives(o)
      PROVE  UNCHANGED <<convs, msgs, told>> /\ QueuesGrow
  <2>1. UNCHANGED <<convs, msgs, told>>
    BY <1>3 DEF Arrives, UserNodeArrives, LogArrives, RowsArrive,
                PeerListArrives, heard, history
  <2> QED
    BY <1>3, <2>1, ArrivesGrows
<1>4. ASSUME NEW u \in Users, FinishCreatingConversation(u)
      PROVE  UNCHANGED <<convs, msgs, told>> /\ QueuesGrow
  <2>1. UNCHANGED <<convs, msgs, told>>
    BY <1>4 DEF FinishCreatingConversation
  <2>2. CASE u \in DottedLocale
    BY <1>4, <2>1, <2>2, QuitGrows DEF FinishCreatingConversation
  <2>3. CASE u \notin DottedLocale
    <3>1. PICK o \in Ops : /\ outbox[u] # <<>> /\ pc[o] = "userWrite"
                           /\ Answered(u, <<LogPut(o, "opening", <<o>>)>>)
      BY <1>4, <2>3, FinishCreates
    <3> DEFINE p == LogPut(o, "opening", <<o>>)
               more == <<p>>
    <3>2. more \in Seq(Puts) /\ p \in Puts
      BY OpeningPutType
    <3>3. NewPut(p)
      BY <3>1, <3>2 DEF NewPut, Composed
    <3>4. Answered(u, more)
      BY <3>1
    <3> HIDE DEF p, NewPut
    <3>5. \A j \in 1..Len(more) : NewPut(more[j])
      BY <3>3
    <3> HIDE DEF more
    <3> QED
      BY <2>1, <3>1, <3>2, <3>4, <3>5, AnswerGrows
  <2> QED
    BY <2>2, <2>3
<1>5. ASSUME NEW u \in Users, Completed(u) \/ Refused(u)
      PROVE  UNCHANGED <<convs, msgs, told>> /\ QueuesGrow
  <2>1. /\ outbox[u] # <<>> /\ Answered(u, <<>>)
        /\ UNCHANGED <<convs, msgs, told>>
    BY <1>5, FirstPut, BaseTypes DEF Completed, Refused, heard, history
  <2> QED
    BY <2>1, AnswerOnlyGrows
<1>6. ASSUME NEW u \in Users, Reconnects(u) \/ Hears(u)
      PROVE  UNCHANGED <<convs, msgs, told>> /\ QueuesGrow
  BY <1>6 DEF Reconnects, Hears, HearsList, HearsLog, heard, history, QueuesGrow,
              OldPut
<1>7. ASSUME NEW u \in Users, Kill(u)
      PROVE  UNCHANGED <<convs, msgs, told>> /\ QueuesGrow
  BY <1>7, QuitGrows DEF Kill, heard, history
<1> QED
  BY <1>1, <1>2, <1>3, <1>4, <1>5, <1>6, <1>7 DEF Next, Replies

----------------------------------------------------------------------------
(* Every new put fits                                                      *)

\* What RowCurrent says of a row with messages
LEMMA RowCurrentBy ==
    ASSUME BaseInv, NEW u, NEW row \in Rows, NEW done,
           msgs[row.id] # <<>> =>
              \A m \in Ops : /\ m = LastOf(msgs[row.id]) /\ req[m].kind = "send"
                             /\ Previewed(u, req[m], done[m])
                             => row.latest = m
    PROVE  RowCurrent(u, row, msgs, req, done)
<1>1. row.id \in ConvIds
  BY DEF Rows
<1>2. msgs[row.id] # <<>> => LastOf(msgs[row.id]) \in Ops
  BY <1>1, LastMessage
<1> QED
  BY <1>2 DEF RowCurrent

\* The same for writes done that preview no more of the last message
LEMMA RowCurrentLess ==
    ASSUME BaseInv, NEW u, NEW row \in Rows, NEW done, NEW less,
           RowCurrent(u, row, msgs, req, done),
           msgs[row.id] # <<>> =>
              \A m \in Ops : /\ m = LastOf(msgs[row.id]) /\ req[m].kind = "send"
                             /\ Previewed(u, req[m], less[m])
                             => Previewed(u, req[m], done[m])
    PROVE  RowCurrent(u, row, msgs, req, less)
BY RowCurrentBy DEF RowCurrent

LEMMA SeenCurrentOn ==
    ASSUME BaseInv
    PROVE  \A box \in Seq(Puts), stored \in ListValues : \A w :
              /\ RowsCurrent(w, stored, msgs, req, told)
              /\ \A i \in 1..Len(box) : PutCurrent(box[i], msgs, req, told)
              => RowsCurrent(w, ListOn(box, stored, w), msgs, req, told)
<1> SUFFICES ASSUME NEW box \in Seq(Puts), NEW stored \in ListValues, NEW w,
                    RowsCurrent(w, stored, msgs, req, told),
                    \A i \in 1..Len(box) : PutCurrent(box[i], msgs, req, told)
             PROVE  RowsCurrent(w, ListOn(box, stored, w), msgs, req, told)
  OBVIOUS
<1> DEFINE last == LastListPut(box, w)
<1>1. CASE last = {}
  BY <1>1 DEF ListOn
<1>2. CASE last # {}
  <2>1. PICK i \in last : i = (CHOOSE k \in last : TRUE)
    BY <1>2
  <2>2. /\ i \in 1..Len(box) /\ box[i].to \in ListWrites
        /\ OwnerIn(box[i], req) = w
    BY <2>1, LenProperties DEF LastListPut, WritesList, Owner, OwnerIn
  <2>3. PICK p \in Puts : p = box[i]
    BY <2>2, ElementOfSeq
  <2>4. /\ p.op \in Ops /\ p.list \in ListValues
        /\ RowsCurrent(w, p.list, msgs, req, DoneAfter(told, p))
    BY <2>2, <2>3, PutKinds DEF PutCurrent
  <2>5. \A m \in Ops : told[m] \subseteq DoneAfter(told, p)[m]
    BY <2>4, BaseTypes DEF DoneAfter
  <2>6. ASSUME NEW k \in 1..Len(p.list.rows)
        PROVE  RowCurrent(w, p.list.rows[k], msgs, req, told)
    <3>1. p.list.rows[k] \in Rows
      BY <2>4, RowsOfValue
    <3>2. RowCurrent(w, p.list.rows[k], msgs, req, DoneAfter(told, p))
      BY <2>4 DEF RowsCurrent
    <3>3. \A m \in Ops : Previewed(w, req[m], told[m])
                             => Previewed(w, req[m], DoneAfter(told, p)[m])
      BY <2>5 DEF Previewed
    <3> QED
      BY <3>1, <3>2, <3>3, RowCurrentLess
  <2> QED
    BY <1>2, <2>1, <2>3, <2>6 DEF ListOn, RowsCurrent
<1> QED
  BY <1>1, <1>2

LEMMA SeenListCurrent ==
    ASSUME BaseInv, CurrentInv, NEW u \in Users, NEW w \in Users,
           heardList[u] = convs[u]
    PROVE  /\ SeenList(u, w) \in ListValues
           /\ RowsCurrent(w, SeenList(u, w), msgs, req, told)
<1>1. SeenList(u, w) \in ListValues
  BY BaseTypes, SeenListFits
<1>2. outbox[u] \in Seq(Puts) /\ convs[w] \in ListValues
  BY BaseTypes
<1>3. /\ RowsCurrent(w, convs[w], msgs, req, told)
      /\ \A i \in 1..Len(outbox[u]) : PutCurrent(outbox[u][i], msgs, req, told)
  BY DEF CurrentInv, StoredCurrent, QueuedCurrent
<1>4. SeenList(u, w) = ListOn(outbox[u], convs[w], w)
  BY DEF SeenList
<1> QED
  BY <1>1, <1>2, <1>3, <1>4, SeenCurrentOn

LEMMA NodeListCurrent ==
    ASSUME BaseInv, CurrentInv, NEW u \in Users
    PROVE  /\ NodeList(u) \in ListValues
           /\ RowsCurrent(u, NodeList(u), msgs, req, told)
<1>1. NodeList(u) \in ListValues
  BY BaseTypes, NodeListFits
<1>2. outbox[u] \in Seq(Puts) /\ convs[u] \in ListValues
  BY BaseTypes
<1>3. /\ RowsCurrent(u, convs[u], msgs, req, told)
      /\ \A i \in 1..Len(outbox[u]) : PutCurrent(outbox[u][i], msgs, req, told)
  BY DEF CurrentInv, StoredCurrent, QueuedCurrent
<1> QED
  BY <1>1, <1>2, <1>3, SeenCurrentOn DEF NodeList

\* A put of call o says nothing more of the other calls
LEMMA OthersDone ==
    ASSUME BaseInv, NEW p \in Puts, NEW m \in Ops \ {p.op}
    PROVE  DoneAfter(told, p)[m] = told[m]
BY BaseTypes, PutKinds DEF DoneAfter

LEMMA UserPutCurrent ==
    ASSUME DistinctSeconds, BaseInv, BusyInv, CurrentInv,
           NEW o \in Ops, pc[o] = "userRead", NEW p \in Puts,
           p = ListPut(o, "user", List(AppendRow(NodeList(req[o].me),
                                          Row(req[o].conv, req[o].other, o))))
    PROVE  PutCurrent(p, msgs, req, told)
<1> DEFINE row == Row(req[o].conv, req[o].other, o)
           value == NodeList(req[o].me)
           new == AppendRow(value, row)
<1>1. PICK u \in Users : u = req[o].me
  BY BaseTypes DEF Requests
<1>2. /\ value \in ListValues /\ RowsCurrent(u, value, msgs, req, told)
      /\ row \in Rows /\ row.id = req[o].conv
  <2>1. /\ req[o].conv \in ConvIds /\ req[o].other \in Users
    BY BaseTypes DEF Requests
  <2> QED
    BY <1>1, <2>1, NodeListCurrent DEF Row, Rows
<1>3. p.list.rows = new /\ p.op = o /\ OwnerIn(p, req) = u
  BY <1>1, PutFields DEF List, OwnerIn, ListPut
<1> HIDE DEF row, value
<1>4. /\ new \in Seq(Rows)
      /\ \A i \in 1..Len(new) : \/ new[i] = row
                                \/ \E j \in 1..Len(value.rows) : new[i] = value.rows[j]
  <2>1. value.rows \in Seq(Rows)
    BY <1>2, RowsOfValue
  <2>2. CASE value.kind = "list"
    <3>1. new = Append(value.rows, row)
      BY <2>2 DEF AppendRow
    <3> HIDE DEF new
    <3> QED
      BY <1>2, <2>1, <3>1, AppendProperties
  <2>3. CASE value.kind # "list"
    <3>1. new = <<row>>
      BY <2>3 DEF AppendRow
    <3> HIDE DEF new
    <3> QED
      BY <1>2, <3>1
  <2> QED
    BY <2>2, <2>3
<1> HIDE DEF new
<1>5. msgs[req[o].conv] = <<>> /\ stamp[o] = 0
  <2>1. req[o].kind = "create" /\ stamp[o] = 0
    BY BaseTypes, StampType DEF Fresh
  <2> QED
    BY <2>1, CreationEmpty
<1>6. ASSUME NEW i \in 1..Len(new)
      PROVE  RowCurrent(u, new[i], msgs, req, DoneAfter(told, p))
  <2>1. CASE new[i] = row
    BY <1>2, <1>5, <2>1, RowCurrentBy
  <2>2. ASSUME NEW j \in 1..Len(value.rows), new[i] = value.rows[j]
        PROVE  RowCurrent(u, new[i], msgs, req, DoneAfter(told, p))
    <3>1. PICK r \in Rows : r = value.rows[j]
      BY <1>2, RowsOfValue
    <3>2. RowCurrent(u, r, msgs, req, told)
      BY <1>2, <3>1 DEF RowsCurrent
    <3>3. r.id \in ConvIds
      BY DEF Rows
    <3>4. msgs[r.id] # <<>> => LastOf(msgs[r.id]) # o
      BY <1>5, <3>3, LastMessage
    <3>5. \A m \in Ops : m # o => DoneAfter(told, p)[m] = told[m]
      BY <1>3, OthersDone
    <3> QED
      BY <2>2, <3>1, <3>2, <3>4, <3>5, RowCurrentLess
  <2> QED
    BY <1>4, <2>1, <2>2
<1> QED
  BY <1>3, <1>6 DEF PutCurrent, RowsCurrent

LEMMA UpdatePutCurrent ==
    ASSUME DistinctSeconds, BaseInv, BusyInv, CurrentInv,
           NEW o \in Ops, peer[o] = "read", NEW p \in Puts,
           \/ p = ListPut(o, "entry", List(<<Row(req[o].conv, req[o].me, o)>>))
           \/ p = ListPut(o, "id", IdString)
    PROVE  PutCurrent(p, msgs, req, told)
<1> DEFINE row == Row(req[o].conv, req[o].me, o)
<1>1. /\ Stage(pc[o], req[o].kind, told[o], peer[o]) /\ pc[o] # "idle"
      /\ req[o] \in Requests
  BY BaseTypes, ChainTypes
<1>2. req[o].kind = "create" /\ Busy(o)
  BY <1>1 DEF Stage, Busy
<1>3. row \in Rows /\ row.id = req[o].conv
  BY <1>1 DEF Row, Rows, Requests
<1>4. msgs[row.id] # <<>> => LastOf(msgs[row.id]) = o
  BY <1>1, <1>2, <1>3, CreationLast
<1> HIDE DEF row
<1>5. RowCurrent(OwnerIn(p, req), row, msgs, req, DoneAfter(told, p))
  BY <1>2, <1>3, <1>4, RowCurrentBy
<1>6. CASE p = ListPut(o, "entry", List(<<row>>))
  <2>1. p.list.rows = <<row>>
    BY <1>6, PutFields DEF List
  <2>2. \A i \in 1..Len(p.list.rows) : p.list.rows[i] = row
    BY <2>1
  <2> QED
    BY <1>5, <2>2 DEF PutCurrent, RowsCurrent
<1>7. CASE p = ListPut(o, "id", IdString)
  <2>1. Len(p.list.rows) = 0
    BY <1>7, NoLength, PutFields DEF IdString
  <2>2. \A i \in 1..Len(p.list.rows) : FALSE
    BY <2>1
  <2> QED
    BY <2>2 DEF PutCurrent, RowsCurrent
<1> QED
  BY <1>6, <1>7 DEF row

LEMMA PreviewPutCurrent ==
    ASSUME DistinctSeconds, BaseInv, BusyInv, CurrentInv, SendInv,
           NEW o \in Ops, pc[o] \in {"mineRead", "peerRead"},
           NEW to \in {"mine", "theirs"}, NEW w \in Users,
           w = OwnerIn([op |-> o, to |-> to], req), NEW p \in Puts,
           p = ListPut(o, to, List(WithLatest(SeenList(req[o].me, w).rows,
                                              req[o].conv, o)))
    PROVE  PutCurrent(p, msgs, req, told)
<1> DEFINE value == SeenList(req[o].me, w)
           c == req[o].conv
           new == WithLatest(value.rows, c, o)
<1>1. /\ Stage(pc[o], req[o].kind, told[o], peer[o])
      /\ req[o] \in Requests
  BY BaseTypes, ChainTypes
<1>2. "log" \in told[o] /\ Busy(o) /\ req[o].me \in Users /\ c \in ConvIds
  BY <1>1 DEF Stage, AfterLog, Busy, Active, Over, Requests
<1>3. LastOf(msgs[c]) = o
  BY <1>2, SentLast
<1>4. /\ value \in ListValues /\ RowsCurrent(w, value, msgs, req, told)
      /\ ListFits(w, value, pc, req, told)
  <2>1. heardList[req[o].me] = convs[req[o].me]
    BY <1>2 DEF SendInv, HeardOwn
  <2> QED
    BY <1>2, <2>1, SeenListCurrent, SeenListFits, BaseTypes
<1>5. /\ p.list.rows = new /\ p.op = o /\ OwnerIn(p, req) = w
      /\ p.to \in ListWrites
  BY PutFields DEF List, OwnerIn, ListPut, ListWrites
<1> HIDE DEF value, c
<1>6. /\ value.rows \in Seq(Rows) /\ DOMAIN value.rows = 1..Len(value.rows)
      /\ Len(value.rows) \in Nat
      /\ \A i \in 1..Len(value.rows) : value.rows[i] \in Rows
  BY <1>4, RowsOfValue
<1>7. /\ new \in Seq(Rows) /\ DOMAIN new = 1..Len(value.rows)
      /\ Len(new) = Len(value.rows)
  <2>1. new \in Seq(Rows)
    BY <1>2, <1>6, WithLatestType
  <2>2. DOMAIN new = 1..Len(value.rows)
    BY <1>6 DEF WithLatest
  <2> HIDE DEF new
  <2> QED
    BY <1>6, <2>1, <2>2, LenProperties
<1>8. ASSUME NEW i \in 1..Len(value.rows)
      PROVE  RowCurrent(w, new[i], msgs, req, DoneAfter(told, p))
  <2>1. PICK r \in Rows : r = value.rows[i]
    BY <1>6
  <2>2. CASE r.id = c
    <3>1. IsFirstRow(value.rows, i, c)
      <4>1. \A j \in 1..Len(value.rows) : value.rows[j].id = c => j = i
        BY <1>4, <2>1, <2>2 DEF ListFits
      <4>2. \A j \in 1..Len(value.rows) : j < i => j # i
        BY <1>6
      <4> QED
        BY <1>6, <2>1, <2>2, <4>1, <4>2 DEF IsFirstRow
    <3>2. new[i] = [r EXCEPT !.latest = o]
      BY <1>6, <2>1, <3>1 DEF WithLatest
    <3>3. new[i] \in Rows /\ new[i].id = c /\ new[i].latest = o
      BY <2>2, <3>2 DEF Rows
    <3> HIDE DEF new
    <3> QED
      BY <1>3, <3>3, RowCurrentBy
  <2>3. CASE r.id # c
    <3>1. new[i] = r
      BY <1>6, <2>1, <2>3 DEF WithLatest, IsFirstRow
    <3>2. RowCurrent(w, r, msgs, req, told)
      BY <1>4, <2>1 DEF RowsCurrent
    <3>3. r.id \in ConvIds
      BY DEF Rows
    <3>4. msgs[r.id] # <<>> => LastOf(msgs[r.id]) # o
      BY <2>3, <3>3, LastMessage DEF c
    <3>5. \A m \in Ops : m # o => DoneAfter(told, p)[m] = told[m]
      BY <1>5, OthersDone
    <3> HIDE DEF new
    <3> QED
      BY <3>1, <3>2, <3>4, <3>5, RowCurrentLess
  <2> QED
    BY <2>2, <2>3
<1> HIDE DEF new
<1> QED
  BY <1>5, <1>7, <1>8 DEF PutCurrent, RowsCurrent

LEMMA NewPutFits ==
    ASSUME DistinctSeconds, BaseInv, BusyInv, CurrentInv, SendInv, NEW p, NewPut(p)
    PROVE  /\ UpdateFits(p, req) /\ LogFits(p, req, msgs) /\ LogEnds(p)
           /\ PutCurrent(p, msgs, req, told)
           /\ p \in Puts /\ pc[p.op] # "idle"
<1>1. PICK o \in Ops : p \in Puts /\ Composed(o, p)
  BY DEF NewPut
<1> DEFINE r == req[o]
           Fits == /\ UpdateFits(p, req) /\ LogFits(p, req, msgs) /\ LogEnds(p)
                   /\ PutCurrent(p, msgs, req, told)
                   /\ p.op = o
<1>0. SUFFICES Fits
  <2>1. pc[o] # "idle"
    BY <1>1, BaseTypes, ChainTypes DEF Composed
  <2> QED
    BY <1>1, <2>1
<1>2. CASE pc[o] = "userRead" /\ p = ListPut(o, "user",
                 List(AppendRow(NodeList(r.me), Row(r.conv, r.other, o))))
  <2>1. p.to = "user" /\ p.op = o
    BY <1>2, PutFields
  <2> QED
    BY <1>1, <1>2, <2>1, UserPutCurrent
    DEF UpdateFits, Awaited, LogFits, LogEnds, LogWrites
<1>3. CASE /\ peer[o] = "read"
           /\ \/ p = ListPut(o, "entry", List(<<Row(r.conv, r.me, o)>>))
              \/ p = ListPut(o, "id", IdString)
  <2>1. p.to \in {"entry", "id"} /\ p.op = o
    BY <1>3, PutFields
  <2>2. req[o].kind = "create"
    BY <1>3, BaseTypes, ChainTypes DEF Stage
  <2>3. PutCurrent(p, msgs, req, told)
    BY <1>1, <1>3, UpdatePutCurrent
  <2> QED
    BY <2>1, <2>2, <2>3 DEF UpdateFits, LogFits, LogEnds, LogWrites
<1>4. CASE pc[o] = "logRead" /\ SeenLog(r.me, r.conv) # <<>>
           /\ p = LogPut(o, "log", Append(SeenLog(r.me, r.conv), o))
  <2>1. PICK log \in Seq(Ops) : log = SeenLog(r.me, r.conv) /\ log # <<>>
    <3>1. r.me \in Users /\ r.conv \in ConvIds
      BY <1>4, BaseTypes DEF Requests
    <3> QED
      BY <1>4, <3>1, SeenLogType, BaseTypes DEF TypeInv
  <2>2. p.to = "log" /\ p.op = o /\ p.log = Append(log, o)
    <3>1. p = LogPut(o, "log", Append(log, o))
      BY <1>4, <2>1
    <3> HIDE DEF r
    <3> QED
      BY <3>1 DEF LogPut
  <2>3. Prompt => log = msgs[r.conv]
    BY <1>4, <2>1, SeenLogStored
  <2>4. LastOf(p.log) = o /\ Len(p.log) > 1
    <3>1. /\ Len(log) \in Nat /\ Len(log) \in 1..Len(log)
          /\ Len(Append(log, o)) = Len(log) + 1 /\ Append(log, o)[Len(log) + 1] = o
      BY <2>1, LogLength
    <3>2. Len(p.log) = Len(log) + 1 /\ p.log[Len(log) + 1] = o
      BY <2>2, <3>1
    <3>3. \A n \in Nat : n \in 1..n => n + 1 > 1
      OBVIOUS
    <3> QED
      BY <3>1, <3>2, <3>3 DEF LastOf
  <2> QED
    BY <2>2, <2>3, <2>4
    DEF UpdateFits, Awaited, LogFits, LogEnds, PutCurrent, ListWrites
<1>5. CASE pc[o] = "mineRead" /\ p = ListPut(o, "mine",
                 List(WithLatest(SeenList(r.me, r.me).rows, r.conv, o)))
  <2>1. p.to = "mine" /\ p.op = o
    BY <1>5, PutFields
  <2>2. r.me \in Users /\ r.me = OwnerIn([op |-> o, to |-> "mine"], req)
    BY <1>5, BaseTypes DEF Requests, OwnerIn
  <2>3. PutCurrent(p, msgs, req, told)
    BY <1>1, <1>5, <2>2, PreviewPutCurrent
  <2> QED
    BY <2>1, <2>3 DEF UpdateFits, Awaited, LogFits, LogEnds, LogWrites
<1>6. CASE pc[o] = "peerRead" /\ p = ListPut(o, "theirs",
                 List(WithLatest(SeenList(r.me, r.other).rows, r.conv, o)))
  <2>1. p.to = "theirs" /\ p.op = o
    BY <1>6, PutFields
  <2>2. r.other \in Users /\ r.other = OwnerIn([op |-> o, to |-> "theirs"], req)
    BY <1>6, BaseTypes DEF Requests, OwnerIn
  <2>3. PutCurrent(p, msgs, req, told)
    BY <1>1, <1>6, <2>2, PreviewPutCurrent
  <2> QED
    BY <2>1, <2>3 DEF UpdateFits, Awaited, LogFits, LogEnds, LogWrites
<1>7. CASE pc[o] = "userWrite" /\ p = LogPut(o, "opening", <<o>>)
  <2>1. req[o].kind = "create" /\ stamp[o] = 0
    BY <1>7, BaseTypes, StampType DEF Fresh
  <2>2. msgs[req[o].conv] = <<>>
    BY <1>7, <2>1, CreationEmpty
  <2>3. p.to = "opening" /\ p.op = o /\ p.log = <<o>>
    BY <1>7, PutFields
  <2>4. p.log = Append(msgs[req[o].conv], o) /\ LastOf(p.log) = o
    BY <2>2, <2>3 DEF LastOf
  <2> QED
    BY <2>3, <2>4
    DEF UpdateFits, Awaited, LogFits, LogEnds, PutCurrent, ListWrites
<1> HIDE DEF Fits
<1> QED
  BY <1>1, <1>2, <1>3, <1>4, <1>5, <1>6, <1>7 DEF Composed

----------------------------------------------------------------------------
(* The server stores a put                                                 *)

\* Which put it is, and what it does
LEMMA ServerStores ==
    ASSUME BaseInv, NEW u \in Users, ServerApplies(u)
    PROVE  \E k \in 1..Len(outbox[u]), p \in Puts :
              /\ p = outbox[u][k] /\ p.op \in Ops /\ Busy(p.op)
              /\ PutFits(u, p, pc, req) /\ pc[p.op] # "idle"
              /\ req[p.op] \in Requests /\ req[p.op].conv \in ConvIds
              /\ OwnerIn(p, req) \in Users
              /\ UNCHANGED <<outbox, pc, req, peer, stamp, clock>>
              /\ told' = DoneAfter(told, p)
              /\ \/ /\ p.to \in ListWrites /\ UNCHANGED msgs
                    /\ convs' = [convs EXCEPT ![OwnerIn(p, req)] = p.list]
                 \/ /\ p.to \in LogWrites /\ UNCHANGED convs
                    /\ msgs' = [msgs EXCEPT ![req[p.op].conv] = p.log]
<1>1. applied[u] + 1 \in 1..Len(outbox[u])
  BY BaseTypes, NextPut
<1>2. PICK k \in 1..Len(outbox[u]) : k = applied[u] + 1
  BY <1>1
<1>3. PICK p \in Puts : p = outbox[u][k]
  BY PutBusy
<1>4. p.op \in Ops /\ Busy(p.op) /\ PutFits(u, p, pc, req)
  BY <1>3, PutBusy
<1>5. pc[p.op] # "idle"
  BY <1>4 DEF PutFits
<1>6. /\ req[p.op] \in Requests /\ req[p.op].conv \in ConvIds
      /\ OwnerIn(p, req) \in Users
  BY <1>4, <1>5, BaseTypes DEF Requests, OwnerIn
<1>7. /\ UNCHANGED <<outbox, pc, req, peer, stamp, clock>>
      /\ told' = DoneAfter(told, p)
      /\ \/ /\ p.to \in ListWrites /\ UNCHANGED msgs
            /\ convs' = [convs EXCEPT ![OwnerIn(p, req)] = p.list]
         \/ /\ p.to \in LogWrites /\ UNCHANGED convs
            /\ msgs' = [msgs EXCEPT ![req[p.op].conv] = p.log]
  BY <1>2, <1>3 DEF ServerApplies, DoneAfter, Owner, OwnerIn
<1> QED
  BY <1>3, <1>4, <1>5, <1>6, <1>7

\* What is done for the calls once a put is stored
LEMMA DoneOnce ==
    ASSUME BaseInv, NEW p \in Puts, p.op \in Ops, NEW q \in Ops
    PROVE  /\ told[q] \subseteq DoneAfter(told, p)[q]
           /\ DoneAfter(told, p)[q] \subseteq told[q] \cup {p.to}
           /\ q # p.op => DoneAfter(told, p)[q] = told[q]
           /\ p.to \in DoneAfter(told, p)[p.op]
BY BaseTypes DEF DoneAfter

LEMMA DoneTwice ==
    ASSUME BaseInv, NEW p \in Puts, p.op \in Ops, NEW r \in Puts, r.op \in Ops,
           NEW q \in Ops
    PROVE  LET twice == DoneAfter(DoneAfter(told, p), r)
           IN  /\ q # p.op => twice[q] = DoneAfter(told, r)[q]
               /\ twice[q] \subseteq DoneAfter(told, r)[q] \cup {p.to}
               /\ r = p => twice[q] = DoneAfter(told, p)[q]
BY BaseTypes DEF DoneAfter

\* A list of w's is stored
LEMMA ListStored ==
    ASSUME BaseInv, BusyInv, CurrentInv, NEW u \in Users,
           NEW k \in 1..Len(outbox[u]), NEW p \in Puts, p = outbox[u][k],
           p.op \in Ops, OwnerIn(p, req) \in Users, PutFits(u, p, pc, req),
           p.to \in ListWrites, UNCHANGED <<msgs, outbox, pc, req, peer>>,
           told' = DoneAfter(told, p),
           convs' = [convs EXCEPT ![OwnerIn(p, req)] = p.list]
    PROVE  CurrentInv'
<1>1. QueueFits'
  BY DEF CurrentInv, QueueFits
<1>2. SentStored' /\ SentGrown'
  <2>1. \A o \in Ops : "log" \in told'[o] => "log" \in told[o]
    BY DoneOnce DEF ListWrites
  <2>2. \A o \in Ops : Busy(o)' <=> Busy(o)
    BY DEF Busy, Active, Waits
  <2> QED
    BY <2>1, <2>2 DEF CurrentInv, SentStored, SentGrown
<1>3. p.list \in ListValues /\ RowsCurrent(OwnerIn(p, req), p.list, msgs, req, told')
  BY PutKinds DEF CurrentInv, QueuedCurrent, PutCurrent
<1>4. StoredCurrent'
  <2> SUFFICES ASSUME NEW w \in Users
               PROVE  RowsCurrent(w, convs'[w], msgs, req, told')
    BY DEF StoredCurrent
  <2>1. CASE w = OwnerIn(p, req)
    <3>1. convs'[w] = p.list
      BY <2>1, BaseTypes
    <3> QED
      BY <1>3, <2>1, <3>1
  <2>2. CASE w # OwnerIn(p, req)
    <3>1. convs'[w] = convs[w] /\ convs[w] \in ListValues
      BY <2>2, BaseTypes
    <3>2. \A m \in Ops : Previewed(w, req[m], told'[m]) => Previewed(w, req[m], told[m])
      <4> SUFFICES ASSUME NEW m \in Ops, Previewed(w, req[m], told'[m])
                   PROVE  Previewed(w, req[m], told[m])
        OBVIOUS
      <4>1. CASE m # p.op
        BY <4>1, DoneOnce
      <4>2. CASE m = p.op
        <5>1. told'[m] \subseteq told[m] \cup {p.to}
          BY DoneOnce
        <5>2. /\ p.to = "mine" => w # req[m].me
              /\ p.to = "theirs" => w # req[m].other
          BY <2>2, <4>2 DEF OwnerIn
        <5> QED
          BY <5>1, <5>2 DEF Previewed
      <4> QED
        BY <4>1, <4>2
    <3>3. ASSUME NEW i \in 1..Len(convs[w].rows)
          PROVE  RowCurrent(w, convs[w].rows[i], msgs, req, told')
      <4>1. RowCurrent(w, convs[w].rows[i], msgs, req, told)
        BY DEF CurrentInv, StoredCurrent, RowsCurrent
      <4>2. convs[w].rows[i] \in Rows
        BY <3>1, RowsOfValue
      <4> DEFINE done == told'
      <4>3. \A m \in Ops : Previewed(w, req[m], done[m]) => Previewed(w, req[m], told[m])
        BY <3>2
      <4> HIDE DEF done
      <4>4. RowCurrent(w, convs[w].rows[i], msgs, req, done)
        BY <4>1, <4>2, <4>3, RowCurrentLess
      <4> QED
        BY <4>4 DEF done
    <3> QED
      BY <3>1, <3>3 DEF RowsCurrent
  <2> QED
    BY <2>1, <2>2
<1>5. QueuedCurrent'
  <2> SUFFICES ASSUME NEW x \in Users, NEW j \in 1..Len(outbox[x]),
                      outbox[x][j].to \in ListWrites
               PROVE  PutCurrent(outbox[x][j], msgs, req, told')
    BY DEF QueuedCurrent, PutCurrent
  <2>1. PICK r \in Puts : r = outbox[x][j] /\ r.op \in Ops
    BY PutBusy
  <2>2. /\ r.list \in ListValues
        /\ RowsCurrent(OwnerIn(r, req), r.list, msgs, req, DoneAfter(told, r))
    BY <2>1, PutKinds DEF CurrentInv, QueuedCurrent, PutCurrent
  <2>3. r.op = p.op /\ (r = p \/ ~Awaited(r) \/ ~Awaited(p))
    BY <2>1, OneAwaited
  <2>4. ASSUME NEW m \in Ops, req[m].kind = "send",
               Previewed(OwnerIn(r, req), req[m], DoneAfter(told', r)[m])
        PROVE  Previewed(OwnerIn(r, req), req[m], DoneAfter(told, r)[m])
    <3>1. CASE r = p
      BY <2>1, <2>4, <3>1, DoneTwice
    <3>2. CASE m # p.op
      BY <2>1, <2>4, <3>2, DoneTwice
    <3>3. CASE m = p.op /\ ~Awaited(r)
      BY <2>1, <2>3, <2>4, <3>3 DEF CurrentInv, QueueFits, UpdateFits
    <3>4. CASE m = p.op /\ ~Awaited(p)
      BY <2>4, <3>4 DEF CurrentInv, QueueFits, UpdateFits
    <3> QED
      BY <2>3, <3>1, <3>2, <3>3, <3>4
  <2>5. ASSUME NEW i \in 1..Len(r.list.rows)
        PROVE  RowCurrent(OwnerIn(r, req), r.list.rows[i], msgs, req, DoneAfter(told', r))
    <3>1. RowCurrent(OwnerIn(r, req), r.list.rows[i], msgs, req, DoneAfter(told, r))
      BY <2>2 DEF RowsCurrent
    <3>2. r.list.rows[i] \in Rows
      BY <2>2, RowsOfValue
    <3> DEFINE done == DoneAfter(told', r)
    <3>3. \A m \in Ops : /\ req[m].kind = "send"
                         /\ Previewed(OwnerIn(r, req), req[m], done[m])
                         => Previewed(OwnerIn(r, req), req[m], DoneAfter(told, r)[m])
      BY <2>4
    <3> HIDE DEF done
    <3>4. RowCurrent(OwnerIn(r, req), r.list.rows[i], msgs, req, done)
      BY <3>1, <3>2, <3>3, RowCurrentLess
    <3> QED
      BY <3>4 DEF done
  <2> QED
    BY <2>1, <2>5 DEF PutCurrent, RowsCurrent
<1> QED
  BY <1>1, <1>2, <1>4, <1>5 DEF CurrentInv

\* A message array that is longer brings a new message
LEMMA AddedOnce ==
    ASSUME BaseInv, NEW u \in Users, NEW k \in 1..Len(outbox[u]),
           NEW p \in Puts, p = outbox[u][k], NEW o \in Ops, o = p.op,
           NEW c \in ConvIds, c = req[o].conv,
           p.to \in LogWrites, p.log = Append(msgs[c], o)
    PROVE  \A d \in ConvIds : ~Holds(msgs[d], o)
<1> SUFFICES ASSUME NEW d \in ConvIds, NEW i \in 1..Len(msgs[d]), msgs[d][i] = o
             PROVE  FALSE
  BY DEF Holds
<1>1. d = c
  BY MessageSent
<1>2. Ordered(p.log, c, req, stamp, clock)
  BY DEF BaseInv, OrderInv, PutsOrdered, PutOrdered
<1>3. msgs[c] \in Seq(Ops)
  BY BaseTypes
<1> DEFINE n == Len(msgs[c])
<1>4. /\ n \in Nat
      /\ Len(p.log) = n + 1 /\ p.log[n + 1] = o
      /\ \A j \in 1..n : p.log[j] = msgs[c][j]
  <2>1. PICK s \in Seq(Ops) : s = msgs[c]
    BY <1>3
  <2>2. p.log = Append(s, o)
    BY <2>1
  <2>3. /\ Len(s) \in Nat
        /\ Len(Append(s, o)) = Len(s) + 1
        /\ Append(s, o)[Len(s) + 1] = o
        /\ \A j \in 1..Len(s) : Append(s, o)[j] = s[j]
    BY LogLength
  <2>4. n = Len(s)
    BY <2>1
  <2> HIDE DEF n
  <2> QED
    BY <2>1, <2>2, <2>3, <2>4
<1>5. /\ i \in 1..n /\ i \in 1..n + 1 /\ n + 1 \in 1..n + 1 /\ i < n + 1
  <2>1. i \in 1..n
    BY <1>1
  <2> HIDE DEF n
  <2> QED
    BY <1>4, <2>1, NextPlace, Zenon
<1>6. p.log[i] = o
  BY <1>1, <1>4, <1>5
<1>7. stamp[p.log[i]] < stamp[p.log[n + 1]]
  BY <1>2, <1>4, <1>5 DEF Ordered
<1> HIDE DEF n
<1>8. stamp[o] \in Nat /\ stamp[o] < stamp[o]
  BY <1>4, <1>6, <1>7, BaseTypes
<1> QED
  BY <1>8, NextPlace, Zenon

LEMMA RowAfterLog ==
    ASSUME BaseInv, NEW w, NEW row \in Rows, NEW done, NEW less,
           NEW o \in Ops, NEW c \in ConvIds, NEW log \in Seq(Ops), LastOf(log) = o,
           ~(req[o].kind = "send" /\ Previewed(w, req[o], less[o])),
           RowCurrent(w, row, msgs, req, done),
           \A m \in Ops : Previewed(w, req[m], less[m]) => Previewed(w, req[m], done[m])
    PROVE  RowCurrent(w, row, [msgs EXCEPT ![c] = log], req, less)
<1> DEFINE ms == [msgs EXCEPT ![c] = log]
<1>1. row.id \in ConvIds /\ msgs \in [ConvIds -> Seq(Ops)]
  BY BaseTypes DEF Rows
<1>2. RowCurrent(w, row, msgs, req, less)
  BY RowCurrentLess
<1>3. CASE row.id # c
  <2>1. ms[row.id] = msgs[row.id]
    BY <1>1, <1>3
  <2> HIDE DEF ms
  <2> QED
    BY <1>2, <2>1 DEF RowCurrent
<1>4. CASE row.id = c
  <2>1. ms[row.id] = log
    BY <1>1, <1>4
  <2>2. ~(req[o].kind = "send" /\ Previewed(w, req[o], less[o]))
    OBVIOUS
  <2>3. LastOf(ms[row.id]) = o
    BY <2>1
  <2> HIDE DEF ms
  <2>4. ~(/\ req[LastOf(ms[row.id])].kind = "send"
          /\ Previewed(w, req[LastOf(ms[row.id])], less[LastOf(ms[row.id])]))
    BY <2>2, <2>3
  <2>5. RowCurrent(w, row, ms, req, less)
    BY <2>4, Zenon DEF RowCurrent
  <2> QED
    BY <2>5 DEF ms
<1> QED
  BY <1>3, <1>4

\* A message array is stored
LEMMA LogStored ==
    ASSUME BaseInv, BusyInv, CurrentInv, SendInv, NEW u \in Users,
           NEW k \in 1..Len(outbox[u]), NEW p \in Puts, p = outbox[u][k],
           NEW o \in Ops, o = p.op, PutFits(u, p, pc, req),
           NEW c \in ConvIds, c = req[o].conv,
           p.to \in LogWrites, UNCHANGED <<convs, outbox, pc, req, peer>>,
           told' = DoneAfter(told, p), msgs' = [msgs EXCEPT ![c] = p.log]
    PROVE  CurrentInv'
<1>1. /\ p.log \in Seq(Ops) /\ LastOf(p.log) = o
      /\ p.to = "log" => Len(p.log) > 1
      /\ Prompt \/ p.to = "opening" => p.log = msgs[c] \/ p.log = Append(msgs[c], o)
      /\ msgs \in [ConvIds -> Seq(Ops)]
  BY PutKinds, BaseTypes DEF CurrentInv, QueueFits, LogFits, LogEnds
<1>2. p.log # <<>>
  BY DEF BaseInv, OrderInv, PutsOrdered, PutOrdered
<1>3. Len(p.log) \in 1..Len(p.log) /\ p.log[Len(p.log)] = o
  BY <1>1, <1>2, LogLength DEF LastOf
<1>4. Prompt \/ p.to = "opening" =>
          /\ \A i \in 1..Len(msgs[c]) : i \in 1..Len(p.log) /\ p.log[i] = msgs[c][i]
          /\ Len(msgs[c]) > 1 => Len(p.log) > 1
  <2>1. PICK s \in Seq(Ops) : s = msgs[c]
    BY <1>1
  <2>2. CASE p.log = s
    BY <2>1, <2>2
  <2>3. CASE p.log = Append(s, o)
    <3>1. /\ Len(s) \in Nat /\ Len(p.log) = Len(s) + 1
          /\ \A j \in 1..Len(s) : p.log[j] = s[j]
      BY <2>3, LogLength
    <3>2. \A n \in Nat : /\ \A j \in 1..n : j \in 1..n + 1
                         /\ n > 1 => n + 1 > 1
      OBVIOUS
    <3> QED
      BY <2>1, <3>1, <3>2
  <2> QED
    BY <1>1, <2>1, <2>2, <2>3
<1>5. QueueFits'
  <2> SUFFICES ASSUME NEW x \in Users, NEW j \in 1..Len(outbox[x]),
                      outbox[x][j].to \in LogWrites
               PROVE  LogFits(outbox[x][j], req, msgs')
    BY DEF CurrentInv, QueueFits, LogFits
  <2>1. outbox[x][j] = p
    BY OneAwaited DEF Awaited, LogWrites
  <2>2. msgs'[c] = p.log
    BY <1>1
  <2> QED
    BY <2>1, <2>2 DEF LogFits
<1>6. SentStored'
  <2> SUFFICES ASSUME NEW q \in Ops, "log" \in told'[q], Prompt \/ Busy(q)'
               PROVE  Holds(msgs'[req[q].conv], q)
    BY DEF SentStored
  <2>1. CASE q = o
    <3>1. msgs'[req[q].conv] = p.log
      BY <1>1, <2>1
    <3> QED
      BY <1>3, <2>1, <3>1 DEF Holds
  <2>2. CASE q # o
    <3>1. "log" \in told[q]
      BY <2>2, DoneOnce
    <3>2. pc[q] # "idle"
      BY <3>1, BaseTypes, ChainTypes DEF Stage
    <3>3. Prompt
      <4>1. ~Busy(q)
        BY <2>2, PutBusy DEF BusyInv, OneBusy
      <4>2. ~Busy(q)'
        BY <4>1 DEF Busy, Active, Waits
      <4> QED
        BY <4>2
    <3>4. PICK d \in ConvIds : d = req[q].conv
      BY <3>2, BaseTypes DEF Requests
    <3>5. PICK i \in 1..Len(msgs[d]) : msgs[d][i] = q
      BY <3>1, <3>3, <3>4 DEF CurrentInv, SentStored, Holds
    <3>6. CASE d = c
      <4>1. msgs'[d] = p.log
        BY <1>1, <3>6
      <4>2. i \in 1..Len(p.log) /\ p.log[i] = q
        BY <1>4, <3>3, <3>5, <3>6
      <4> QED
        BY <3>4, <4>1, <4>2 DEF Holds
    <3>7. CASE d # c
      <4>1. msgs'[d] = msgs[d]
        BY <1>1, <3>7
      <4> QED
        BY <3>4, <3>5, <4>1 DEF Holds
    <3> QED
      BY <3>6, <3>7
  <2> QED
    BY <2>1, <2>2
<1>7. ASSUME NEW w, req[o].kind = "send", Previewed(w, req[o], told'[o])
      PROVE  FALSE
  <2>1. told'[o] \subseteq told[o] \cup {p.to}
    BY DoneOnce
  <2>2. "mine" \in told[o] \/ "theirs" \in told[o]
    BY <1>7, <2>1 DEF Previewed, LogWrites
  <2>3. pc[o] \in {"logWrite", "openWrite"}
    BY DEF PutFits, LogWrites
  <2>4. pc[o] # "openWrite"
    BY <1>7, ChainTypes, BaseTypes DEF Stage, Creating
  <2> QED
    BY <2>2, <2>3, <2>4 DEF SendInv, SendsStart
<1>10. SentGrown'
  <2> SUFFICES ASSUME NEW q \in Ops, "log" \in told'[q]
               PROVE  Len(msgs'[req[q].conv]) > 1
    BY DEF SentGrown
  <2>1. CASE req[q].conv = c
    <3>1. msgs'[req[q].conv] = p.log
      BY <1>1, <2>1
    <3>2. CASE p.to = "log"
      BY <1>1, <3>1, <3>2
    <3>3. CASE p.to = "opening"
      <4>1. "log" \in told[q]
        BY <3>3, DoneOnce
      <4>2. Len(msgs[c]) > 1
        BY <2>1, <4>1 DEF CurrentInv, SentGrown
      <4> QED
        BY <1>4, <3>1, <3>3, <4>2
    <3> QED
      BY <3>2, <3>3 DEF LogWrites
  <2>2. CASE req[q].conv # c
    <3>1. q # o /\ "log" \in told[q]
      BY <2>2, DoneOnce
    <3>2. req[q].conv \in ConvIds
      <4>1. pc[q] # "idle"
        BY <3>1, BaseTypes, ChainTypes DEF Stage
      <4> QED
        BY <4>1, BaseTypes DEF Requests
    <3>3. msgs'[req[q].conv] = msgs[req[q].conv]
      BY <1>1, <2>2, <3>2
    <3> QED
      BY <3>1, <3>3 DEF CurrentInv, SentGrown
  <2> QED
    BY <2>1, <2>2
<1>8. StoredCurrent'
  <2> SUFFICES ASSUME NEW w \in Users, NEW i \in 1..Len(convs[w].rows)
               PROVE  RowCurrent(w, convs[w].rows[i], msgs', req, told')
    BY DEF StoredCurrent, RowsCurrent
  <2>1. PICK row \in Rows : row = convs[w].rows[i]
    <3>1. convs[w] \in ListValues
      BY BaseTypes
    <3> QED
      BY <3>1, RowsOfValue
  <2>2. RowCurrent(w, row, msgs, req, told)
    BY <2>1 DEF CurrentInv, StoredCurrent, RowsCurrent
  <2> DEFINE less == told'
  <2>3. \A m \in Ops : Previewed(w, req[m], less[m]) => Previewed(w, req[m], told[m])
    <3>1. \A m \in Ops : less[m] \subseteq told[m] \cup {p.to}
      BY DoneOnce
    <3> HIDE DEF less
    <3> QED
      BY <3>1 DEF Previewed, LogWrites
  <2>4. ~(req[o].kind = "send" /\ Previewed(w, req[o], less[o]))
    BY <1>7
  <2> HIDE DEF less
  <2>5. RowCurrent(w, row, [msgs EXCEPT ![c] = p.log], req, less)
    BY <1>1, <2>2, <2>3, <2>4, RowAfterLog
  <2> QED
    BY <2>1, <2>5 DEF less
<1>9. QueuedCurrent'
  <2> SUFFICES ASSUME NEW x \in Users, NEW j \in 1..Len(outbox[x]),
                      outbox[x][j].to \in ListWrites
               PROVE  PutCurrent(outbox[x][j], msgs', req, told')
    BY DEF QueuedCurrent, PutCurrent
  <2>1. PICK r \in Puts : r = outbox[x][j] /\ r.op \in Ops
    BY PutBusy
  <2>2. /\ r.list \in ListValues
        /\ RowsCurrent(OwnerIn(r, req), r.list, msgs, req, DoneAfter(told, r))
    BY <2>1, PutKinds DEF CurrentInv, QueuedCurrent, PutCurrent
  <2>3. req[o].kind = "create"
    <3>1. r.op = o /\ (r = p \/ ~Awaited(r))
      BY <2>1, OneAwaited DEF Awaited, LogWrites
    <3>2. r # p
      BY <2>1 DEF ListWrites, LogWrites
    <3> QED
      BY <2>1, <3>1, <3>2 DEF CurrentInv, QueueFits, UpdateFits
  <2> DEFINE less == DoneAfter(told', r)
             done == DoneAfter(told, r)
             w == OwnerIn(r, req)
  <2>4. \A m \in Ops : Previewed(w, req[m], less[m]) => Previewed(w, req[m], done[m])
    <3>1. \A m \in Ops : less[m] \subseteq done[m] \cup {p.to}
      BY <2>1, DoneTwice
    <3> HIDE DEF less, done, w
    <3> QED
      BY <3>1 DEF Previewed, LogWrites
  <2> HIDE DEF less, done, w
  <2>5. ASSUME NEW i \in 1..Len(r.list.rows)
        PROVE  RowCurrent(w, r.list.rows[i], msgs', req, less)
    <3>1. PICK row \in Rows : row = r.list.rows[i]
      BY <2>2, RowsOfValue
    <3>2. RowCurrent(w, row, msgs, req, done)
      BY <2>2, <3>1 DEF RowsCurrent, w, done
    <3>3. RowCurrent(w, row, [msgs EXCEPT ![c] = p.log], req, less)
      BY <1>1, <2>3, <2>4, <3>2, RowAfterLog
    <3> QED
      BY <3>1, <3>3
  <2> QED
    BY <2>1, <2>5 DEF PutCurrent, RowsCurrent, w, less
<1> QED
  BY <1>5, <1>6, <1>8, <1>9, <1>10 DEF CurrentInv

----------------------------------------------------------------------------
(* The invariant holds                                                     *)

\* What fits goes on fitting while calls get their arguments
LEMMA FitsKept ==
    ASSUME BaseInv, NEW rq, \A q \in Ops : pc[q] # "idle" => rq[q] = req[q],
           NEW p \in Puts, pc[p.op] # "idle"
    PROVE  /\ UpdateFits(p, req) => UpdateFits(p, rq)
           /\ LogFits(p, req, msgs) => LogFits(p, rq, msgs)
           /\ PutCurrent(p, msgs, req, told) => PutCurrent(p, msgs, rq, told)
<1>1. p.op \in Ops /\ rq[p.op] = req[p.op]
  BY PutKinds
<1>2. OwnerIn(p, rq) = OwnerIn(p, req)
  BY <1>1 DEF OwnerIn
<1>3. ASSUME NEW w, NEW row \in Rows, NEW done, RowCurrent(w, row, msgs, req, done)
      PROVE  RowCurrent(w, row, msgs, rq, done)
  <2>1. row.id \in ConvIds
    BY DEF Rows
  <2>2. msgs[row.id] # <<>> => rq[LastOf(msgs[row.id])] = req[LastOf(msgs[row.id])]
    BY <2>1, LastMessage
  <2> QED
    BY <1>3, <2>2 DEF RowCurrent
<1>4. p.to \in ListWrites => \A i \in 1..Len(p.list.rows) : p.list.rows[i] \in Rows
  BY PutKinds, RowsOfValue
<1> QED
  BY <1>1, <1>2, <1>3, <1>4 DEF UpdateFits, LogFits, PutCurrent, RowsCurrent

LEMMA StoredKept ==
    ASSUME BaseInv, NEW rq, \A q \in Ops : pc[q] # "idle" => rq[q] = req[q],
           NEW w \in Users, RowsCurrent(w, convs[w], msgs, req, told)
    PROVE  RowsCurrent(w, convs[w], msgs, rq, told)
<1> SUFFICES ASSUME NEW i \in 1..Len(convs[w].rows)
             PROVE  RowCurrent(w, convs[w].rows[i], msgs, rq, told)
  BY DEF RowsCurrent
<1>1. PICK row \in Rows : row = convs[w].rows[i]
  <2>1. convs[w] \in ListValues
    BY BaseTypes
  <2> QED
    BY <2>1, RowsOfValue
<1>2. row.id \in ConvIds
  BY DEF Rows
<1>3. msgs[row.id] # <<>> => rq[LastOf(msgs[row.id])] = req[LastOf(msgs[row.id])]
  BY <1>2, LastMessage
<1>4. RowCurrent(w, row, msgs, req, told)
  BY <1>1 DEF RowsCurrent
<1> QED
  BY <1>1, <1>3, <1>4 DEF RowCurrent

LEMMA CurrentStep ==
    ASSUME Serial, DistinctSeconds, BaseInv, BusyInv, CurrentInv, SendInv,
           [Next]_vars
    PROVE  CurrentInv'
<1>1. CASE \E u \in Users : ServerApplies(u)
  <2>1. PICK u \in Users : ServerApplies(u)
    BY <1>1
  <2>2. PICK k \in 1..Len(outbox[u]), p \in Puts :
              /\ p = outbox[u][k] /\ p.op \in Ops /\ Busy(p.op)
              /\ PutFits(u, p, pc, req) /\ pc[p.op] # "idle"
              /\ req[p.op] \in Requests /\ req[p.op].conv \in ConvIds
              /\ OwnerIn(p, req) \in Users
              /\ UNCHANGED <<outbox, pc, req, peer, stamp, clock>>
              /\ told' = DoneAfter(told, p)
              /\ \/ /\ p.to \in ListWrites /\ UNCHANGED msgs
                    /\ convs' = [convs EXCEPT ![OwnerIn(p, req)] = p.list]
                 \/ /\ p.to \in LogWrites /\ UNCHANGED convs
                    /\ msgs' = [msgs EXCEPT ![req[p.op].conv] = p.log]
    BY <2>1, ServerStores
  <2>3. CASE /\ p.to \in ListWrites /\ UNCHANGED msgs
             /\ convs' = [convs EXCEPT ![OwnerIn(p, req)] = p.list]
    BY <2>2, <2>3, ListStored
  <2>4. CASE /\ p.to \in LogWrites /\ UNCHANGED convs
             /\ msgs' = [msgs EXCEPT ![req[p.op].conv] = p.log]
    BY <2>2, <2>4, LogStored
  <2> QED
    BY <2>2, <2>3, <2>4
<1>2. CASE UNCHANGED <<convs, msgs, told>> /\ QueuesGrow
  <2> DEFINE rq == req'
  <2>1. \A q \in Ops : pc[q] # "idle" => rq[q] = req[q]
    BY RequestsKept
  <2>2. ASSUME NEW w \in Users, NEW i \in 1..Len(outbox'[w])
        PROVE  /\ UpdateFits(outbox'[w][i], rq) /\ LogFits(outbox'[w][i], rq, msgs)
               /\ LogEnds(outbox'[w][i]) /\ PutCurrent(outbox'[w][i], msgs, rq, told)
    <3> DEFINE p == outbox'[w][i]
    <3>1. /\ UpdateFits(p, req) /\ LogFits(p, req, msgs) /\ LogEnds(p)
          /\ PutCurrent(p, msgs, req, told) /\ p \in Puts /\ pc[p.op] # "idle"
      <4>1. CASE OldPut(p, w)
        <5>1. PICK j \in 1..Len(outbox[w]) : p = outbox[w][j]
          BY <4>1 DEF OldPut
        <5>2. p \in Puts /\ pc[p.op] # "idle"
          BY <5>1, PutBusy DEF PutFits
        <5> QED
          BY <5>1, <5>2 DEF CurrentInv, QueueFits, QueuedCurrent
      <4>2. CASE NewPut(p)
        BY <4>2, NewPutFits
      <4> QED
        BY <1>2, <4>1, <4>2 DEF QueuesGrow
    <3> HIDE DEF p, rq
    <3> QED
      BY <2>1, <3>1, FitsKept DEF p
  <2>3. QueueFits' /\ QueuedCurrent'
    BY <1>2, <2>2 DEF QueueFits, QueuedCurrent
  <2>4. StoredCurrent'
    <3>1. \A w \in Users : RowsCurrent(w, convs[w], msgs, req, told)
      BY DEF CurrentInv, StoredCurrent
    <3> HIDE DEF rq
    <3>2. \A w \in Users : RowsCurrent(w, convs[w], msgs, rq, told)
      BY <2>1, <3>1, StoredKept
    <3> QED
      BY <1>2, <3>2 DEF StoredCurrent, rq
  <2>5. SentStored' /\ SentGrown'
    <3>1. \A q \in Ops : "log" \in told[q] => pc[q] # "idle"
      BY BaseTypes, ChainTypes DEF Stage
    <3>2. \A q \in Ops : Busy(q)' /\ pc[q] # "idle" => Busy(q)
      BY BusyKept
    <3> QED
      BY <1>2, <2>1, <3>1, <3>2 DEF CurrentInv, SentStored, SentGrown
  <2> QED
    BY <2>3, <2>4, <2>5 DEF CurrentInv
<1> QED
  BY <1>1, <1>2, QueueStep

\* Only what the server stores makes a device lag behind
LEMMA LateShrinks ==
    ASSUME BaseInv, [Next]_vars, NEW w \in Users, ~\E u \in Users : ServerApplies(u)
    PROVE  late'[w] \subseteq late[w]
<1>1. late \in [Users -> SUBSET ConvIds]
  BY BaseTypes DEF TypeInv, TypeOK
<1>2. ASSUME NEW u \in Users, Quit(u) \/ Hears(u)
      PROVE  late'[w] \subseteq late[w]
  BY <1>1, <1>2 DEF Quit, Hears, HearsList, HearsLog
<1>3. CASE UNCHANGED late
  BY <1>3
<1> QED
  BY <1>2, <1>3
  DEF Next, vars, Press, CreateNewConversation, SendMessage, Arrives,
      UserNodeArrives, LogArrives, RowsArrive, PeerListArrives, Replies,
      FinishCreatingConversation, Completed, Refused, Reconnects, Kill, heard

\* How a call comes to wait for the messages, and to put them
LEMMA SendStart ==
    ASSUME BaseInv, [Next]_vars, NEW q \in Ops
    PROVE  /\ pc'[q] \in {"logRead", "logWrite"}
                => pc[q] \in {"idle", "logRead"} \/ pc'[q] = pc[q]
           /\ pc'[q] = "logRead" /\ pc[q] # "logRead" /\ Prompt
                => req'[q].conv \notin late'[req'[q].me]
<1> DEFINE Same == pc'[q] \in {"logRead", "logWrite"} => pc'[q] = pc[q]
<1>1. CASE UNCHANGED pc
  BY <1>1
<1>2. ASSUME NEW o \in Ops, NEW me, NEW other, NEW at,
             CreateNewConversation(o, me, other, at)
      PROVE  Same
  BY <1>2, BaseTypes DEF CreateNewConversation, Goto
<1>3. ASSUME NEW o \in Ops, NEW me, NEW row, SendMessage(o, me, row)
      PROVE  /\ Same \/ pc[q] = "idle"
             /\ pc'[q] = "logRead" /\ pc[q] # "logRead" /\ Prompt
                  => req'[q].conv \notin late'[req'[q].me]
  <2>1. CASE q = o
    <3>1. /\ req'[q].conv = row.conv /\ req'[q].me = me /\ late' = late
          /\ pc[q] = "idle" /\ (Prompt => row.conv \notin late[me])
      BY <1>3, <2>1, BaseTypes DEF SendMessage, heard
    <3> QED
      BY <3>1
  <2>2. CASE q # o
    BY <1>3, <2>2, BaseTypes DEF SendMessage, Goto
  <2> QED
    BY <2>1, <2>2
<1>4. ASSUME NEW o \in Ops, UserNodeArrives(o) \/ RowsArrive(o)
      PROVE  Same
  BY <1>4, BaseTypes DEF UserNodeArrives, RowsArrive, Goto
<1>5. ASSUME NEW o \in Ops, LogArrives(o)
      PROVE  (Same \/ pc[q] = "logRead") /\ (pc'[q] = "logRead" => pc[q] = "logRead")
  BY <1>5, BaseTypes DEF LogArrives, Goto
<1>6. ASSUME NEW u \in Users, Quit(u)
      PROVE  Same
  BY <1>6 DEF Quit
<1>7. ASSUME NEW u \in Users, FinishCreatingConversation(u), u \notin DottedLocale
      PROVE  Same
  BY <1>7, BaseTypes DEF FinishCreatingConversation, Goto
<1>8. ASSUME NEW u \in Users, Completed(u) \/ Refused(u)
      PROVE  Same
  <2>1. UNCHANGED pc \/ \E where \in {"ok", "mineRead", "peerRead", "failed"} :
                            pc' = [pc EXCEPT ![outbox[u][1].op] = where]
    BY <1>8 DEF Completed, Refused, Goto
  <2> QED
    BY <2>1, BaseTypes
<1> QED
  BY <1>1, <1>2, <1>3, <1>4, <1>5, <1>6, <1>7, <1>8
  DEF Next, vars, Press, Arrives, PeerListArrives, Replies,
      FinishCreatingConversation, ServerApplies, Reconnects, Kill, Hears,
      HearsList, HearsLog

\* The server's part is in what a device has heard when it stores its put
LEMMA SendStep ==
    ASSUME Serial, BaseInv, BusyInv, SendInv, [Next]_vars
    PROVE  SendInv'
<1>1. \A q \in Ops : /\ "log" \in told[q] => pc[q] # "idle"
                     /\ pc[q] = "idle" => told[q] = {}
  BY BaseTypes, ChainTypes DEF Stage
<1>2. \A q \in Ops : pc[q] # "idle" => req'[q] = req[q] /\ req[q].me \in Users
  BY RequestsKept, BaseTypes DEF Requests
<1>3. CASE \E u \in Users : ServerApplies(u)
  <2>1. PICK u \in Users : ServerApplies(u)
    BY <1>3
  <2>2. PICK k \in 1..Len(outbox[u]), p \in Puts :
              /\ p = outbox[u][k] /\ p.op \in Ops /\ Busy(p.op)
              /\ PutFits(u, p, pc, req)
              /\ UNCHANGED <<outbox, pc, req, peer>>
              /\ told' = DoneAfter(told, p)
    BY <2>1, ServerStores
  <2>3. heardList'[u] = convs'[u] /\ late'[u] = {}
    BY <2>1, BaseTypes DEF ServerApplies, HeardBy, TypeInv, TypeOK
  <2>4. \A q \in Ops : Busy(q) => req[q].me = u
    BY <2>2 DEF BusyInv, OneBusy, PutFits
  <2>5. \A q \in Ops : Busy(q)' <=> Busy(q)
    BY <2>2 DEF Busy, Active, Waits
  <2>6. HeardOwn' /\ HeardSent'
    BY <2>2, <2>3, <2>4, <2>5 DEF HeardOwn, HeardSent, Busy, Active, Over
  <2>7. SendsStart'
    <3> SUFFICES ASSUME NEW q \in Ops, pc[q] \in {"logRead", "logWrite"}
                 PROVE  "mine" \notin told'[q] /\ "theirs" \notin told'[q]
      BY <2>2 DEF SendsStart
    <3>1. "mine" \notin told[q] /\ "theirs" \notin told[q]
      BY DEF SendInv, SendsStart
    <3>2. CASE q # p.op
      BY <2>2, <3>1, <3>2, DoneOnce
    <3>3. CASE q = p.op
      <4>1. p.to # "mine" /\ p.to # "theirs"
        BY <2>2, <3>3 DEF PutFits
      <4>2. told'[q] \subseteq told[q] \cup {p.to}
        BY <2>2, DoneOnce
      <4> QED
        BY <3>1, <4>1, <4>2
    <3> QED
      BY <3>2, <3>3
  <2> QED
    BY <2>6, <2>7 DEF SendInv
<1>4. CASE UNCHANGED <<convs, msgs, told>> /\ ~\E u \in Users : ServerApplies(u)
  <2>1. HeardOwn'
    <3> SUFFICES ASSUME NEW q \in Ops, Busy(q)', "log" \in told[q]
                 PROVE  heardList'[req'[q].me] = convs[req'[q].me]
      BY <1>4 DEF HeardOwn
    <3>1. Busy(q) /\ req'[q] = req[q] /\ req[q].me \in Users
      BY <1>1, <1>2, BusyKept
    <3>2. heardList[req[q].me] = convs[req[q].me]
      BY <3>1 DEF SendInv, HeardOwn
    <3>3. \/ heardList'[req[q].me] = heardList[req[q].me]
          \/ heardList'[req[q].me] = convs[req[q].me]
      BY <1>4, <3>1, BaseTypes, ListsHeardStep DEF ListsHeard
    <3> QED
      BY <3>1, <3>2, <3>3
  <2>2. HeardSent'
    <3> SUFFICES ASSUME Prompt, NEW q \in Ops, pc'[q] = "logRead"
                 PROVE  req'[q].conv \notin late'[req'[q].me]
      BY DEF HeardSent
    <3>1. CASE pc[q] # "logRead"
      BY <3>1, SendStart
    <3>2. CASE pc[q] = "logRead"
      <4>1. /\ req'[q] = req[q] /\ req[q].me \in Users
            /\ req[q].conv \notin late[req[q].me]
        BY <1>2, <3>2 DEF SendInv, HeardSent
      <4>2. late'[req[q].me] \subseteq late[req[q].me]
        BY <4>1, <1>4, LateShrinks
      <4> QED
        BY <4>1, <4>2
    <3> QED
      BY <3>1, <3>2
  <2>3. SendsStart'
    BY <1>1, <1>4, SendStart DEF SendInv, SendsStart
  <2> QED
    BY <2>1, <2>2, <2>3 DEF SendInv
<1> QED
  BY <1>3, <1>4, QueueStep

LEMMA SerialInit == Init => BaseInv /\ BusyInv /\ CurrentInv /\ SendInv
<1> SUFFICES ASSUME Init PROVE BaseInv /\ BusyInv /\ CurrentInv /\ SendInv
  OBVIOUS
<1>1. BaseInv
  BY CallInvInit, OrderInit, ChainInit, DistinctCreationsInit, CreatorsInit,
     RowInit DEF BaseInv
<1>2. \A u \in Users : Len(outbox[u]) = 0
  BY NoLength DEF Init
<1>3. \A u \in Users : \A i \in 1..Len(outbox[u]) : FALSE
  BY <1>2
<1>4. BusyInv
  <2>1. \A o \in Ops : ~Busy(o)
    BY <1>3 DEF Init, Busy, Active, Waits
  <2> QED
    BY <2>1 DEF BusyInv, OneBusy, NewestBusy
<1>5. StoredCurrent
  <2>1. \A u \in Users : Len(convs[u].rows) = 0
    BY NoLength DEF Init, NoList
  <2>2. \A u \in Users : \A i \in 1..Len(convs[u].rows) : FALSE
    BY <2>1
  <2> QED
    BY <2>2 DEF StoredCurrent, RowsCurrent
<1>6. QueueFits /\ QueuedCurrent /\ SentStored /\ SentGrown
  BY <1>3 DEF Init, QueueFits, QueuedCurrent, SentStored, SentGrown
<1>7. SendInv
  BY DEF Init, SendInv, HeardOwn, HeardSent, SendsStart
<1> QED
  BY <1>1, <1>4, <1>5, <1>6, <1>7 DEF CurrentInv

\* With calls that do not overlap and ids that differ, the four together
\* are an invariant.
LEMMA SerialInvCorrect ==
    ASSUME Serial, DistinctSeconds
    PROVE  Spec => [](BaseInv /\ BusyInv /\ CurrentInv /\ SendInv)
<1>1. BaseInv /\ [Next]_vars => BaseInv'
  BY TypeStep, AgreeStep, OrderStep, ChainStep, DistinctCreationsStep,
     CreatorsStep, RowStep
  DEF BaseInv, CallInv
<1>2. BaseInv /\ BusyInv /\ CurrentInv /\ SendInv /\ [Next]_vars
          => (BaseInv /\ BusyInv /\ CurrentInv /\ SendInv)'
  BY <1>1, BusyStep, CurrentStep, SendStep
<1> QED
  BY <1>2, SerialInit, PTL DEF Spec

----------------------------------------------------------------------------
(* The theorems                                                            *)

\* Calls that do not overlap, from devices that have heard of the messages:
\* a message whose sendMessage answered true is one of the conversation's
\* messages from then on, whatever was refused, cut off or sent again before
\* and after.  The code makes sure of neither: where calls overlap, or a
\* device sends before it has heard of the latest message, the message may be
\* lost.
THEOREM SentStays ==
    ASSUME Serial, Prompt, DistinctSeconds
    PROVE  Spec => []SentMessageStored
<1>1. BaseInv /\ CurrentInv => SentMessageStored
  <2> SUFFICES ASSUME BaseInv, CurrentInv, NEW o \in Ops, pc[o] = "ok",
                      req[o].kind = "send"
               PROVE  \E i \in DOMAIN msgs[req[o].conv] : msgs[req[o].conv][i] = o
    BY DEF SentMessageStored
  <2>1. "log" \in told[o]
    BY BaseTypes, ChainTypes DEF Stage
  <2>2. PICK c \in ConvIds : c = req[o].conv
    BY BaseTypes DEF Requests
  <2>3. Holds(msgs[c], o)
    BY <2>1, <2>2 DEF CurrentInv, SentStored
  <2>4. DOMAIN msgs[c] = 1..Len(msgs[c])
    BY <2>2, BaseTypes, LenProperties
  <2> QED
    BY <2>2, <2>3, <2>4 DEF Holds
<1> QED
  BY <1>1, SerialInvCorrect, PTL

\* Calls that do not overlap: every row of both lists shows the last message
\* of its conversation once the call that sent it has answered true, for any
\* faults of the calls before it, and however late the devices hear of each
\* other's messages and lists.
THEOREM PreviewsFollow == Spec => []PreviewFollowsLast
<1>1. ASSUME Serial, DistinctSeconds
      PROVE  BaseInv /\ CurrentInv => PreviewFollowsLast
  <2> SUFFICES ASSUME BaseInv, CurrentInv,
                      NEW u \in Users, NEW i \in DOMAIN convs[u].rows,
                      msgs[convs[u].rows[i].id] # <<>>,
                      pc[LastOf(msgs[convs[u].rows[i].id])] = "ok"
               PROVE  convs[u].rows[i].latest = LastOf(msgs[convs[u].rows[i].id])
    BY DEF PreviewFollowsLast, LastOf
  <2>1. i \in 1..Len(convs[u].rows) /\ ListFits(u, convs[u], pc, req, told)
    BY BaseTypes, StoredRowFits
  <2>2. PICK row \in Rows : row = convs[u].rows[i]
    <3>1. convs[u] \in ListValues
      BY BaseTypes
    <3> QED
      BY <2>1, <3>1, RowsOfValue
  <2>3. RowFits(u, row, pc, req, told)
    BY <2>1, <2>2 DEF ListFits
  <2>4. RowCurrent(u, row, msgs, req, told)
    BY <2>1, <2>2 DEF CurrentInv, StoredCurrent, RowsCurrent
  <2>5. row.id \in ConvIds /\ row.latest \in Ops
    BY DEF Rows
  <2>6. PICK m \in Ops : m = LastOf(msgs[row.id]) /\ req[m].conv = row.id
    BY <2>2, <2>5, LastMessage
  <2>7. /\ pc[m] = "ok" /\ req[m] \in Requests
        /\ Stage(pc[m], req[m].kind, told[m], peer[m])
    BY <2>2, <2>6, BaseTypes, ChainTypes
  <2>8. CASE req[m].kind = "send"
    <3>1. {"mine", "theirs"} \subseteq told[m]
      BY <2>7, <2>8 DEF Stage
    <3>2. Party(req[m].me, row.id, req[m].other)
      BY <2>6, <2>7, BaseTypes DEF RowInv, CallParties
    <3>3. u = req[m].me \/ u = req[m].other
      BY <2>3, <3>2 DEF RowFits, Party
    <3>4. Previewed(u, req[m], told[m])
      BY <3>1, <3>3 DEF Previewed
    <3>5. row.latest = m
      BY <2>2, <2>4, <2>6, <2>8, <3>4, Zenon DEF RowCurrent
    <3> QED
      BY <2>2, <2>6, <3>5
  <2>9. CASE req[m].kind = "create"
    <3>0. msgs[row.id] # <<>> /\ pc[m] # "idle" /\ req[m].conv = row.id
      BY <2>2, <2>6, <2>7
    <3>1. msgs[row.id][1] = m
      <4>1. msgs[req[m].conv] # <<>>
        BY <3>0
      <4>2. msgs[req[m].conv][1] = m
        BY <1>1, <2>9, <3>0, <4>1, FirstMessage
      <4> QED
        BY <3>0, <4>2
    <3>2. 1 = Len(msgs[row.id])
      <4>1. 1 \in 1..Len(msgs[row.id]) /\ Len(msgs[row.id]) \in 1..Len(msgs[row.id])
        BY <2>2, <2>5, LastMessage
      <4>2. 1 < Len(msgs[row.id]) => stamp[m] < stamp[m]
        BY <2>5, <2>6, <3>1, <4>1, MessageSent DEF LastOf
      <4>3. stamp[m] \in Nat
        BY BaseTypes
      <4>4. ~(stamp[m] < stamp[m])
        BY <4>3
      <4>5. \A a : a \in 1..a /\ ~(1 < a) => 1 = a
        OBVIOUS
      <4> QED
        BY <4>1, <4>2, <4>4, <4>5
    <3>3. /\ pc[row.latest] # "idle" /\ req[row.latest].conv = row.id
          /\ req[row.latest].kind = "send" => "log" \in told[row.latest]
      BY <2>3 DEF RowFits
    <3>4. req[row.latest].kind \in {"create", "send"}
      <4>1. PICK l \in Ops : l = row.latest
        BY <2>5
      <4>2. req[l] \in Requests
        BY <3>3, <4>1, BaseTypes
      <4>3. req[l].kind \in {"create", "send"}
        BY <4>2 DEF Requests
      <4> QED
        BY <4>1, <4>3
    <3>5. CASE req[row.latest].kind = "create"
      <4>1. PICK l \in Ops : l = row.latest
        BY <2>5
      <4>2. /\ req[l].kind = "create" /\ pc[l] # "idle"
            /\ req[l].conv = row.id /\ msgs[req[l].conv] # <<>>
        BY <3>0, <3>3, <3>5, <4>1
      <4>3. msgs[req[l].conv][1] = l
        BY <1>1, <4>2, FirstMessage
      <4> QED
        BY <2>2, <2>6, <3>1, <4>1, <4>2, <4>3
    <3>6. CASE req[row.latest].kind = "send"
      <4>1. Len(msgs[req[row.latest].conv]) > 1
        BY <2>5, <3>3, <3>6 DEF CurrentInv, SentGrown
      <4>2. Len(msgs[row.id]) > 1
        BY <3>3, <4>1
      <4>3. ~(1 > 1)
        OBVIOUS
      <4> QED
        BY <3>2, <4>2, <4>3, Zenon
    <3> QED
      BY <3>4, <3>5, <3>6
  <2> QED
    BY <2>7, <2>8, <2>9 DEF Requests
<1>2. CASE Serial /\ DistinctSeconds
  <2>1. BaseInv /\ CurrentInv => PreviewFollowsLast
    BY <1>1, <1>2
  <2>2. Spec => [](BaseInv /\ BusyInv /\ CurrentInv /\ SendInv)
    BY <1>2, SerialInvCorrect
  <2> QED
    BY <2>1, <2>2, PTL
<1>3. CASE ~(Serial /\ DistinctSeconds)
  <2>1. PreviewFollowsLast
    BY <1>3 DEF PreviewFollowsLast
  <2> QED
    BY <2>1, PTL
<1> QED
  BY <1>2, <1>3

\* Calls that do not overlap, from devices that have heard of the messages:
\* every step of the devices and the server is a step of ConversationLog or
\* none.  A message is only added at the end of its conversation and is in no
\* other, though every write replaces a whole array and may be sent again.
\* (A device that lags behind removes messages; SentStays.)
THEOREM LogsImplemented ==
    ASSUME Serial, Prompt, DistinctSeconds
    PROVE  Spec => ImplementsLogs
<1>1. Init => Logs!Init
  BY DEF Init, Logs!Init
<1>2. BaseInv /\ BusyInv /\ CurrentInv /\ [Next]_vars => [Logs!Next]_msgs
  <2> SUFFICES ASSUME BaseInv, BusyInv, CurrentInv, [Next]_vars
               PROVE  [Logs!Next]_msgs
    OBVIOUS
  <2>1. CASE UNCHANGED msgs
    BY <2>1
  <2>2. CASE \E u \in Users : ServerApplies(u)
    <3>1. PICK u \in Users : ServerApplies(u)
      BY <2>2
    <3>2. PICK k \in 1..Len(outbox[u]), p \in Puts :
              /\ p = outbox[u][k] /\ p.op \in Ops /\ req[p.op].conv \in ConvIds
              /\ \/ UNCHANGED msgs
                 \/ /\ p.to \in LogWrites
                    /\ msgs' = [msgs EXCEPT ![req[p.op].conv] = p.log]
      BY <3>1, ServerStores
    <3>3. CASE UNCHANGED msgs
      BY <3>3
    <3>4. CASE /\ p.to \in LogWrites
               /\ msgs' = [msgs EXCEPT ![req[p.op].conv] = p.log]
      <4>1. PICK o \in Ops, c \in ConvIds : o = p.op /\ c = req[o].conv
        BY <3>2
      <4>2. msgs' = [msgs EXCEPT ![c] = p.log]
        BY <3>4, <4>1
      <4>3. p.log = msgs[c] \/ p.log = Append(msgs[c], o)
        BY <3>2, <3>4, <4>1 DEF CurrentInv, QueueFits, LogFits
      <4>4. CASE p.log = msgs[c]
        BY <4>2, <4>4, BaseTypes
      <4>5. CASE p.log = Append(msgs[c], o)
        <5>1. \A d \in ConvIds : ~Holds(msgs[d], o)
          BY <3>2, <3>4, <4>1, <4>5, AddedOnce
        <5>2. \A d \in ConvIds : DOMAIN msgs[d] = 1..Len(msgs[d])
          BY BaseTypes, LenProperties
        <5>3. ~Logs!Stored(o)
          BY <5>1, <5>2 DEF Logs!Stored, Holds
        <5>4. Logs!Add(c, o)
          BY <4>2, <4>5, <5>3 DEF Logs!Add
        <5> QED
          BY <5>4 DEF Logs!Next
      <4> QED
        BY <4>3, <4>4, <4>5
    <3> QED
      BY <3>2, <3>3, <3>4
  <2> QED
    BY <2>1, <2>2, BaseTypes, MsgsChange
<1> QED
  BY <1>1, <1>2, SerialInvCorrect, PTL DEF Spec, ImplementsLogs, Logs!Spec
=============================================================================

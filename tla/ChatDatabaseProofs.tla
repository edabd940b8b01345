------------------------- MODULE ChatDatabaseProofs -------------------------
(***************************************************************************)
(* Proofs about ChatDatabase, for every set of accounts, calls and dates.  *)
(***************************************************************************)
EXTENDS ChatDatabase, SequenceTheorems, TLAPS

----------------------------------------------------------------------------
(* Types                                                                   *)

\* A call that started has arguments, and no more puts count as applied than
\* there are.
CallsHaveArguments ==
    \A o \in Ops : /\ pc[o] # "idle" => req[o] \in Requests
                   /\ peer[o] = "read" => pc[o] # "idle"
AppliedBounded == \A u \in Users : applied[u] <= Len(outbox[u])

TypeInv == TypeOK /\ CallsHaveArguments /\ AppliedBounded

\* A put is one of the two kinds, by where it goes.
LEMMA PutKinds ==
    ASSUME NEW p \in Puts
    PROVE  /\ p.op \in Ops
           /\ p.to \in ListWrites => p.list \in ListValues
           /\ p.to \in LogWrites => p.log \in Seq(Ops)
           /\ p.to \in ListWrites \cup LogWrites
BY DEF Puts, ListWrites, LogWrites

LEMMA ListPutType ==
    ASSUME NEW o \in Ops, NEW to \in ListWrites, NEW value \in ListValues
    PROVE  ListPut(o, to, value) \in Puts
BY DEF ListPut, Puts

LEMMA LogPutType ==
    ASSUME NEW o \in Ops, NEW to \in LogWrites, NEW log \in Seq(Ops)
    PROVE  LogPut(o, to, log) \in Puts
BY DEF LogPut, Puts

\* A sequence without its first element, and with another at its end.
LEMMA TailProperties ==
    ASSUME NEW S, NEW s \in Seq(S), s # <<>>
    PROVE  /\ Tail(s) \in Seq(S)
           /\ Len(Tail(s)) = Len(s) - 1
           /\ \A i \in 1..Len(Tail(s)) : Tail(s)[i] = s[i + 1]
OBVIOUS

\* What a device reads is a list, and a message array.
LEMMA ListOnType ==
    \A box \in Seq(Puts), stored \in ListValues :
        \A w : ListOn(box, stored, w) \in ListValues
<1> SUFFICES ASSUME NEW box \in Seq(Puts), NEW stored \in ListValues, NEW w
             PROVE  ListOn(box, stored, w) \in ListValues
  OBVIOUS
<1> DEFINE last == LastListPut(box, w)
<1>1. CASE last = {}
  BY <1>1 DEF ListOn
<1>2. CASE last # {}
  <2>1. PICK i \in last : i = (CHOOSE k \in last : TRUE)
    BY <1>2
  <2>2. i \in 1..Len(box) /\ box[i].to \in ListWrites
    BY <2>1, LenProperties DEF LastListPut, WritesList
  <2>3. box[i].list \in ListValues
    BY <2>2, ElementOfSeq, PutKinds
  <2> QED
    BY <1>2, <2>1, <2>3 DEF ListOn
<1> QED
  BY <1>1, <1>2

LEMMA LogOnType ==
    \A box \in Seq(Puts), stored \in Seq(Ops) :
        \A c : LogOn(box, stored, c) \in Seq(Ops)
<1> SUFFICES ASSUME NEW box \in Seq(Puts), NEW stored \in Seq(Ops), NEW c
             PROVE  LogOn(box, stored, c) \in Seq(Ops)
  OBVIOUS
<1> DEFINE last == LastLogPut(box, c)
<1>1. CASE last = {}
  BY <1>1 DEF LogOn
<1>2. CASE last # {}
  <2>1. PICK i \in last : i = (CHOOSE k \in last : TRUE)
    BY <1>2
  <2>2. i \in 1..Len(box) /\ box[i].to \in LogWrites
    BY <2>1, LenProperties DEF LastLogPut, WritesLog
  <2>3. box[i].log \in Seq(Ops)
    BY <2>2, ElementOfSeq, PutKinds
  <2> QED
    BY <1>2, <2>1, <2>3 DEF LogOn
<1> QED
  BY <1>1, <1>2

LEMMA SeenListType ==
    ASSUME TypeOK, NEW u \in Users, NEW w \in Users
    PROVE  SeenList(u, w) \in ListValues
BY ListOnType DEF TypeOK, SeenList

LEMMA NodeListType ==
    ASSUME TypeOK, NEW u \in Users
    PROVE  NodeList(u) \in ListValues
BY ListOnType DEF TypeOK, NodeList

LEMMA SeenLogType ==
    ASSUME TypeOK, NEW u \in Users, NEW c \in ConvIds
    PROVE  SeenLog(u, c) \in Seq(Ops)
BY LogOnType DEF TypeOK, SeenLog

Offers == SUBSET [conv : ConvIds, other : Users]

LEMMA RowsOfType ==
    ASSUME NEW value \in ListValues
    PROVE  RowsOf(value) \in Offers
<1>1. value.rows \in Seq(Rows)
  BY DEF ListValues
<1>2. \A i \in DOMAIN value.rows : value.rows[i] \in Rows
  BY <1>1
<1> QED
  BY <1>2 DEF RowsOf, Rows, Offers

LEMMA ListType ==
    ASSUME NEW rows \in Seq(Rows)
    PROVE  List(rows) \in ListValues
BY DEF List, ListValues

LEMMA AppendRowType ==
    ASSUME NEW value \in ListValues, NEW row \in Rows
    PROVE  AppendRow(value, row) \in Seq(Rows)
BY DEF AppendRow, ListValues

LEMMA WithLatestType ==
    ASSUME NEW rows \in Seq(Rows), NEW c \in ConvIds, NEW m \in Ops
    PROVE  WithLatest(rows, c, m) \in Seq(Rows)
<1>1. \A i \in 1..Len(rows) : rows[i] \in Rows
  BY ElementOfSeq
<1>2. WithLatest(rows, c, m) \in [1..Len(rows) -> Rows]
  BY <1>1, LenProperties DEF WithLatest, Rows
<1>3. Len(rows) \in Nat
  OBVIOUS
<1> QED
  BY <1>2, <1>3, SeqDef

----------------------------------------------------------------------------
(* What the parts of the actions do to the queues                          *)

LEMMA PutType ==
    ASSUME TypeInv, NEW u \in Users, NEW p \in Puts, Put(u, p)
    PROVE  /\ outbox' \in [Users -> Seq(Puts)]
           /\ applied' \in [Users -> Nat]
           /\ AppliedBounded'
BY AppendProperties DEF TypeInv, TypeOK, AppliedBounded, Put

LEMMA AnsweredType ==
    ASSUME TypeInv, NEW u \in Users, outbox[u] # <<>>,
           NEW more \in Seq(Puts), Answered(u, more)
    PROVE  /\ outbox' \in [Users -> Seq(Puts)]
           /\ applied' \in [Users -> Nat]
           /\ AppliedBounded'
<1> DEFINE rest == Tail(outbox[u])
<1>1. outbox[u] \in Seq(Puts) /\ applied[u] \in Nat /\ applied[u] <= Len(outbox[u])
  BY DEF TypeInv, TypeOK, AppliedBounded
<1>2. rest \in Seq(Puts) /\ Len(rest) = Len(outbox[u]) - 1
  BY <1>1, TailProperties
<1>3. rest \o more \in Seq(Puts) /\ Len(rest \o more) = Len(rest) + Len(more)
  BY <1>2, ConcatProperties
<1>4. Len(more) \in Nat /\ Len(rest) \in Nat
  BY <1>2, LenProperties
<1>5. outbox' = [outbox EXCEPT ![u] = rest \o more]
  BY DEF Answered
<1>6. outbox' \in [Users -> Seq(Puts)]
  BY <1>3, <1>5 DEF TypeInv, TypeOK
<1>7. applied' \in [Users -> Nat]
  BY <1>1 DEF TypeInv, TypeOK, Answered
<1>8. AppliedBounded'
  <2> SUFFICES ASSUME NEW w \in Users
               PROVE  applied'[w] <= Len(outbox'[w])
    BY DEF AppliedBounded
  <2>1. CASE w = u
    BY <1>1, <1>2, <1>3, <1>4, <1>5, <2>1 DEF TypeInv, TypeOK, Answered
  <2>2. CASE w # u
    BY <1>5, <2>2 DEF TypeInv, TypeOK, Answered, AppliedBounded
  <2> QED
    BY <2>1, <2>2
<1> QED
  BY <1>6, <1>7, <1>8

LEMMA ComposeType ==
    ASSUME TypeOK, NEW o \in Ops, Compose(o)
    PROVE  clock' \in Nat /\ stamp' \in [Ops -> Nat]
BY DEF TypeOK, Compose

LEMMA ScreenType ==
    ASSUME TypeOK, outbox' \in [Users -> Seq(Puts)],
           heardList' \in [Users -> ListValues], NEW w, Screen(w)
    PROVE  shown' \in [Users -> Offers]
<1>1. CASE w \in Users
  <2>1. ListOn(outbox'[w], heardList'[w], w) \in ListValues
    BY <1>1, ListOnType
  <2>2. RowsOf(ListOn(outbox'[w], heardList'[w], w)) \in Offers
    BY <2>1, RowsOfType
  <2> QED
    BY <1>1, <2>2 DEF TypeOK, Screen, Offers
<1>2. CASE w \notin Users
  BY <1>2 DEF TypeOK, Screen, Offers
<1> QED
  BY <1>1, <1>2

\* What a device has heard has its type
HeardOK == /\ heardList \in [Users -> ListValues]
           /\ late \in [Users -> SUBSET ConvIds]
           /\ heardLogs \in [Users -> [ConvIds -> Seq(Ops)]]

LEMMA NoLogsType == NoLogs \in [ConvIds -> Seq(Ops)]
BY DEF NoLogs

LEMMA QuitType ==
    ASSUME TypeInv, NEW u \in Users, Quit(u)
    PROVE  /\ pc' \in [Ops -> PcValues]
           /\ peer' \in [Ops -> {"none", "read", "done"}]
           /\ outbox' \in [Users -> Seq(Puts)]
           /\ applied' \in [Users -> Nat]
           /\ shown' \in [Users -> Offers] /\ HeardOK'
           /\ AppliedBounded'
           /\ \A o \in Ops : /\ pc[o] # "idle" <=> pc'[o] # "idle"
                             /\ peer'[o] = "read" => peer[o] = "read"
<1>1. RowsOf(convs[u]) \in Offers
  BY RowsOfType DEF TypeInv, TypeOK
<1>2. shown' \in [Users -> Offers]
  BY <1>1 DEF TypeInv, TypeOK, Quit, Offers
<1>3. pc' \in [Ops -> PcValues] /\ peer' \in [Ops -> {"none", "read", "done"}]
  BY DEF TypeInv, TypeOK, Quit, PcValues, Over
<1>4. outbox' \in [Users -> Seq(Puts)] /\ applied' \in [Users -> Nat]
  BY DEF TypeInv, TypeOK, Quit
<1>5. AppliedBounded'
  BY DEF TypeInv, TypeOK, Quit, AppliedBounded
<1>6. \A o \in Ops : /\ pc[o] # "idle" <=> pc'[o] # "idle"
                     /\ peer'[o] = "read" => peer[o] = "read"
  BY DEF TypeInv, TypeOK, Quit, Active
<1>7. HeardOK'
  BY NoLogsType DEF TypeInv, TypeOK, HeardOK, Quit
<1> QED
  BY <1>2, <1>3, <1>4, <1>5, <1>6, <1>7

----------------------------------------------------------------------------
(* TypeInv is an invariant                                                 *)

LEMMA TypeInit == Init => TypeInv
<1> SUFFICES ASSUME Init PROVE TypeInv
  OBVIOUS
<1>1. NoList \in ListValues /\ <<>> \in Seq(Puts) /\ <<>> \in Seq(Ops)
  BY DEF NoList, ListValues
<1>2. TypeOK
  BY <1>1, NoLogsType DEF Init, TypeOK, PcValues, Over
<1> QED
  BY <1>2 DEF Init, TypeInv, CallsHaveArguments, AppliedBounded

\* A press: only the call's arguments and its first callback change.
LEMMA PressType ==
    ASSUME TypeInv, NEW o \in Ops, Press(o)
    PROVE  TypeInv'
<1>1. CASE \E me, other \in Users, at \in Seconds :
                CreateNewConversation(o, me, other, at)
  <2> PICK me \in Users, other \in Users, at \in Seconds :
            CreateNewConversation(o, me, other, at)
    BY <1>1
  <2>1. [to |-> other, from |-> me, at |-> at] \in ConvIds
    BY DEF ConvIds
  <2>2. req' \in [Ops -> Requests \cup {NoRequest}] /\ req'[o] \in Requests
    BY <2>1 DEF TypeInv, TypeOK, CreateNewConversation, Requests
  <2>3. pc' \in [Ops -> PcValues]
    BY DEF TypeInv, TypeOK, CreateNewConversation, Goto, PcValues, Over
  <2>4. TypeOK' /\ AppliedBounded'
    BY <2>2, <2>3 DEF TypeInv, TypeOK, AppliedBounded, CreateNewConversation,
                      heard, history
  <2>5. CallsHaveArguments'
    BY <2>2 DEF TypeInv, TypeOK, CallsHaveArguments, CreateNewConversation,
                Goto
  <2> QED
    BY <2>4, <2>5 DEF TypeInv
<1>2. CASE \E me \in Users : \E row \in shown[me] : SendMessage(o, me, row)
  <2> PICK me \in Users : \E row \in shown[me] : SendMessage(o, me, row)
    BY <1>2
  <2> PICK row \in shown[me] : SendMessage(o, me, row)
    OBVIOUS
  <2>1. row.conv \in ConvIds /\ row.other \in Users
    BY DEF TypeInv, TypeOK
  <2>2. req' \in [Ops -> Requests \cup {NoRequest}] /\ req'[o] \in Requests
    BY <2>1 DEF TypeInv, TypeOK, SendMessage, Requests
  <2>3. pc' \in [Ops -> PcValues]
    BY DEF TypeInv, TypeOK, SendMessage, Goto, PcValues, Over
  <2>4. TypeOK' /\ AppliedBounded'
    BY <2>2, <2>3 DEF TypeInv, TypeOK, AppliedBounded, SendMessage, heard, history
  <2>5. CallsHaveArguments'
    BY <2>2 DEF TypeInv, TypeOK, CallsHaveArguments, SendMessage, Goto
  <2> QED
    BY <2>4, <2>5 DEF TypeInv
<1> QED
  BY <1>1, <1>2 DEF Press

\* The arguments of a call that waits for a callback.
LEMMA RequestType ==
    ASSUME TypeInv, NEW o \in Ops, pc[o] # "idle" \/ peer[o] = "read"
    PROVE  /\ req[o] \in Requests
           /\ req[o].me \in Users /\ req[o].other \in Users
           /\ req[o].conv \in ConvIds
BY DEF TypeInv, CallsHaveArguments, Requests

\* The values that the callbacks put.
LEMMA UserPutType ==
    ASSUME TypeInv, NEW o \in Ops, pc[o] = "userRead"
    PROVE  LET value == List(AppendRow(NodeList(req[o].me),
                                       Row(req[o].conv, req[o].other, o)))
           IN  value \in ListValues /\ ListPut(o, "user", value) \in Puts
<1> DEFINE r == req[o]
           row == Row(r.conv, r.other, o)
<1>1. r.me \in Users /\ r.other \in Users /\ r.conv \in ConvIds
  BY RequestType
<1>2. row \in Rows
  BY <1>1 DEF Row, Rows
<1>3. List(AppendRow(NodeList(r.me), row)) \in ListValues
  BY <1>1, <1>2, NodeListType, AppendRowType, ListType DEF TypeInv
<1> QED
  BY <1>3, ListPutType DEF ListWrites

LEMMA PeerPutTypes ==
    ASSUME TypeInv, NEW o \in Ops, peer[o] = "read"
    PROVE  /\ ListPut(o, "entry", List(<<Row(req[o].conv, req[o].me, o)>>))
                 \in Puts
           /\ ListPut(o, "id", IdString) \in Puts
<1> DEFINE row == Row(req[o].conv, req[o].me, o)
<1>1. row \in Rows
  BY RequestType DEF Row, Rows
<1>2. <<row>> \in Seq(Rows)
  BY <1>1
<1>3. List(<<row>>) \in ListValues
  BY <1>2, ListType
<1>4. IdString \in ListValues
  BY DEF IdString, ListValues
<1> QED
  BY <1>3, <1>4, ListPutType DEF ListWrites

LEMMA LogArrivesPutType ==
    ASSUME TypeInv, NEW o \in Ops, pc[o] = "logRead"
    PROVE  LET log == SeenLog(req[o].me, req[o].conv)
           IN  log \in Seq(Ops) /\ LogPut(o, "log", Append(log, o)) \in Puts
<1> DEFINE log == SeenLog(req[o].me, req[o].conv)
<1>1. log \in Seq(Ops)
  BY RequestType, SeenLogType DEF TypeInv
<1> QED
  BY <1>1, AppendProperties, LogPutType DEF LogWrites

LEMMA RowsPutType ==
    ASSUME TypeInv, NEW o \in Ops, pc[o] \in {"mineRead", "peerRead"}
    PROVE  LET mine == pc[o] = "mineRead"
               value == SeenList(req[o].me, IF mine THEN req[o].me
                                                    ELSE req[o].other)
               new == List(WithLatest(value.rows, req[o].conv, o))
           IN  ListPut(o, IF mine THEN "mine" ELSE "theirs", new) \in Puts
<1> DEFINE r == req[o]
           value == SeenList(r.me, IF pc[o] = "mineRead" THEN r.me ELSE r.other)
           new == List(WithLatest(value.rows, r.conv, o))
<1>1. r.me \in Users /\ r.other \in Users /\ r.conv \in ConvIds
  BY RequestType
<1>2. value \in ListValues
  BY <1>1, SeenListType DEF TypeInv
<1>3. new \in ListValues
  BY <1>1, <1>2, WithLatestType, ListType DEF ListValues
<1> QED
  BY <1>3, ListPutType DEF ListWrites

LEMMA OpeningPutType ==
    ASSUME NEW o \in Ops
    PROVE  LET p == LogPut(o, "opening", <<o>>)
           IN  p \in Puts /\ <<p>> \in Seq(Puts)
<1>1. <<o>> \in Seq(Ops) /\ "opening" \in LogWrites
  BY DEF LogWrites
<1>2. LogPut(o, "opening", <<o>>) \in Puts
  BY <1>1, LogPutType
<1> QED
  BY <1>2

LEMMA UserNodeArrivesType ==
    ASSUME TypeInv, NEW o \in Ops, UserNodeArrives(o)
    PROVE  TypeInv'
<1> DEFINE r == req[o]
           row == Row(r.conv, r.other, o)
           value == List(AppendRow(NodeList(r.me), row))
<1>1. pc[o] = "userRead"
  BY DEF UserNodeArrives
<1>2. r.me \in Users
  BY <1>1, RequestType
<1>4. value \in ListValues /\ ListPut(o, "user", value) \in Puts
  BY <1>1, UserPutType
<1>5. CASE r.me \notin Registered
  <2>1. pc' = [pc EXCEPT ![o] = "failed"]
    BY <1>5 DEF UserNodeArrives, Goto
  <2> QED
    BY <1>1, <1>5, <2>1
    DEF UserNodeArrives, TypeInv, TypeOK, AppliedBounded, CallsHaveArguments,
        PcValues, Over, heard, history
<1>6. CASE r.me \in Registered
  <2> DEFINE p == ListPut(o, "user", value)
  <2>1. p \in Puts
    BY <1>4
  <2>2. Put(r.me, p)
    BY <1>6 DEF UserNodeArrives
  <2>3. /\ outbox' \in [Users -> Seq(Puts)]
        /\ applied' \in [Users -> Nat]
        /\ AppliedBounded'
    BY <1>2, <2>1, <2>2, PutType
  <2>4. RowsOf(value) \in Offers
    BY <1>4, RowsOfType
  <2>5. shown' \in [Users -> Offers]
    <3>1. shown' = [shown EXCEPT ![r.me] = @ \cup RowsOf(value)]
      BY <1>6 DEF UserNodeArrives
    <3> QED
      BY <2>4, <3>1 DEF TypeInv, TypeOK, Offers
  <2>6. pc' = [pc EXCEPT ![o] = "userWrite"] /\ peer' = [peer EXCEPT ![o] = "read"]
    BY <1>6 DEF UserNodeArrives, Goto
  <2>7. TypeOK'
    BY <2>3, <2>5, <2>6
    DEF UserNodeArrives, TypeInv, TypeOK, PcValues, heard, history, Offers
  <2>8. CallsHaveArguments'
    BY <1>1, <2>6 DEF UserNodeArrives, TypeInv, TypeOK, CallsHaveArguments
  <2> QED
    BY <2>3, <2>7, <2>8 DEF TypeInv
<1> QED
  BY <1>5, <1>6

LEMMA PeerListArrivesType ==
    ASSUME TypeInv, NEW o \in Ops, PeerListArrives(o)
    PROVE  TypeInv'
<1> DEFINE r == req[o]
<1>1. peer[o] = "read"
  BY DEF PeerListArrives
<1>2. r.me \in Users
  BY <1>1, RequestType DEF TypeInv, CallsHaveArguments
<1>5. PICK p \in Puts : Put(r.me, p)
  BY <1>1, PeerPutTypes DEF PeerListArrives
<1>6. /\ outbox' \in [Users -> Seq(Puts)]
      /\ applied' \in [Users -> Nat]
      /\ AppliedBounded'
  BY <1>2, <1>5, PutType
<1> QED
  BY <1>1, <1>6
  DEF PeerListArrives, TypeInv, TypeOK, CallsHaveArguments, heard, history

LEMMA LogArrivesType ==
    ASSUME TypeInv, NEW o \in Ops, LogArrives(o)
    PROVE  TypeInv'
<1> DEFINE r == req[o]
           log == SeenLog(r.me, r.conv)
<1>1. pc[o] = "logRead"
  BY DEF LogArrives
<1>2. r.me \in Users /\ r.conv \in ConvIds
  BY <1>1, RequestType
<1>4. CASE log = <<>>
  BY <1>1, <1>4
  DEF LogArrives, Goto, TypeInv, TypeOK, AppliedBounded, CallsHaveArguments,
      PcValues, Over, heard
<1>5. CASE log # <<>>
  <2> DEFINE p == LogPut(o, "log", Append(log, o))
  <2>1. p \in Puts
    BY <1>1, LogArrivesPutType
  <2>2. Put(r.me, p)
    BY <1>5 DEF LogArrives
  <2>3. /\ outbox' \in [Users -> Seq(Puts)]
        /\ applied' \in [Users -> Nat]
        /\ AppliedBounded'
    BY <1>2, <2>1, <2>2, PutType
  <2>4. pc' = [pc EXCEPT ![o] = "logWrite"]
    BY <1>5 DEF LogArrives, Goto
  <2>5. clock' \in Nat /\ stamp' \in [Ops -> Nat]
    BY <1>5 DEF LogArrives, Compose, TypeInv, TypeOK
  <2> QED
    BY <1>1, <2>3, <2>4, <2>5
    DEF LogArrives, TypeInv, TypeOK, CallsHaveArguments, PcValues, heard
<1> QED
  BY <1>4, <1>5

LEMMA RowsArriveType ==
    ASSUME TypeInv, NEW o \in Ops, RowsArrive(o)
    PROVE  TypeInv'
<1> DEFINE r == req[o]
           mine == pc[o] = "mineRead"
           value == SeenList(r.me, IF mine THEN r.me ELSE r.other)
           found == value.kind = "list" /\ HasRow(value.rows, r.conv)
           new == List(WithLatest(value.rows, r.conv, o))
<1>1. pc[o] \in {"mineRead", "peerRead"}
  BY DEF RowsArrive
<1>2. r.me \in Users /\ r.other \in Users /\ r.conv \in ConvIds
  BY <1>1, RequestType
<1>5. CASE ~found
  BY <1>1, <1>5
  DEF RowsArrive, Goto, TypeInv, TypeOK, AppliedBounded, CallsHaveArguments,
      PcValues, Over, heard, history
<1>6. CASE found
  <2>1. PICK p \in Puts : Put(r.me, p)
    BY <1>1, <1>6, RowsPutType DEF RowsArrive
  <2>2. /\ outbox' \in [Users -> Seq(Puts)]
        /\ applied' \in [Users -> Nat]
        /\ AppliedBounded'
    BY <1>2, <2>1, PutType
  <2>3. PICK where \in {"mineWrite", "peerWrite"} :
            pc' = [pc EXCEPT ![o] = where]
    BY <1>6 DEF RowsArrive, Goto
  <2> QED
    BY <1>1, <2>2, <2>3
    DEF RowsArrive, TypeInv, TypeOK, CallsHaveArguments, PcValues, heard, history
<1> QED
  BY <1>5, <1>6

\* The first put of a queue of which something is applied.
LEMMA FirstPut ==
    ASSUME TypeInv, NEW u \in Users, applied[u] > 0 \/ outbox[u] # <<>>
    PROVE  /\ outbox[u] # <<>>
           /\ 1 \in 1..Len(outbox[u])
           /\ outbox[u][1] \in Puts
           /\ outbox[u][1].op \in Ops
<1>1. outbox[u] \in Seq(Puts) /\ applied[u] \in Nat /\ applied[u] <= Len(outbox[u])
  BY DEF TypeInv, TypeOK, AppliedBounded
<1>2. outbox[u] # <<>>
  BY <1>1
<1>3. 1 \in 1..Len(outbox[u])
  BY <1>1, <1>2
<1>4. outbox[u][1] \in Puts
  BY <1>1, <1>3, ElementOfSeq
<1> QED
  BY <1>2, <1>3, <1>4, PutKinds

LEMMA FinishCreatingConversationType ==
    ASSUME TypeInv, NEW u \in Users, FinishCreatingConversation(u),
           pc[outbox[u][1].op] # "idle"
    PROVE  TypeInv'
<1> DEFINE o == outbox[u][1].op
<1>1. outbox[u] # <<>> /\ o \in Ops
  BY FirstPut DEF FinishCreatingConversation
<1>2. CASE u \in DottedLocale
  <2>1. Quit(u)
    BY <1>2 DEF FinishCreatingConversation
  <2> QED
    BY <1>2, <2>1, QuitType
    DEF FinishCreatingConversation, TypeInv, TypeOK, CallsHaveArguments, Offers,
        HeardOK
<1>3. CASE u \notin DottedLocale
  <2> DEFINE more == <<LogPut(o, "opening", <<o>>)>>
  <2>1. more \in Seq(Puts)
    BY <1>1, OpeningPutType
  <2>2. Answered(u, more)
    BY <1>3 DEF FinishCreatingConversation
  <2>3. /\ outbox' \in [Users -> Seq(Puts)]
        /\ applied' \in [Users -> Nat]
        /\ AppliedBounded'
    BY <1>1, <2>1, <2>2, AnsweredType
  <2>4. shown' \in [Users -> Offers]
    <3>1. Screen(u) /\ heardList' \in [Users -> ListValues]
      BY <1>3 DEF FinishCreatingConversation, TypeInv, TypeOK, heard
    <3> QED
      BY <2>3, <3>1, ScreenType DEF TypeInv
  <2>5. pc' = [pc EXCEPT ![o] = "openWrite"]
    BY <1>3 DEF FinishCreatingConversation, Goto
  <2>6. clock' \in Nat /\ stamp' \in [Ops -> Nat]
    <3>1. Compose(o)
      BY <1>3 DEF FinishCreatingConversation
    <3> QED
      BY <1>1, <3>1, ComposeType DEF TypeInv
  <2>7. TypeOK'
    BY <1>3, <2>3, <2>4, <2>5, <2>6
    DEF FinishCreatingConversation, TypeInv, TypeOK, PcValues, Offers, heard
  <2>8. CallsHaveArguments'
    BY <1>1, <1>3, <2>5
    DEF FinishCreatingConversation, TypeInv, TypeOK, CallsHaveArguments
  <2> QED
    BY <2>3, <2>7, <2>8 DEF TypeInv
<1> QED
  BY <1>2, <1>3

LEMMA HeardByType ==
    ASSUME TypeOK, convs' \in [Users -> ListValues],
           NEW u \in Users, NEW slow, NEW c, HeardBy(u, slow, c),
           c \in ConvIds \/ slow = {}
    PROVE  HeardOK'
<1>1. heardList' \in [Users -> ListValues]
  BY DEF HeardBy, TypeOK
<1>2. late' \in [Users -> SUBSET ConvIds]
  BY DEF HeardBy, TypeOK
<1>3. heardLogs' \in [Users -> [ConvIds -> Seq(Ops)]]
  BY NoLogsType DEF HeardBy, TypeOK
<1> QED
  BY <1>1, <1>2, <1>3 DEF HeardOK

LEMMA ServerAppliesType ==
    ASSUME TypeInv, NEW u \in Users, ServerApplies(u)
    PROVE  TypeInv'
<1> DEFINE p == outbox[u][applied[u] + 1]
<1>1. outbox[u] \in Seq(Puts) /\ applied[u] \in Nat /\ applied[u] < Len(outbox[u])
  BY DEF ServerApplies, TypeInv, TypeOK
<1>2. p \in Puts
  BY <1>1, ElementOfSeq
<1>3. convs' \in [Users -> ListValues] /\ msgs' \in [ConvIds -> Seq(Ops)]
  BY <1>2, PutKinds DEF ServerApplies, TypeInv, TypeOK
<1>4. told' \in [Ops -> SUBSET (ListWrites \cup LogWrites)]
  BY <1>2, PutKinds DEF ServerApplies, TypeInv, TypeOK
<1>5. applied' \in [Users -> Nat] /\ AppliedBounded'
  <2>1. applied \in [Users -> Nat] /\ AppliedBounded
    BY DEF TypeInv, TypeOK
  <2>2. applied' = [applied EXCEPT ![u] = @ + 1] /\ outbox' = outbox
    BY DEF ServerApplies
  <2>3. Len(outbox[u]) \in Nat
    BY <1>1
  <2> QED
    BY <1>1, <2>1, <2>2, <2>3 DEF AppliedBounded
<1>7. HeardOK'
  <2>1. PICK slow \in SUBSET MayMiss(u, p) : HeardBy(u, slow, req[p.op].conv)
    BY DEF ServerApplies
  <2>2. slow = {} \/ req[p.op].conv \in ConvIds
    BY DEF MayMiss, Observes, TypeInv, TypeOK
  <2> HIDE DEF p
  <2> QED
    BY <1>3, <2>1, <2>2, HeardByType DEF TypeInv
<1>6. shown' \in [Users -> Offers]
  <2>1. Screen(u) /\ outbox' \in [Users -> Seq(Puts)]
    BY DEF ServerApplies, TypeInv, TypeOK
  <2> QED
    BY <1>7, <2>1, ScreenType DEF TypeInv, HeardOK
<1> QED
  BY <1>3, <1>4, <1>5, <1>6, <1>7
  DEF ServerApplies, TypeInv, TypeOK, CallsHaveArguments, Offers, HeardOK

LEMMA CompletedType ==
    ASSUME TypeInv, NEW u \in Users, Completed(u),
           pc[outbox[u][1].op] # "idle"
    PROVE  TypeInv'
<1> DEFINE p == outbox[u][1]
<1>1. outbox[u] # <<>> /\ p.op \in Ops
  BY FirstPut DEF Completed
<1>2. /\ outbox' \in [Users -> Seq(Puts)]
      /\ applied' \in [Users -> Nat]
      /\ AppliedBounded'
  <2>1. <<>> \in Seq(Puts) /\ Answered(u, <<>>)
    BY DEF Completed
  <2> QED
    BY <1>1, <2>1, AnsweredType
<1>3. shown' \in [Users -> Offers]
  <2>1. Screen(u) /\ heardList' \in [Users -> ListValues]
    BY DEF Completed, TypeInv, TypeOK, heard
  <2> QED
    BY <1>2, <2>1, ScreenType DEF TypeInv
<1>4. \/ UNCHANGED pc
      \/ \E where \in {"ok", "mineRead", "peerRead"} :
            pc' = [pc EXCEPT ![p.op] = where]
  BY DEF Completed, Goto
<1>5. pc' \in [Ops -> PcValues]
  BY <1>4 DEF TypeInv, TypeOK, PcValues, Over
<1>6. \A o \in Ops : pc'[o] # "idle" <=> pc[o] # "idle"
  BY <1>1, <1>4 DEF TypeInv, TypeOK
<1> QED
  BY <1>2, <1>3, <1>5, <1>6
  DEF Completed, TypeInv, TypeOK, CallsHaveArguments, Offers, heard, history

LEMMA RefusedType ==
    ASSUME TypeInv, NEW u \in Users, Refused(u),
           pc[outbox[u][1].op] # "idle"
    PROVE  TypeInv'
<1> DEFINE p == outbox[u][1]
<1>1. outbox[u] # <<>> /\ p.op \in Ops
  BY FirstPut DEF Refused
<1>2. /\ outbox' \in [Users -> Seq(Puts)]
      /\ applied' \in [Users -> Nat]
      /\ AppliedBounded'
  <2>1. <<>> \in Seq(Puts) /\ Answered(u, <<>>)
    BY DEF Refused
  <2> QED
    BY <1>1, <2>1, AnsweredType
<1>3. shown' \in [Users -> Offers]
  <2>1. Screen(u) /\ heardList' \in [Users -> ListValues]
    BY DEF Refused, TypeInv, TypeOK, heard
  <2> QED
    BY <1>2, <2>1, ScreenType DEF TypeInv
<1>4. UNCHANGED pc \/ pc' = [pc EXCEPT ![p.op] = "failed"]
  BY DEF Refused, Goto
<1>5. pc' \in [Ops -> PcValues]
  BY <1>4 DEF TypeInv, TypeOK, PcValues, Over
<1>6. \A o \in Ops : pc'[o] # "idle" <=> pc[o] # "idle"
  BY <1>1, <1>4 DEF TypeInv, TypeOK
<1> QED
  BY <1>2, <1>3, <1>5, <1>6
  DEF Refused, TypeInv, TypeOK, CallsHaveArguments, Offers, heard, history

LEMMA ReconnectsType ==
    ASSUME TypeInv, NEW u \in Users, Reconnects(u)
    PROVE  TypeInv'
<1>1. applied' \in [Users -> Nat] /\ AppliedBounded'
  <2>1. \A w \in Users : 0 <= Len(outbox[w])
    BY DEF TypeInv, TypeOK
  <2> QED
    BY <2>1 DEF Reconnects, TypeInv, TypeOK, AppliedBounded
<1> QED
  BY <1>1
  DEF Reconnects, TypeInv, TypeOK, CallsHaveArguments, heard, history

LEMMA KillType ==
    ASSUME TypeInv, NEW u \in Users, Kill(u)
    PROVE  TypeInv'
<1>1. Quit(u)
  BY DEF Kill
<1> QED
  BY <1>1, QuitType
  DEF Kill, TypeInv, TypeOK, CallsHaveArguments, Offers, HeardOK, history

LEMMA HearsType ==
    ASSUME TypeInv, NEW u \in Users, Hears(u)
    PROVE  TypeInv'
<1>1. CASE HearsList(u)
  <2>1. heardList' \in [Users -> ListValues] /\ outbox' \in [Users -> Seq(Puts)]
    BY <1>1 DEF HearsList, TypeInv, TypeOK
  <2>2. shown' \in [Users -> Offers]
    BY <1>1, <2>1, ScreenType DEF HearsList, TypeInv
  <2> QED
    BY <1>1, <2>1, <2>2
    DEF HearsList, TypeInv, TypeOK, AppliedBounded, CallsHaveArguments, Offers,
        history
<1>2. CASE \E c \in ConvIds : HearsLog(u, c)
  <2>1. PICK c \in ConvIds : HearsLog(u, c)
    BY <1>2
  <2>2. HeardOK'
    <3>1. <<>> \in Seq(Ops)
      OBVIOUS
    <3> QED
      BY <2>1, <3>1 DEF HearsLog, TypeInv, TypeOK, HeardOK
  <2> QED
    BY <2>1, <2>2
    DEF HearsLog, TypeInv, TypeOK, HeardOK, AppliedBounded, CallsHaveArguments,
        history
<1> QED
  BY <1>1, <1>2 DEF Hears

----------------------------------------------------------------------------
(* The state of a call agrees with its puts                                *)

\* A put belongs to a call of its device that waits for its answer; a
\* recipient's update is never waited for, and an opening or a row is put by
\* a creation.
PutFits(u, p, stage, args) ==
    /\ stage[p.op] # "idle"
    /\ args[p.op].me = u
    /\ p.to = "user" => stage[p.op] = "userWrite"
    /\ p.to = "opening" => stage[p.op] = "openWrite"
    /\ p.to = "log" => stage[p.op] = "logWrite"
    /\ p.to = "mine" => stage[p.op] = "mineWrite"
    /\ p.to = "theirs" => stage[p.op] = "peerWrite"

Awaited(p) == p.to \notin {"entry", "id"}

PutsAgree ==
    \A u \in Users :
        /\ \A i \in 1..Len(outbox[u]) : PutFits(u, outbox[u][i], pc, req)
        /\ \A i, j \in 1..Len(outbox[u]) :
              /\ outbox[u][i].op = outbox[u][j].op
              /\ Awaited(outbox[u][i]) /\ Awaited(outbox[u][j])
              => i = j

CallInv == TypeInv /\ PutsAgree

LEMMA FirstPutStarted ==
    ASSUME CallInv, NEW u \in Users, applied[u] > 0 \/ outbox[u] # <<>>
    PROVE  pc[outbox[u][1].op] # "idle"
BY FirstPut DEF CallInv, PutsAgree, PutFits

LEMMA TypeStep == CallInv /\ [Next]_vars => TypeInv'
<1> SUFFICES ASSUME CallInv, [Next]_vars
             PROVE  TypeInv'
  OBVIOUS
<1> USE DEF CallInv
<1>1. CASE UNCHANGED vars
  BY <1>1
  DEF vars, heard, history, TypeInv, TypeOK, CallsHaveArguments, AppliedBounded
<1>2. ASSUME NEW o \in Ops, Press(o)
      PROVE  TypeInv'
  BY <1>2, PressType
<1>3. ASSUME NEW o \in Ops, Arrives(o)
      PROVE  TypeInv'
  BY <1>3, UserNodeArrivesType, LogArrivesType, RowsArriveType DEF Arrives
<1>4. ASSUME NEW o \in Ops, PeerListArrives(o)
      PROVE  TypeInv'
  BY <1>4, PeerListArrivesType
<1>5. ASSUME NEW u \in Users, Replies(u)
      PROVE  TypeInv'
  <2>1. pc[outbox[u][1].op] # "idle"
    BY <1>5, FirstPutStarted DEF Replies, FinishCreatingConversation, Completed
  <2> QED
    BY <1>5, <2>1, FinishCreatingConversationType, CompletedType DEF Replies
<1>6. ASSUME NEW u \in Users, Refused(u)
      PROVE  TypeInv'
  <2>1. pc[outbox[u][1].op] # "idle"
    BY <1>6, FirstPutStarted DEF Refused
  <2> QED
    BY <1>6, <2>1, RefusedType
<1>7. ASSUME NEW u \in Users,
             ServerApplies(u) \/ Reconnects(u) \/ Kill(u) \/ Hears(u)
      PROVE  TypeInv'
  BY <1>7, ServerAppliesType, ReconnectsType, KillType, HearsType
<1> QED
  BY <1>1, <1>2, <1>3, <1>4, <1>5, <1>6, <1>7 DEF Next

\* Where a call waits for a read, and has no put that it waits for.
Reading == {"userRead", "logRead", "mineRead", "peerRead"}

LEMMA QueueElements ==
    ASSUME TypeInv, NEW u \in Users
    PROVE  /\ outbox[u] \in Seq(Puts) /\ Len(outbox[u]) \in Nat
           /\ \A i \in 1..Len(outbox[u]) : /\ outbox[u][i] \in Puts
                                           /\ outbox[u][i].op \in Ops
BY ElementOfSeq, PutKinds DEF TypeInv, TypeOK

\* The queues stay, and only calls without awaited puts go on.
LEMMA AgreeKept ==
    ASSUME CallInv, UNCHANGED outbox,
           \A q \in Ops : pc[q] # "idle" =>
               /\ req'[q] = req[q]
               /\ pc'[q] # "idle"
               /\ pc'[q] = pc[q] \/ pc[q] \in Reading
    PROVE  PutsAgree'
<1> SUFFICES ASSUME NEW u \in Users
             PROVE  \A i \in 1..Len(outbox[u]) :
                        PutFits(u, outbox[u][i], pc', req')
  BY DEF PutsAgree, CallInv, Awaited
<1> SUFFICES ASSUME NEW i \in 1..Len(outbox[u])
             PROVE  PutFits(u, outbox[u][i], pc', req')
  OBVIOUS
<1>1. PutFits(u, outbox[u][i], pc, req) /\ outbox[u][i].op \in Ops
  BY QueueElements DEF CallInv, PutsAgree
<1> QED
  BY <1>1 DEF PutFits, Reading

\* A call that waits for a read puts a value and waits for its answer, or a
\* creation puts the recipient's row and goes on waiting for what it did.
LEMMA AgreeAfterPut ==
    ASSUME CallInv, NEW u \in Users, NEW p \in Puts, Put(u, p), UNCHANGED req,
           \A q \in Ops \ {p.op} : pc'[q] = pc[q],
           \/ pc[p.op] \in Reading
           \/ ~Awaited(p) /\ pc'[p.op] = pc[p.op],
           PutFits(u, p, pc', req')
    PROVE  PutsAgree'
<1>1. p.op \in Ops
  BY PutKinds
<1>2. outbox[u] \in Seq(Puts)
  BY QueueElements DEF CallInv
<1>3. /\ \A w \in Users \ {u} : outbox'[w] = outbox[w]
      /\ outbox'[u] = Append(outbox[u], p)
  BY DEF Put, CallInv, TypeInv, TypeOK
<1>4. /\ Len(outbox'[u]) = Len(outbox[u]) + 1
      /\ \A i \in 1..Len(outbox[u]) : outbox'[u][i] = outbox[u][i]
      /\ outbox'[u][Len(outbox[u]) + 1] = p
  BY <1>2, <1>3, AppendProperties
<1>5. ASSUME NEW w \in Users, NEW i \in 1..Len(outbox[w])
      PROVE  /\ PutFits(w, outbox[w][i], pc', req')
             /\ Awaited(p) => ~(Awaited(outbox[w][i]) /\ outbox[w][i].op = p.op)
  <2> DEFINE q == outbox[w][i]
  <2>1. PutFits(w, q, pc, req) /\ q.op \in Ops /\ q \in Puts
    BY QueueElements DEF CallInv, PutsAgree
  <2>2. CASE q.op # p.op
    BY <2>1, <2>2 DEF PutFits
  <2>3. CASE q.op = p.op
    <3>1. q.to \in ListWrites \cup LogWrites
      BY <2>1, PutKinds
    <3>2. CASE pc[p.op] \in Reading
      <4>1. ~Awaited(q)
        BY <2>1, <2>3, <3>1, <3>2
        DEF PutFits, Reading, Awaited, ListWrites, LogWrites
      <4> QED
        BY <2>1, <2>3, <4>1 DEF PutFits, Awaited
    <3>3. CASE ~Awaited(p) /\ pc'[p.op] = pc[p.op]
      BY <2>1, <2>3, <3>3 DEF PutFits
    <3> QED
      BY <3>2, <3>3
  <2> QED
    BY <2>2, <2>3
<1>6. ASSUME NEW w \in Users, NEW i \in 1..Len(outbox'[w])
      PROVE  PutFits(w, outbox'[w][i], pc', req')
  <2>1. CASE w = u /\ i = Len(outbox[u]) + 1
    BY <1>4, <2>1
  <2>2. CASE ~(w = u /\ i = Len(outbox[u]) + 1)
    <3>1. CASE w = u
      <4>1. Len(outbox[u]) \in Nat
        BY <1>2
      <4>2. i \in 1..Len(outbox[u]) /\ outbox'[u][i] = outbox[u][i]
        BY <1>4, <2>2, <3>1, <4>1
      <4> QED
        BY <1>5, <3>1, <4>2
    <3>2. CASE w # u
      <4>1. outbox'[w] = outbox[w]
        BY <1>3, <3>2
      <4> QED
        BY <1>5, <4>1
    <3> QED
      BY <3>1, <3>2
  <2> QED
    BY <2>1, <2>2
<1>7. ASSUME NEW w \in Users, NEW i \in 1..Len(outbox'[w]),
             NEW j \in 1..Len(outbox'[w]),
             outbox'[w][i].op = outbox'[w][j].op,
             Awaited(outbox'[w][i]), Awaited(outbox'[w][j])
      PROVE  i = j
  <2>1. CASE w # u
    BY <1>3, <1>7, <2>1 DEF CallInv, PutsAgree
  <2>2. CASE w = u
    <3>1. i \in 1..Len(outbox[u]) \/ i = Len(outbox[u]) + 1
      BY <1>2, <1>4, <2>2
    <3>2. j \in 1..Len(outbox[u]) \/ j = Len(outbox[u]) + 1
      BY <1>2, <1>4, <2>2
    <3>3. CASE i \in 1..Len(outbox[u]) /\ j \in 1..Len(outbox[u])
      BY <1>4, <1>7, <2>2, <3>3 DEF CallInv, PutsAgree
    <3>4. CASE i = Len(outbox[u]) + 1 /\ j \in 1..Len(outbox[u])
      BY <1>4, <1>5, <1>7, <2>2, <3>4
    <3>5. CASE i \in 1..Len(outbox[u]) /\ j = Len(outbox[u]) + 1
      BY <1>4, <1>5, <1>7, <2>2, <3>5
    <3> QED
      BY <3>1, <3>2, <3>3, <3>4, <3>5
  <2> QED
    BY <2>1, <2>2
<1> QED
  BY <1>6, <1>7 DEF PutsAgree, Awaited

LEMMA OneMore ==
    ASSUME NEW n \in Nat, NEW k \in Nat, k = 0 \/ k = 1, NEW i \in 1..(n + k), i > n
    PROVE  k = 1 /\ i = n + 1
OBVIOUS

LEMMA NoLength == Len(<<>>) = 0
OBVIOUS

\* The first put is answered, and its call goes on; the completion block may
\* put one value that the call then waits for.
LEMMA AgreeAfterAnswer ==
    ASSUME CallInv, NEW u \in Users, outbox[u] # <<>>, UNCHANGED req,
           NEW more \in Seq(Puts), Answered(u, more),
           Len(more) = 0 \/ Len(more) = 1,
           Len(more) = 1 => /\ more[1].op = outbox[u][1].op
                            /\ PutFits(u, more[1], pc', req'),
           \A q \in Ops \ {outbox[u][1].op} : pc'[q] = pc[q],
           pc'[outbox[u][1].op] # "idle",
           \/ Awaited(outbox[u][1])
           \/ Len(more) = 0 /\ UNCHANGED pc
    PROVE  PutsAgree'
<1> DEFINE first == outbox[u][1]
           rest == Tail(outbox[u])
           new == rest \o more
<1>1. outbox[u] \in Seq(Puts) /\ first \in Puts /\ first.op \in Ops
  BY FirstPut, QueueElements DEF CallInv
<1>2. /\ rest \in Seq(Puts) /\ Len(rest) = Len(outbox[u]) - 1
      /\ \A i \in 1..Len(rest) : rest[i] = outbox[u][i + 1]
  BY <1>1, TailProperties
<1>3. /\ new \in Seq(Puts) /\ Len(new) = Len(rest) + Len(more)
      /\ \A i \in 1..Len(new) :
            new[i] = IF i <= Len(rest) THEN rest[i] ELSE more[i - Len(rest)]
  BY <1>2, ConcatProperties
<1>4. /\ \A w \in Users \ {u} : outbox'[w] = outbox[w]
      /\ outbox'[u] = new
  BY DEF Answered, CallInv, TypeInv, TypeOK
<1>5. Len(more) \in Nat /\ Len(rest) \in Nat /\ Len(outbox[u]) \in Nat
  BY <1>1, <1>2, LenProperties
<1>10. ASSUME Len(more) = 1
       PROVE  /\ more[1].op = first.op
              /\ PutFits(u, more[1], pc', req')
              /\ Awaited(first)
  BY <1>10
<1> HIDE DEF rest, new
<1>6. ASSUME NEW w \in Users, NEW i \in 1..Len(outbox[w]), w # u \/ i > 1
      PROVE  /\ PutFits(w, outbox[w][i], pc', req')
             /\ w = u /\ Awaited(first) /\ Awaited(outbox[w][i])
                    => outbox[w][i].op # first.op
  <2> DEFINE q == outbox[w][i]
  <2>1. PutFits(w, q, pc, req) /\ q.op \in Ops /\ q \in Puts
    BY QueueElements DEF CallInv, PutsAgree
  <2>2. PutFits(u, first, pc, req)
    BY FirstPut DEF CallInv, PutsAgree
  <2>3. w = u /\ Awaited(first) /\ Awaited(q) => q.op # first.op
    BY <1>5, <1>6, FirstPut DEF CallInv, PutsAgree
  <2>4. CASE q.op # first.op \/ UNCHANGED pc
    BY <2>1, <2>3, <2>4 DEF PutFits
  <2>5. CASE q.op = first.op /\ Awaited(first)
    <3>1. w = u
      BY <2>1, <2>2, <2>5 DEF PutFits
    <3>2. ~Awaited(q)
      BY <2>3, <2>5, <3>1
    <3> QED
      BY <2>1, <2>3, <2>5, <3>2 DEF PutFits, Awaited
  <2> QED
    BY <2>4, <2>5
<1>7. ASSUME NEW i \in 1..Len(new)
      PROVE  \/ /\ i + 1 \in 1..Len(outbox[u]) /\ i + 1 > 1
                /\ new[i] = outbox[u][i + 1]
             \/ /\ i = Len(rest) + 1 /\ Len(more) = 1
                /\ new[i] = more[1]
  <2>1. CASE i <= Len(rest)
    <3>1. new[i] = rest[i] /\ i \in 1..Len(rest)
      BY <1>3, <1>5, <2>1
    <3>2. i + 1 \in 1..Len(outbox[u]) /\ i + 1 > 1
      BY <1>2, <1>5, <2>1
    <3> QED
      BY <1>2, <3>1, <3>2
  <2>2. CASE i > Len(rest)
    <3>1. new[i] = more[i - Len(rest)]
      BY <1>3, <1>5, <2>2
    <3>2. Len(more) = 1 /\ i = Len(rest) + 1
      <4>1. Len(new) = Len(rest) + Len(more)
        BY <1>3
      <4> QED
        BY <1>5, <2>2, <4>1, OneMore
    <3>3. i - Len(rest) = 1
      BY <1>5, <3>2
    <3> QED
      BY <3>1, <3>2, <3>3
  <2> QED
    BY <1>5, <2>1, <2>2
<1>8. ASSUME NEW w \in Users, NEW i \in 1..Len(outbox'[w])
      PROVE  PutFits(w, outbox'[w][i], pc', req')
  <2>1. CASE w # u
    BY <1>4, <1>6, <2>1
  <2>2. CASE w = u
    BY <1>4, <1>6, <1>7, <1>10, <2>2
  <2> QED
    BY <2>1, <2>2
<1>9. ASSUME NEW w \in Users, NEW i \in 1..Len(outbox'[w]),
             NEW j \in 1..Len(outbox'[w]),
             outbox'[w][i].op = outbox'[w][j].op,
             Awaited(outbox'[w][i]), Awaited(outbox'[w][j])
      PROVE  i = j
  <2>1. CASE w # u
    BY <1>4, <1>9, <2>1 DEF CallInv, PutsAgree
  <2>2. CASE w = u
    <3> DEFINE Old(k) == /\ k + 1 \in 1..Len(outbox[u]) /\ k + 1 > 1
                         /\ new[k] = outbox[u][k + 1]
               New(k) == /\ k = Len(rest) + 1 /\ Len(more) = 1
                         /\ new[k] = more[1]
    <3>1. (Old(i) \/ New(i)) /\ (Old(j) \/ New(j))
      BY <1>4, <1>7, <2>2
    <3>2. CASE Old(i) /\ Old(j)
      BY <1>4, <1>9, <2>2, <3>2 DEF CallInv, PutsAgree
    <3>3. ASSUME NEW k \in 1..Len(new), NEW l \in 1..Len(new),
                 New(k), Old(l), Awaited(new[l])
          PROVE  new[k].op # new[l].op
      <4>1. Len(more) = 1 /\ new[k] = more[1]
        BY <3>3
      <4>2. more[1].op = first.op /\ Awaited(first)
        BY <1>10, <4>1
      <4> QED
        BY <1>6, <3>3, <4>1, <4>2
    <3>4. CASE (New(i) /\ Old(j)) \/ (Old(i) /\ New(j))
      BY <1>4, <1>9, <2>2, <3>3, <3>4
    <3>5. CASE New(i) /\ New(j)
      BY <3>5
    <3>6. \/ Old(i) /\ Old(j)
          \/ (New(i) /\ Old(j)) \/ (Old(i) /\ New(j))
          \/ New(i) /\ New(j)
      <4> HIDE DEF Old, New
      <4> QED
        BY <3>1
    <3> QED
      BY <3>2, <3>4, <3>5, <3>6
  <2> QED
    BY <2>1, <2>2
<1> QED
  BY <1>8, <1>9 DEF PutsAgree, Awaited

LEMMA AgreeAfterQuit ==
    ASSUME CallInv, NEW u \in Users, Quit(u), UNCHANGED req
    PROVE  PutsAgree'
<1>1. /\ \A w \in Users \ {u} : outbox'[w] = outbox[w]
      /\ outbox'[u] = <<>>
  BY DEF Quit, CallInv, TypeInv, TypeOK
<1>2. ASSUME NEW w \in Users \ {u}, NEW i \in 1..Len(outbox[w])
      PROVE  PutFits(w, outbox[w][i], pc', req')
  <2>1. PutFits(w, outbox[w][i], pc, req) /\ outbox[w][i].op \in Ops
    BY QueueElements DEF CallInv, PutsAgree
  <2>2. pc'[outbox[w][i].op] = pc[outbox[w][i].op]
    BY <2>1 DEF Quit, PutFits
  <2> QED
    BY <2>1, <2>2 DEF PutFits
<1> QED
  BY <1>1, <1>2 DEF PutsAgree, CallInv, Awaited

\* The puts' fields, as the actions name them.
LEMMA PutFields ==
    ASSUME NEW o, NEW to, NEW value
    PROVE  /\ ListPut(o, to, value).op = o /\ ListPut(o, to, value).to = to
           /\ LogPut(o, to, value).op = o /\ LogPut(o, to, value).to = to
           /\ ListPut(o, to, value).list = value
           /\ LogPut(o, to, value).log = value
BY DEF ListPut, LogPut

LEMMA PressAgrees ==
    ASSUME CallInv, NEW o \in Ops, Press(o)
    PROVE  PutsAgree'
<1>1. UNCHANGED outbox /\ pc[o] = "idle"
  BY DEF Press, CreateNewConversation, SendMessage
<1>2. \A q \in Ops \ {o} : pc'[q] = pc[q] /\ req'[q] = req[q]
  BY DEF Press, CreateNewConversation, SendMessage, Goto, CallInv, TypeInv,
         TypeOK
<1> QED
  BY <1>1, <1>2, AgreeKept

LEMMA UserNodeArrivesAgrees ==
    ASSUME CallInv, NEW o \in Ops, UserNodeArrives(o)
    PROVE  PutsAgree'
<1> DEFINE r == req[o]
           row == Row(r.conv, r.other, o)
           value == List(AppendRow(NodeList(r.me), row))
           p == ListPut(o, "user", value)
<1>1. pc[o] = "userRead" /\ UNCHANGED req /\ pc \in [Ops -> PcValues]
  BY DEF UserNodeArrives, CallInv, TypeInv, TypeOK
<1>2. r.me \in Users /\ r.other \in Users /\ r.conv \in ConvIds
  BY <1>1, RequestType DEF CallInv
<1>3. CASE r.me \notin Registered
  <2>1. UNCHANGED outbox /\ pc' = [pc EXCEPT ![o] = "failed"]
    BY <1>3 DEF UserNodeArrives, Goto
  <2> QED
    BY <1>1, <2>1, AgreeKept DEF Reading
<1>4. CASE r.me \in Registered
  <2>1. p \in Puts
    BY <1>1, UserPutType DEF CallInv
  <2>2. Put(r.me, p) /\ pc' = [pc EXCEPT ![o] = "userWrite"]
    BY <1>4 DEF UserNodeArrives, Goto
  <2>3. p.op = o /\ p.to = "user"
    BY PutFields
  <2> HIDE DEF p
  <2>4. PutFits(r.me, p, pc', req')
    BY <1>1, <2>2, <2>3 DEF PutFits
  <2> QED
    BY <1>1, <1>2, <2>1, <2>2, <2>3, <2>4, AgreeAfterPut DEF Reading
<1> QED
  BY <1>3, <1>4

LEMMA PeerListArrivesAgrees ==
    ASSUME CallInv, NEW o \in Ops, PeerListArrives(o)
    PROVE  PutsAgree'
<1> DEFINE r == req[o]
<1>1. peer[o] = "read" /\ pc[o] # "idle" /\ UNCHANGED <<pc, req>>
  BY DEF PeerListArrives, CallInv, TypeInv, CallsHaveArguments
<1>2. r.me \in Users /\ r.other \in Users /\ r.conv \in ConvIds
  BY <1>1, RequestType DEF CallInv
<1>4. PICK p \in Puts : Put(r.me, p) /\ p.op = o /\ p.to \in {"entry", "id"}
  BY <1>1, PeerPutTypes, PutFields DEF PeerListArrives, CallInv
<1>5. PutFits(r.me, p, pc', req')
  BY <1>1, <1>4 DEF PutFits
<1> QED
  BY <1>1, <1>2, <1>4, <1>5, AgreeAfterPut DEF Awaited

LEMMA LogArrivesAgrees ==
    ASSUME CallInv, NEW o \in Ops, LogArrives(o)
    PROVE  PutsAgree'
<1> DEFINE r == req[o]
           log == SeenLog(r.me, r.conv)
           p == LogPut(o, "log", Append(log, o))
<1>1. pc[o] = "logRead" /\ UNCHANGED req /\ pc \in [Ops -> PcValues]
  BY DEF LogArrives, CallInv, TypeInv, TypeOK
<1>2. r.me \in Users /\ r.conv \in ConvIds
  BY <1>1, RequestType DEF CallInv
<1>3. CASE log = <<>>
  <2>1. UNCHANGED outbox /\ pc' = [pc EXCEPT ![o] = "failed"]
    BY <1>3 DEF LogArrives, Goto
  <2> QED
    BY <1>1, <2>1, AgreeKept DEF Reading
<1>4. CASE log # <<>>
  <2>1. p \in Puts
    BY <1>1, LogArrivesPutType DEF CallInv
  <2>2. Put(r.me, p) /\ pc' = [pc EXCEPT ![o] = "logWrite"]
    BY <1>4 DEF LogArrives, Goto
  <2>3. p.op = o /\ p.to = "log"
    BY PutFields
  <2> HIDE DEF p
  <2>4. PutFits(r.me, p, pc', req')
    BY <1>1, <2>2, <2>3 DEF PutFits
  <2> QED
    BY <1>1, <1>2, <2>1, <2>2, <2>3, <2>4, AgreeAfterPut DEF Reading
<1> QED
  BY <1>3, <1>4

LEMMA RowsArriveAgrees ==
    ASSUME CallInv, NEW o \in Ops, RowsArrive(o)
    PROVE  PutsAgree'
<1> DEFINE r == req[o]
           mine == pc[o] = "mineRead"
           value == SeenList(r.me, IF mine THEN r.me ELSE r.other)
           found == value.kind = "list" /\ HasRow(value.rows, r.conv)
           new == List(WithLatest(value.rows, r.conv, o))
           p == ListPut(o, IF mine THEN "mine" ELSE "theirs", new)
<1>1. /\ pc[o] \in {"mineRead", "peerRead"}
      /\ UNCHANGED req /\ pc \in [Ops -> PcValues]
  BY DEF RowsArrive, CallInv, TypeInv, TypeOK
<1>2. r.me \in Users /\ r.other \in Users /\ r.conv \in ConvIds
  BY <1>1, RequestType DEF CallInv
<1>3. CASE ~found
  <2>1. UNCHANGED outbox /\ pc' = [pc EXCEPT ![o] = "failed"]
    BY <1>3 DEF RowsArrive, Goto
  <2> QED
    BY <1>1, <2>1, AgreeKept DEF Reading
<1>4. CASE found
  <2>1. p \in Puts
    BY <1>1, RowsPutType DEF CallInv
  <2>2. /\ Put(r.me, p)
        /\ pc' = [pc EXCEPT ![o] = IF mine THEN "mineWrite" ELSE "peerWrite"]
    BY <1>4 DEF RowsArrive, Goto
  <2>3. p.op = o /\ p.to = IF mine THEN "mine" ELSE "theirs"
    BY PutFields
  <2> HIDE DEF p
  <2>4. PutFits(r.me, p, pc', req')
    BY <1>1, <2>2, <2>3 DEF PutFits
  <2> QED
    BY <1>1, <1>2, <2>1, <2>2, <2>3, <2>4, AgreeAfterPut DEF Reading
<1> QED
  BY <1>3, <1>4

LEMMA FinishCreatingConversationAgrees ==
    ASSUME CallInv, NEW u \in Users, FinishCreatingConversation(u)
    PROVE  PutsAgree'
<1> DEFINE o == outbox[u][1].op
<1>1. /\ outbox[u] # <<>> /\ o \in Ops /\ UNCHANGED req
      /\ outbox[u][1].to = "user" /\ 1 \in 1..Len(outbox[u])
      /\ pc \in [Ops -> PcValues]
  BY FirstPut DEF FinishCreatingConversation, CallInv, TypeInv, TypeOK
<1>2. CASE u \in DottedLocale
  <2>1. Quit(u)
    BY <1>2 DEF FinishCreatingConversation
  <2> QED
    BY <1>1, <2>1, AgreeAfterQuit
<1>3. CASE u \notin DottedLocale
  <2> DEFINE p == LogPut(o, "opening", <<o>>)
             more == <<p>>
  <2>1. p \in Puts
    BY <1>1, OpeningPutType
  <2>2. Answered(u, more) /\ pc' = [pc EXCEPT ![o] = "openWrite"]
    BY <1>3 DEF FinishCreatingConversation, Goto
  <2>3. p.op = o /\ p.to = "opening"
    BY PutFields
  <2>4. PutFits(u, outbox[u][1], pc, req)
    BY <1>1 DEF CallInv, PutsAgree
  <2> HIDE DEF p
  <2>5. PutFits(u, p, pc', req')
    BY <1>1, <2>2, <2>3, <2>4 DEF PutFits
  <2>6. more \in Seq(Puts) /\ Len(more) = 1 /\ more[1] = p
    BY <2>1
  <2>7. Awaited(outbox[u][1])
    BY <1>1 DEF Awaited
  <2> HIDE DEF more
  <2>8. more[1].op = outbox[u][1].op /\ PutFits(u, more[1], pc', req')
    BY <2>3, <2>5, <2>6
  <2>9. /\ \A q \in Ops \ {outbox[u][1].op} : pc'[q] = pc[q]
        /\ pc'[outbox[u][1].op] # "idle"
    BY <1>1, <2>2
  <2> QED
    BY <1>1, <2>2, <2>6, <2>7, <2>8, <2>9, AgreeAfterAnswer
<1> QED
  BY <1>2, <1>3

LEMMA AnswerOnlyAgrees ==
    ASSUME CallInv, NEW u \in Users, applied[u] > 0 \/ outbox[u] # <<>>,
           UNCHANGED req, Answered(u, <<>>),
           \A q \in Ops \ {outbox[u][1].op} : pc'[q] = pc[q],
           Awaited(outbox[u][1]) => pc'[outbox[u][1].op] # "idle",
           Awaited(outbox[u][1]) \/ UNCHANGED pc
    PROVE  PutsAgree'
<1>1. outbox[u] # <<>> /\ outbox[u][1].op \in Ops
  BY FirstPut DEF CallInv
<1>2. pc'[outbox[u][1].op] # "idle"
  BY FirstPutStarted
<1> DEFINE more == <<>>
<1>3. more \in Seq(Puts) /\ Answered(u, more)
  OBVIOUS
<1>4. /\ Len(more) = 0 /\ Len(more) # 1
      /\ Awaited(outbox[u][1]) \/ (Len(more) = 0 /\ UNCHANGED pc)
  BY NoLength
<1> HIDE DEF more
<1> QED
  BY <1>1, <1>2, <1>3, <1>4, AgreeAfterAnswer

LEMMA CompletedAgrees ==
    ASSUME CallInv, NEW u \in Users, Completed(u)
    PROVE  PutsAgree'
<1> DEFINE p == outbox[u][1]
<1>1. p \in Puts /\ p.op \in Ops /\ pc \in [Ops -> PcValues]
  BY FirstPut DEF Completed, CallInv, TypeInv, TypeOK
<1>2. p.to \in ListWrites \cup LogWrites /\ p.to # "user"
  BY <1>1, PutKinds DEF Completed
<1>3. \/ UNCHANGED pc
      \/ /\ Awaited(p)
         /\ \E where \in {"ok", "mineRead", "peerRead"} :
                pc' = [pc EXCEPT ![p.op] = where]
  BY <1>2 DEF Completed, Goto, Awaited, ListWrites, LogWrites
<1>4. /\ \A q \in Ops \ {p.op} : pc'[q] = pc[q]
      /\ Awaited(p) => pc'[p.op] # "idle"
      /\ Awaited(p) \/ UNCHANGED pc
  BY <1>1, <1>3, FirstPutStarted DEF Completed
<1> QED
  BY <1>4, AnswerOnlyAgrees DEF Completed

LEMMA RefusedAgrees ==
    ASSUME CallInv, NEW u \in Users, Refused(u)
    PROVE  PutsAgree'
<1> DEFINE p == outbox[u][1]
<1>1. p.op \in Ops /\ pc \in [Ops -> PcValues]
  BY FirstPut DEF Refused, CallInv, TypeInv, TypeOK
<1>2. IF Awaited(p) THEN pc' = [pc EXCEPT ![p.op] = "failed"]
                    ELSE UNCHANGED pc
  BY DEF Refused, Goto, Awaited
<1>3. /\ \A q \in Ops \ {p.op} : pc'[q] = pc[q]
      /\ Awaited(p) => pc'[p.op] # "idle"
      /\ Awaited(p) \/ UNCHANGED pc
  BY <1>1, <1>2
<1> QED
  BY <1>3, AnswerOnlyAgrees DEF Refused

LEMMA AgreeStep == CallInv /\ [Next]_vars => PutsAgree'
<1> SUFFICES ASSUME CallInv, [Next]_vars
             PROVE  PutsAgree'
  OBVIOUS
<1>1. CASE UNCHANGED vars
  BY <1>1, AgreeKept DEF vars, heard, history
<1>2. ASSUME NEW o \in Ops, Press(o)
      PROVE  PutsAgree'
  BY <1>2, PressAgrees
<1>3. ASSUME NEW o \in Ops, Arrives(o)
      PROVE  PutsAgree'
  BY <1>3, UserNodeArrivesAgrees, LogArrivesAgrees, RowsArriveAgrees
  DEF Arrives
<1>4. ASSUME NEW o \in Ops, PeerListArrives(o)
      PROVE  PutsAgree'
  BY <1>4, PeerListArrivesAgrees
<1>5. ASSUME NEW u \in Users, Replies(u)
      PROVE  PutsAgree'
  BY <1>5, FinishCreatingConversationAgrees, CompletedAgrees DEF Replies
<1>6. ASSUME NEW u \in Users, Refused(u)
      PROVE  PutsAgree'
  BY <1>6, RefusedAgrees
<1>7. ASSUME NEW u \in Users, ServerApplies(u) \/ Reconnects(u) \/ Hears(u)
      PROVE  PutsAgree'
  BY <1>7, AgreeKept DEF ServerApplies, Reconnects, Hears, HearsList, HearsLog
<1>8. ASSUME NEW u \in Users, Kill(u)
      PROVE  PutsAgree'
  BY <1>8, AgreeAfterQuit DEF Kill
<1> QED
  BY <1>1, <1>2, <1>3, <1>4, <1>5, <1>6, <1>7, <1>8 DEF Next

LEMMA CallInvInit == Init => CallInv
<1> SUFFICES ASSUME Init PROVE CallInv
  OBVIOUS
<1>1. \A u \in Users : Len(outbox[u]) = 0
  BY NoLength DEF Init
<1>2. PutsAgree
  <2> SUFFICES ASSUME NEW u \in Users, NEW i \in 1..Len(outbox[u])
               PROVE  FALSE
    BY DEF PutsAgree
  <2> QED
    BY <1>1
<1>3. TypeInv
  BY TypeInit
<1> QED
  BY <1>2, <1>3 DEF CallInv

\* CallInv is an invariant.
LEMMA CallInvCorrect == Spec => []CallInv
<1>1. CallInv /\ [Next]_vars => CallInv'
  BY TypeStep, AgreeStep DEF CallInv
<1> QED
  BY <1>1, CallInvInit, PTL DEF Spec

\* The type invariant: whatever calls are made, interleaved, answered,
\* refused, sent again or cut off, the database and the devices' queues hold
\* values of the shapes that DatabaseManager's casts expect, and a callback
\* never runs for a call that was not made.
THEOREM TypeCorrect == Spec => []TypeOK
BY CallInvCorrect, PTL DEF CallInv, TypeInv

----------------------------------------------------------------------------
(* The order of the messages                                               *)

\* An array of messages of c, in the order in which they were composed, that
\* begins with the message of a creation.  rq, st and ck are req, stamp and
\* clock, or the next values of these.
Ordered(log, c, rq, st, ck) ==
    /\ \A i \in 1..Len(log) : /\ rq[log[i]].conv = c
                              /\ 0 < st[log[i]] /\ st[log[i]] <= ck
    /\ \A i, j \in 1..Len(log) : i < j => st[log[i]] < st[log[j]]
    /\ log # <<>> => rq[log[1]].kind = "create"

\* The same of the array that a put carries, which is never empty.
PutOrdered(p, rq, st, ck) ==
    p.to \in LogWrites => /\ p.log # <<>>
                          /\ Ordered(p.log, rq[p.op].conv, rq, st, ck)

LogsOrdered ==
    \A c \in ConvIds : Ordered(msgs[c], c, req, stamp, clock)

\* What waits in a queue is as good as what is stored: that is what makes it
\* harmless to apply it late, or once more after a reconnection.
PutsOrdered ==
    \A u \in Users : \A i \in 1..Len(outbox[u]) :
        PutOrdered(outbox[u][i], req, stamp, clock)

\* A call has no stamp before it composes, and only creations open a log.
Fresh == {"idle", "userRead", "userWrite", "logRead"}
FreshCalls ==
    \A o \in Ops : /\ pc[o] \in Fresh => stamp[o] = 0
                   /\ pc[o] \in {"userRead", "userWrite"}
                          => req[o].kind = "create"

\* A device that lags behind goes by arrays that were stored.
HeardOrdered ==
    \A u \in Users : \A c \in ConvIds :
        Ordered(heardLogs[u][c], c, req, stamp, clock)

OrderInv == LogsOrdered /\ PutsOrdered /\ HeardOrdered /\ FreshCalls

\* What a step may do to req, stamp and clock.
HistoryGrows ==
    /\ clock <= clock'
    /\ \A o \in Ops : stamp[o] > 0 => stamp'[o] = stamp[o] /\ req'[o] = req[o]

\* What a step may do to the arrays that devices go by.
HeardFrom ==
    \A w \in Users : \A c \in ConvIds :
        heardLogs'[w][c] \in {heardLogs[w][c], msgs[c], <<>>}

LEMMA HeardFromStep ==
    ASSUME TypeInv, [Next]_vars
    PROVE  HeardFrom
<1>1. heardLogs \in [Users -> [ConvIds -> Seq(Ops)]]
  BY DEF TypeInv, TypeOK
<1>2. CASE UNCHANGED heardLogs
  BY <1>2 DEF HeardFrom
<1>3. ASSUME NEW u \in Users, Quit(u)
      PROVE  HeardFrom
  BY <1>1, <1>3 DEF Quit, NoLogs, HeardFrom
<1>4. ASSUME NEW u \in Users, NEW c, HearsLog(u, c)
      PROVE  HeardFrom
  BY <1>1, <1>4 DEF HearsLog, HeardFrom
<1>5. ASSUME NEW u \in Users, NEW slow, NEW d, HeardBy(u, slow, d)
      PROVE  HeardFrom
  <2> SUFFICES ASSUME NEW w \in Users, NEW c \in ConvIds
               PROVE  heardLogs'[w][c] \in {heardLogs[w][c], msgs[c], <<>>}
    BY DEF HeardFrom
  <2>1. \/ heardLogs'[w] = NoLogs
        \/ heardLogs'[w] = [heardLogs[w] EXCEPT ![d] = msgs[d]]
        \/ heardLogs'[w] = heardLogs[w]
    BY <1>5 DEF HeardBy
  <2>2. heardLogs[w] \in [ConvIds -> Seq(Ops)]
    BY <1>1
  <2> QED
    BY <2>1, <2>2 DEF NoLogs
<1>6. \/ UNCHANGED heardLogs
      \/ \E u \in Users : Quit(u)
      \/ \E u \in Users : \E c \in ConvIds : HearsLog(u, c)
      \/ \E u \in Users : ServerApplies(u)
  BY DEF Next, vars, heard, Press, CreateNewConversation, SendMessage, Arrives,
         UserNodeArrives, LogArrives, RowsArrive, PeerListArrives, Replies,
         FinishCreatingConversation, Completed, Refused, Reconnects, Kill,
         Hears, HearsList
<1>7. ASSUME NEW u \in Users, ServerApplies(u)
      PROVE  HeardFrom
  <2>1. \E slow, d : HeardBy(u, slow, d)
    BY <1>7 DEF ServerApplies
  <2> QED
    BY <1>5, <2>1
<1> QED
  BY <1>2, <1>3, <1>4, <1>6, <1>7

LEMMA OrderedKept ==
    ASSUME TypeInv, clock' \in Nat, HistoryGrows, NEW log \in Seq(Ops), NEW c,
           Ordered(log, c, req, stamp, clock)
    PROVE  Ordered(log, c, req', stamp', clock')
<1>1. \A i \in 1..Len(log) : log[i] \in Ops
  BY ElementOfSeq
<1>2. \A i \in 1..Len(log) : /\ req'[log[i]] = req[log[i]]
                             /\ stamp'[log[i]] = stamp[log[i]]
                             /\ stamp[log[i]] \in Nat
                             /\ req[log[i]].conv = c
                             /\ 0 < stamp[log[i]] /\ stamp[log[i]] <= clock
  BY <1>1 DEF Ordered, HistoryGrows, TypeInv, TypeOK
<1>3. clock \in Nat /\ clock <= clock'
  BY DEF HistoryGrows, TypeInv, TypeOK
<1>4. ASSUME NEW i \in 1..Len(log)
      PROVE  /\ req'[log[i]].conv = c
             /\ 0 < stamp'[log[i]] /\ stamp'[log[i]] <= clock'
  BY <1>2, <1>3
<1>5. ASSUME NEW i \in 1..Len(log), NEW j \in 1..Len(log), i < j
      PROVE  stamp'[log[i]] < stamp'[log[j]]
  BY <1>2, <1>5 DEF Ordered
<1>6. ASSUME log # <<>>
      PROVE  req'[log[1]].kind = "create"
  <2>1. 1 \in 1..Len(log)
    BY <1>6
  <2> QED
    BY <1>2, <1>6, <2>1 DEF Ordered
<1> QED
  BY <1>4, <1>5, <1>6 DEF Ordered

LEMMA PutOrderedKept ==
    ASSUME TypeInv, clock' \in Nat, HistoryGrows, NEW p \in Puts,
           req'[p.op] = req[p.op], PutOrdered(p, req, stamp, clock)
    PROVE  PutOrdered(p, req', stamp', clock')
BY OrderedKept, PutKinds DEF PutOrdered

\* The elements of a queue after a step are old ones and the new one.
LEMMA PutElements ==
    ASSUME TypeInv, NEW u \in Users, NEW p \in Puts, Put(u, p)
    PROVE  \A w \in Users : \A i \in 1..Len(outbox'[w]) :
              \/ \E j \in 1..Len(outbox[w]) : outbox'[w][i] = outbox[w][j]
              \/ outbox'[w][i] = p
<1>1. outbox[u] \in Seq(Puts) /\ Len(outbox[u]) \in Nat
  BY QueueElements
<1>2. /\ \A w \in Users \ {u} : outbox'[w] = outbox[w]
      /\ outbox'[u] = Append(outbox[u], p)
  BY DEF Put, TypeInv, TypeOK
<1>3. /\ Len(outbox'[u]) = Len(outbox[u]) + 1
      /\ \A i \in 1..Len(outbox[u]) : outbox'[u][i] = outbox[u][i]
      /\ outbox'[u][Len(outbox[u]) + 1] = p
  BY <1>1, <1>2, AppendProperties
<1>4. \A i \in 1..Len(outbox'[u]) : \/ i \in 1..Len(outbox[u])
                                   \/ i = Len(outbox[u]) + 1
  BY <1>1, <1>3
<1> QED
  BY <1>2, <1>3, <1>4

LEMMA AnsweredElements ==
    ASSUME TypeInv, NEW u \in Users, outbox[u] # <<>>,
           NEW more \in Seq(Puts), Answered(u, more)
    PROVE  \A w \in Users : \A i \in 1..Len(outbox'[w]) :
              \/ \E j \in 1..Len(outbox[w]) : outbox'[w][i] = outbox[w][j]
              \/ \E j \in 1..Len(more) : outbox'[w][i] = more[j]
<1> DEFINE rest == Tail(outbox[u])
           new == rest \o more
<1>1. outbox[u] \in Seq(Puts) /\ Len(outbox[u]) \in Nat
  BY QueueElements
<1>2. /\ rest \in Seq(Puts) /\ Len(rest) = Len(outbox[u]) - 1
      /\ \A i \in 1..Len(rest) : rest[i] = outbox[u][i + 1]
  BY <1>1, TailProperties
<1>3. /\ new \in Seq(Puts) /\ Len(new) = Len(rest) + Len(more)
      /\ \A i \in 1..Len(new) :
            new[i] = IF i <= Len(rest) THEN rest[i] ELSE more[i - Len(rest)]
  BY <1>2, ConcatProperties
<1>4. /\ \A w \in Users \ {u} : outbox'[w] = outbox[w]
      /\ outbox'[u] = new
  BY DEF Answered, TypeInv, TypeOK
<1>5. Len(more) \in Nat /\ Len(rest) \in Nat
  BY <1>2, LenProperties
<1> HIDE DEF rest, new
<1>6. ASSUME NEW i \in 1..Len(new)
      PROVE  \/ i + 1 \in 1..Len(outbox[u]) /\ new[i] = outbox[u][i + 1]
             \/ i - Len(rest) \in 1..Len(more) /\ new[i] = more[i - Len(rest)]
  <2>1. CASE i <= Len(rest)
    <3>1. i \in 1..Len(rest) /\ i + 1 \in 1..Len(outbox[u])
      BY <1>1, <1>2, <1>5, <2>1
    <3> QED
      BY <1>2, <1>3, <2>1, <3>1
  <2>2. CASE i > Len(rest)
    <3>1. i - Len(rest) \in 1..Len(more) /\ ~(i <= Len(rest))
      BY <1>3, <1>5, <2>2
    <3> QED
      BY <1>3, <3>1
  <2> QED
    BY <1>5, <2>1, <2>2
<1> SUFFICES ASSUME NEW w \in Users, NEW i \in 1..Len(outbox'[w])
             PROVE  \/ \E j \in 1..Len(outbox[w]) : outbox'[w][i] = outbox[w][j]
                    \/ \E j \in 1..Len(more) : outbox'[w][i] = more[j]
  OBVIOUS
<1>7. CASE w = u
  BY <1>4, <1>6, <1>7
<1>8. CASE w # u
  BY <1>4, <1>8
<1> QED
  BY <1>7, <1>8

LEMMA QuitElements ==
    ASSUME TypeInv, NEW u \in Users, Quit(u)
    PROVE  \A w \in Users : \A i \in 1..Len(outbox'[w]) :
              \E j \in 1..Len(outbox[w]) : outbox'[w][i] = outbox[w][j]
<1>1. /\ \A w \in Users \ {u} : outbox'[w] = outbox[w]
      /\ Len(outbox'[u]) = 0
  BY NoLength DEF Quit, TypeInv, TypeOK
<1> QED
  BY <1>1

\* A device reads an ordered array: the server's, or one it put itself.
LEMMA SeenLogOrdered ==
    ASSUME CallInv, OrderInv, NEW u \in Users, NEW c \in ConvIds
    PROVE  Ordered(SeenLog(u, c), c, req, stamp, clock)
<1> DEFINE box == outbox[u]
           last == LastLogPut(box, c)
<1>1. CASE last = {}
  BY <1>1 DEF SeenLog, LogOn, OrderInv, LogsOrdered, HeardOrdered
<1>2. CASE last # {}
  <2>1. PICK i \in last : i = (CHOOSE k \in last : TRUE)
    BY <1>2
  <2>2. i \in 1..Len(box) /\ box[i].to \in LogWrites /\ req[box[i].op].conv = c
    <3>1. box \in Seq(Puts)
      BY QueueElements DEF CallInv
    <3> QED
      BY <2>1, <3>1, LenProperties DEF LastLogPut, WritesLog
  <2>3. Ordered(box[i].log, c, req, stamp, clock)
    BY <2>2 DEF OrderInv, PutsOrdered, PutOrdered
  <2> QED
    BY <1>2, <2>1, <2>3 DEF SeenLog, LogOn
<1> QED
  BY <1>1, <1>2

\* The parts of a step that OrderInv needs: the history grows, calls keep
\* their arguments, and a new array or put is an ordered one.
LEMMA OrderAfter ==
    ASSUME CallInv, OrderInv, TypeInv', HeardFrom, HistoryGrows, FreshCalls',
           \A o \in Ops : pc[o] # "idle" => req'[o] = req[o],
           \A c \in ConvIds : \/ msgs'[c] = msgs[c]
                              \/ Ordered(msgs'[c], c, req', stamp', clock'),
           \A w \in Users : \A i \in 1..Len(outbox'[w]) :
              \/ \E j \in 1..Len(outbox[w]) : outbox'[w][i] = outbox[w][j]
              \/ PutOrdered(outbox'[w][i], req', stamp', clock')
    PROVE  OrderInv'
<1>0. HeardOrdered'
  <2> SUFFICES ASSUME NEW w \in Users, NEW c \in ConvIds
               PROVE  Ordered(heardLogs'[w][c], c, req', stamp', clock')
    BY DEF HeardOrdered
  <2>1. CASE heardLogs'[w][c] = <<>>
    <3>1. Len(heardLogs'[w][c]) = 0
      BY <2>1, NoLength
    <3>2. \A i \in 1..Len(heardLogs'[w][c]) : FALSE
      BY <3>1
    <3> QED
      BY <2>1, <3>2 DEF Ordered
  <2>2. PICK log \in Seq(Ops) : heardLogs'[w][c] = log
    BY DEF TypeInv, TypeOK
  <2>3. CASE log = heardLogs[w][c] \/ log = msgs[c]
    <3>1. Ordered(log, c, req, stamp, clock)
      BY <2>3 DEF OrderInv, HeardOrdered, LogsOrdered
    <3> QED
      BY <2>2, <3>1, OrderedKept DEF CallInv, TypeInv, TypeOK
  <2> QED
    BY <2>1, <2>2, <2>3 DEF HeardFrom
<1>1. clock' \in Nat /\ TypeInv
  BY DEF TypeInv, TypeOK, CallInv
<1>2. LogsOrdered'
  <2> SUFFICES ASSUME NEW c \in ConvIds
               PROVE  Ordered(msgs'[c], c, req', stamp', clock')
    BY DEF LogsOrdered
  <2>1. CASE msgs'[c] = msgs[c]
    <3>1. msgs[c] \in Seq(Ops) /\ Ordered(msgs[c], c, req, stamp, clock)
      BY DEF OrderInv, LogsOrdered, CallInv, TypeInv, TypeOK
    <3> QED
      BY <1>1, <2>1, <3>1, OrderedKept
  <2> QED
    BY <2>1
<1>3. PutsOrdered'
  <2> SUFFICES ASSUME NEW w \in Users, NEW i \in 1..Len(outbox'[w])
               PROVE  PutOrdered(outbox'[w][i], req', stamp', clock')
    BY DEF PutsOrdered
  <2>1. ASSUME NEW j \in 1..Len(outbox[w]), outbox'[w][i] = outbox[w][j]
        PROVE  PutOrdered(outbox'[w][i], req', stamp', clock')
    <3> DEFINE p == outbox[w][j]
    <3>1. /\ p \in Puts /\ p.op \in Ops /\ PutFits(w, p, pc, req)
          /\ PutOrdered(p, req, stamp, clock)
      BY <1>1, QueueElements DEF OrderInv, PutsOrdered, CallInv, PutsAgree
    <3>2. req'[p.op] = req[p.op]
      BY <3>1 DEF PutFits
    <3> QED
      BY <1>1, <2>1, <3>1, <3>2, PutOrderedKept
  <2> QED
    BY <2>1
<1> QED
  BY <1>0, <1>2, <1>3 DEF OrderInv

LEMMA StampType ==
    ASSUME CallInv, OrderInv
    PROVE  /\ stamp \in [Ops -> Nat] /\ clock \in Nat
           /\ pc \in [Ops -> PcValues] /\ outbox \in [Users -> Seq(Puts)]
           /\ \A o \in Ops : /\ pc[o] \in Fresh => stamp[o] = 0
                             /\ pc[o] \in {"userRead", "userWrite"}
                                    => req[o].kind = "create"
BY DEF CallInv, TypeInv, TypeOK, OrderInv, FreshCalls

LEMMA PressOrders ==
    ASSUME CallInv, OrderInv, TypeInv', HeardFrom, NEW o \in Ops, Press(o)
    PROVE  OrderInv'
<1>1. UNCHANGED <<msgs, outbox, stamp, clock>> /\ pc[o] = "idle"
  BY DEF Press, CreateNewConversation, SendMessage, heard, history
<1>2. \A q \in Ops \ {o} : pc'[q] = pc[q] /\ req'[q] = req[q]
  BY DEF Press, CreateNewConversation, SendMessage, Goto, CallInv, TypeInv,
         TypeOK
<1>3. \/ pc'[o] \in {"userRead", "unanswered"} /\ req'[o].kind = "create"
      \/ pc'[o] = "logRead"
  <2>1. pc \in [Ops -> PcValues] /\ req \in [Ops -> Requests \cup {NoRequest}]
    BY DEF CallInv, TypeInv, TypeOK
  <2>2. ASSUME NEW me, NEW other, NEW at, CreateNewConversation(o, me, other, at)
        PROVE  /\ pc'[o] \in {"userRead", "unanswered"}
               /\ req'[o].kind = "create"
    BY <2>1, <2>2 DEF CreateNewConversation, Goto
  <2>3. ASSUME NEW me, NEW row, SendMessage(o, me, row)
        PROVE  pc'[o] = "logRead"
    BY <2>1, <2>3 DEF SendMessage, Goto
  <2> QED
    BY <2>2, <2>3 DEF Press
<1>4. FreshCalls'
  BY <1>1, <1>2, <1>3, StampType DEF FreshCalls, Fresh
<1>5. HistoryGrows
  BY <1>1, <1>2, StampType DEF HistoryGrows, Fresh
<1> QED
  BY <1>1, <1>2, <1>4, <1>5, OrderAfter

\* A put that goes to a list has no array of messages.
LEMMA ListPutOrdered ==
    ASSUME NEW o, NEW to \in ListWrites, NEW value, NEW rq, NEW st, NEW ck
    PROVE  PutOrdered(ListPut(o, to, value), rq, st, ck)
BY DEF PutOrdered, ListPut, ListWrites, LogWrites

LEMMA UserNodeArrivesOrders ==
    ASSUME CallInv, OrderInv, TypeInv', HeardFrom, NEW o \in Ops, UserNodeArrives(o)
    PROVE  OrderInv'
<1> DEFINE r == req[o]
           value == List(AppendRow(NodeList(r.me),
                                   Row(r.conv, r.other, o)))
           p == ListPut(o, "user", value)
<1>1. /\ UNCHANGED <<msgs, req, stamp, clock>> /\ pc[o] = "userRead"
      /\ \/ pc' = [pc EXCEPT ![o] = "failed"] /\ UNCHANGED outbox
         \/ pc' = [pc EXCEPT ![o] = "userWrite"] /\ Put(r.me, p)
  BY DEF UserNodeArrives, Goto, heard, history
<1>2. FreshCalls' /\ HistoryGrows
  BY <1>1, StampType DEF FreshCalls, Fresh, HistoryGrows
<1>3. CASE UNCHANGED outbox
  BY <1>1, <1>2, <1>3, OrderAfter
<1>4. CASE Put(r.me, p)
  <2>1. PutOrdered(p, req', stamp', clock')
    BY ListPutOrdered DEF ListWrites
  <2>2. r.me \in Users /\ r.other \in Users /\ r.conv \in ConvIds
    BY <1>1, RequestType DEF CallInv
  <2>3. p \in Puts
    BY <1>1, UserPutType DEF CallInv
  <2> HIDE DEF p
  <2>4. \A w \in Users : \A i \in 1..Len(outbox'[w]) :
              \/ \E j \in 1..Len(outbox[w]) : outbox'[w][i] = outbox[w][j]
              \/ outbox'[w][i] = p
    BY <1>4, <2>2, <2>3, PutElements DEF CallInv
  <2>5. \A w \in Users : \A i \in 1..Len(outbox'[w]) :
              \/ \E j \in 1..Len(outbox[w]) : outbox'[w][i] = outbox[w][j]
              \/ PutOrdered(outbox'[w][i], req', stamp', clock')
    BY <2>1, <2>4
  <2> QED
    BY <1>1, <1>2, <2>5, OrderAfter
<1> QED
  BY <1>1, <1>3, <1>4

LEMMA PeerListArrivesOrders ==
    ASSUME CallInv, OrderInv, TypeInv', HeardFrom, NEW o \in Ops, PeerListArrives(o)
    PROVE  OrderInv'
<1> DEFINE r == req[o]
<1>1. UNCHANGED <<msgs, req, pc, stamp, clock>> /\ peer[o] = "read"
  BY DEF PeerListArrives, heard, history
<1>2. FreshCalls' /\ HistoryGrows
  BY <1>1, StampType DEF FreshCalls, HistoryGrows
<1>3. PICK p \in Puts : Put(r.me, p) /\ PutOrdered(p, req', stamp', clock')
  BY <1>1, PeerPutTypes, ListPutOrdered
  DEF PeerListArrives, CallInv, ListWrites
<1>4. r.me \in Users
  BY <1>1, RequestType DEF CallInv
<1>5. \A w \in Users : \A i \in 1..Len(outbox'[w]) :
          \/ \E j \in 1..Len(outbox[w]) : outbox'[w][i] = outbox[w][j]
          \/ outbox'[w][i] = p
  BY <1>3, <1>4, PutElements DEF CallInv
<1>6. \A w \in Users : \A i \in 1..Len(outbox'[w]) :
          \/ \E j \in 1..Len(outbox[w]) : outbox'[w][i] = outbox[w][j]
          \/ PutOrdered(outbox'[w][i], req', stamp', clock')
  BY <1>3, <1>5
<1> QED
  BY <1>1, <1>2, <1>6, OrderAfter

LEMMA RowsArriveOrders ==
    ASSUME CallInv, OrderInv, TypeInv', HeardFrom, NEW o \in Ops, RowsArrive(o)
    PROVE  OrderInv'
<1> DEFINE r == req[o]
           mine == pc[o] = "mineRead"
           value == SeenList(r.me, IF mine THEN r.me ELSE r.other)
           new == List(WithLatest(value.rows, r.conv, o))
           p == ListPut(o, IF mine THEN "mine" ELSE "theirs", new)
<1>1. /\ UNCHANGED <<msgs, req, stamp, clock>>
      /\ pc[o] \in {"mineRead", "peerRead"}
  BY DEF RowsArrive, heard, history
<1>2. \/ pc' = [pc EXCEPT ![o] = "failed"] /\ UNCHANGED outbox
      \/ /\ pc' = [pc EXCEPT ![o] = IF mine THEN "mineWrite" ELSE "peerWrite"]
         /\ Put(r.me, p)
  BY DEF RowsArrive, Goto
<1>3. FreshCalls' /\ HistoryGrows
  BY <1>1, <1>2, StampType DEF FreshCalls, Fresh, HistoryGrows
<1>4. CASE UNCHANGED outbox
  BY <1>1, <1>3, <1>4, OrderAfter DEF Reading
<1>5. CASE Put(r.me, p)
  <2>1. PutOrdered(p, req', stamp', clock')
    BY ListPutOrdered DEF ListWrites
  <2>2. r.me \in Users
    BY <1>1, RequestType DEF CallInv
  <2>3. p \in Puts
    BY <1>1, RowsPutType DEF CallInv
  <2> HIDE DEF p
  <2>4. \A w \in Users : \A i \in 1..Len(outbox'[w]) :
            \/ \E j \in 1..Len(outbox[w]) : outbox'[w][i] = outbox[w][j]
            \/ outbox'[w][i] = p
    BY <1>5, <2>2, <2>3, PutElements DEF CallInv
  <2>5. \A w \in Users : \A i \in 1..Len(outbox'[w]) :
            \/ \E j \in 1..Len(outbox[w]) : outbox'[w][i] = outbox[w][j]
            \/ PutOrdered(outbox'[w][i], req', stamp', clock')
    BY <2>1, <2>4
  <2> QED
    BY <1>1, <1>3, <2>5, OrderAfter
<1> QED
  BY <1>2, <1>4, <1>5

\* A call composes: its message is later than every message stored or sent.
LEMMA ComposedAppend ==
    ASSUME TypeInv, NEW o \in Ops, stamp[o] = 0, Compose(o), UNCHANGED req,
           NEW log \in Seq(Ops), log # <<>>,
           Ordered(log, req[o].conv, req, stamp, clock)
    PROVE  Ordered(Append(log, o), req[o].conv, req', stamp', clock')
<1> DEFINE new == Append(log, o)
           n == Len(log)
<1>1. /\ clock \in Nat /\ stamp \in [Ops -> Nat] /\ clock' = clock + 1
      /\ stamp'[o] = clock + 1 /\ \A q \in Ops \ {o} : stamp'[q] = stamp[q]
  BY DEF TypeInv, TypeOK, Compose
<1>2. /\ n \in Nat /\ n > 0 /\ Len(new) = n + 1 /\ new[n + 1] = o
      /\ \A i \in 1..n : new[i] = log[i]
  BY AppendProperties, EmptySeq
<1>3. \A i \in 1..n : log[i] \in Ops
  BY ElementOfSeq
<1> HIDE DEF new, n
<1>4. ASSUME NEW i \in 1..n
      PROVE  /\ req'[new[i]].conv = req[o].conv
             /\ 0 < stamp'[new[i]] /\ stamp'[new[i]] <= clock
             /\ stamp'[new[i]] = stamp[log[i]]
  <2>1. /\ req[log[i]].conv = req[o].conv
        /\ 0 < stamp[log[i]] /\ stamp[log[i]] <= clock
    BY DEF Ordered, n
  <2>2. log[i] \in Ops \ {o}
    BY <1>3, <2>1
  <2> QED
    BY <1>1, <1>2, <2>1, <2>2
<1>5. ASSUME NEW i \in 1..Len(new)
      PROVE  i \in 1..n \/ (i = n + 1 /\ new[i] = o)
  BY <1>2
<1>6. ASSUME NEW i \in 1..Len(new)
      PROVE  /\ req'[new[i]].conv = req[o].conv
             /\ 0 < stamp'[new[i]] /\ stamp'[new[i]] <= clock'
  <2>1. CASE i \in 1..n
    <3>1. stamp'[new[i]] \in Nat
      BY <1>1, <1>3, <1>4, <2>1
    <3> QED
      BY <1>1, <1>4, <2>1, <3>1
  <2>2. CASE i = n + 1 /\ new[i] = o
    BY <1>1, <2>2
  <2> QED
    BY <1>5, <2>1, <2>2
<1>7. ASSUME NEW i \in 1..Len(new), NEW j \in 1..Len(new), i < j
      PROVE  stamp'[new[i]] < stamp'[new[j]]
  <2>1. i \in 1..n
    BY <1>2, <1>7
  <2>2. CASE j \in 1..n
    <3>1. stamp[log[i]] < stamp[log[j]]
      BY <1>7, <2>1, <2>2 DEF Ordered, n
    <3> QED
      BY <1>4, <2>1, <2>2, <3>1
  <2>3. CASE j = n + 1 /\ new[j] = o
    <3>1. stamp'[new[i]] \in Nat /\ stamp'[new[i]] <= clock
      BY <1>1, <1>3, <1>4, <2>1
    <3> QED
      BY <1>1, <2>3, <3>1
  <2> QED
    BY <1>5, <2>2, <2>3
<1>8. req'[new[1]].kind = "create"
  <2>1. 1 \in 1..n /\ new[1] = log[1]
    BY <1>2
  <2> QED
    BY <2>1 DEF Ordered
<1> QED
  BY <1>6, <1>7, <1>8 DEF Ordered, new

LEMMA ComposedOpening ==
    ASSUME TypeInv, NEW o \in Ops, Compose(o), UNCHANGED req,
           req[o].kind = "create"
    PROVE  Ordered(<<o>>, req[o].conv, req', stamp', clock')
<1> DEFINE new == <<o>>
<1>1. Len(new) = 1 /\ new[1] = o
  OBVIOUS
<1>2. stamp'[o] = clock + 1 /\ clock' = clock + 1 /\ clock \in Nat
  BY DEF TypeInv, TypeOK, Compose
<1> HIDE DEF new
<1>3. \A i \in 1..Len(new) : i = 1
  BY <1>1
<1>4. \A i \in 1..Len(new) : /\ req'[new[i]].conv = req[o].conv
                             /\ 0 < stamp'[new[i]] /\ stamp'[new[i]] <= clock'
  BY <1>1, <1>2, <1>3
<1>5. \A i, j \in 1..Len(new) : i < j => stamp'[new[i]] < stamp'[new[j]]
  BY <1>3
<1> QED
  BY <1>1, <1>4, <1>5 DEF Ordered, new

LEMMA ComposeGrows ==
    ASSUME TypeInv, NEW o \in Ops, stamp[o] = 0, Compose(o), UNCHANGED req
    PROVE  /\ HistoryGrows
           /\ \A q \in Ops \ {o} : stamp'[q] = stamp[q]
BY DEF TypeInv, TypeOK, Compose, HistoryGrows

LEMMA LogArrivesOrders ==
    ASSUME CallInv, OrderInv, TypeInv', HeardFrom, NEW o \in Ops, LogArrives(o)
    PROVE  OrderInv'
<1> DEFINE r == req[o]
           log == SeenLog(r.me, r.conv)
           p == LogPut(o, "log", Append(log, o))
<1>1. UNCHANGED <<msgs, req>> /\ pc[o] = "logRead" /\ stamp[o] = 0
  BY StampType DEF LogArrives, Fresh
<1>2. CASE log = <<>>
  <2>1. pc' = [pc EXCEPT ![o] = "failed"] /\ UNCHANGED <<outbox, stamp, clock>>
    BY <1>2 DEF LogArrives, Goto
  <2>2. FreshCalls' /\ HistoryGrows
    BY <1>1, <2>1, StampType DEF FreshCalls, Fresh, HistoryGrows
  <2> QED
    BY <1>1, <2>1, <2>2, OrderAfter
<1>3. CASE log # <<>>
  <2>1. Put(r.me, p) /\ pc' = [pc EXCEPT ![o] = "logWrite"] /\ Compose(o)
    BY <1>3 DEF LogArrives, Goto
  <2>2. /\ r.me \in Users /\ r.conv \in ConvIds
        /\ log \in Seq(Ops) /\ p \in Puts
    BY <1>1, RequestType, LogArrivesPutType DEF CallInv
  <2>3. Ordered(log, r.conv, req, stamp, clock)
    BY <2>2, SeenLogOrdered
  <2>4. Ordered(Append(log, o), r.conv, req', stamp', clock')
    BY <1>1, <1>3, <2>1, <2>2, <2>3, ComposedAppend DEF CallInv
  <2>5. HistoryGrows /\ \A q \in Ops \ {o} : stamp'[q] = stamp[q]
    BY <1>1, <2>1, ComposeGrows DEF CallInv
  <2>6. FreshCalls'
    BY <1>1, <2>1, <2>5, StampType DEF FreshCalls, Fresh
  <2>7. PutOrdered(p, req', stamp', clock')
    <3>1. Append(log, o) # <<>>
      BY <2>2, AppendProperties
    <3> QED
      BY <1>1, <2>4, <3>1 DEF PutOrdered, LogPut
  <2> HIDE DEF p
  <2>8. \A w \in Users : \A i \in 1..Len(outbox'[w]) :
            \/ \E j \in 1..Len(outbox[w]) : outbox'[w][i] = outbox[w][j]
            \/ outbox'[w][i] = p
    BY <2>1, <2>2, PutElements DEF CallInv
  <2>9. \A w \in Users : \A i \in 1..Len(outbox'[w]) :
            \/ \E j \in 1..Len(outbox[w]) : outbox'[w][i] = outbox[w][j]
            \/ PutOrdered(outbox'[w][i], req', stamp', clock')
    BY <2>7, <2>8
  <2> QED
    BY <1>1, <2>5, <2>6, <2>9, OrderAfter
<1> QED
  BY <1>2, <1>3

LEMMA QuitOrders ==
    ASSUME CallInv, OrderInv, TypeInv', HeardFrom, NEW u \in Users, Quit(u),
           UNCHANGED <<msgs, req, stamp, clock>>
    PROVE  OrderInv'
<1>1. \A w \in Users : \A i \in 1..Len(outbox'[w]) :
          \E j \in 1..Len(outbox[w]) : outbox'[w][i] = outbox[w][j]
  BY QuitElements DEF CallInv
<1>2. FreshCalls' /\ HistoryGrows
  BY StampType DEF Quit, FreshCalls, Fresh, HistoryGrows
<1> QED
  BY <1>1, <1>2, OrderAfter

LEMMA FinishCreatingConversationOrders ==
    ASSUME CallInv, OrderInv, TypeInv', HeardFrom, NEW u \in Users,
           FinishCreatingConversation(u)
    PROVE  OrderInv'
<1> DEFINE o == outbox[u][1].op
           p == LogPut(o, "opening", <<o>>)
           more == <<p>>
<1>1. /\ UNCHANGED <<msgs, req>> /\ outbox[u][1].to = "user"
      /\ outbox[u] # <<>> /\ 1 \in 1..Len(outbox[u]) /\ o \in Ops
  BY FirstPut DEF FinishCreatingConversation, CallInv
<1>2. pc[o] = "userWrite" /\ stamp[o] = 0 /\ req[o].kind = "create"
  BY <1>1, StampType DEF CallInv, PutsAgree, PutFits, Fresh
<1>3. CASE u \in DottedLocale
  BY <1>1, <1>3, QuitOrders DEF FinishCreatingConversation
<1>4. CASE u \notin DottedLocale
  <2>1. /\ Answered(u, more) /\ Compose(o)
        /\ pc' = [pc EXCEPT ![o] = "openWrite"]
    BY <1>4 DEF FinishCreatingConversation, Goto
  <2>2. Ordered(<<o>>, req[o].conv, req', stamp', clock')
    BY <1>1, <1>2, <2>1, ComposedOpening DEF CallInv
  <2>3. HistoryGrows /\ \A q \in Ops \ {o} : stamp'[q] = stamp[q]
    BY <1>1, <1>2, <2>1, ComposeGrows DEF CallInv
  <2>4. FreshCalls'
    BY <1>1, <2>1, <2>3, StampType DEF FreshCalls, Fresh
  <2>5. PutOrdered(p, req', stamp', clock')
    BY <1>1, <2>2 DEF PutOrdered, LogPut
  <2>6. more \in Seq(Puts) /\ \A i \in 1..Len(more) : more[i] = p
    <3>1. p \in Puts
      BY <1>1, OpeningPutType
    <3> HIDE DEF p
    <3> QED
      BY <3>1
  <2> HIDE DEF p, more
  <2>7. \A w \in Users : \A i \in 1..Len(outbox'[w]) :
            \/ \E j \in 1..Len(outbox[w]) : outbox'[w][i] = outbox[w][j]
            \/ \E j \in 1..Len(more) : outbox'[w][i] = more[j]
    BY <1>1, <2>1, <2>6, AnsweredElements DEF CallInv
  <2>8. \A w \in Users : \A i \in 1..Len(outbox'[w]) :
            \/ \E j \in 1..Len(outbox[w]) : outbox'[w][i] = outbox[w][j]
            \/ PutOrdered(outbox'[w][i], req', stamp', clock')
    BY <2>5, <2>6, <2>7
  <2> QED
    BY <1>1, <2>3, <2>4, <2>8, OrderAfter
<1> QED
  BY <1>3, <1>4

LEMMA AnswerOnlyOrders ==
    ASSUME CallInv, OrderInv, TypeInv', HeardFrom, NEW u \in Users, outbox[u] # <<>>,
           Answered(u, <<>>), UNCHANGED <<msgs, req, stamp, clock>>,
           \A o \in Ops : pc'[o] = pc[o] \/ pc'[o] \notin Fresh
    PROVE  OrderInv'
<1> DEFINE more == <<>>
<1>1. more \in Seq(Puts) /\ Answered(u, more) /\ \A j \in 1..Len(more) : FALSE
  BY NoLength
<1> HIDE DEF more
<1>2. \A w \in Users : \A i \in 1..Len(outbox'[w]) :
          \E j \in 1..Len(outbox[w]) : outbox'[w][i] = outbox[w][j]
  BY <1>1, AnsweredElements DEF CallInv
<1>3. FreshCalls' /\ HistoryGrows
  BY StampType DEF FreshCalls, Fresh, HistoryGrows
<1> QED
  BY <1>2, <1>3, OrderAfter

\* The put that the server stores next is in the queue.
LEMMA NextPut ==
    ASSUME TypeInv, NEW u \in Users, ServerApplies(u)
    PROVE  applied[u] + 1 \in 1..Len(outbox[u])
<1>1. applied[u] < Len(outbox[u])
  BY DEF ServerApplies
<1>2. applied[u] \in Nat /\ Len(outbox[u]) \in Nat
  BY DEF TypeInv, TypeOK
<1> QED
  BY <1>1, <1>2

LEMMA ServerAppliesOrders ==
    ASSUME CallInv, OrderInv, TypeInv', HeardFrom, NEW u \in Users, ServerApplies(u)
    PROVE  OrderInv'
<1> DEFINE k == applied[u] + 1
           p == outbox[u][k]
<1>1. UNCHANGED <<outbox, pc, req, stamp, clock>> /\ k \in 1..Len(outbox[u])
  BY NextPut DEF ServerApplies, CallInv
<1>2. PutOrdered(p, req, stamp, clock)
  BY <1>1 DEF OrderInv, PutsOrdered
<1>3. ASSUME NEW c \in ConvIds
      PROVE  msgs'[c] = msgs[c] \/ Ordered(msgs'[c], c, req', stamp', clock')
  <2>1. \/ UNCHANGED msgs
        \/ /\ p.to \in LogWrites
           /\ msgs' = [msgs EXCEPT ![req[p.op].conv] = p.log]
    BY DEF ServerApplies
  <2>2. msgs \in [ConvIds -> Seq(Ops)]
    BY DEF CallInv, TypeInv, TypeOK
  <2> HIDE DEF p
  <2> QED
    BY <1>1, <1>2, <2>1, <2>2 DEF PutOrdered
<1>4. FreshCalls' /\ HistoryGrows
  BY <1>1, StampType DEF FreshCalls, HistoryGrows
<1> QED
  BY <1>1, <1>3, <1>4, OrderAfter

LEMMA CompletedOrders ==
    ASSUME CallInv, OrderInv, TypeInv', HeardFrom, NEW u \in Users, Completed(u)
    PROVE  OrderInv'
<1> DEFINE p == outbox[u][1]
<1>1. /\ outbox[u] # <<>> /\ p.op \in Ops /\ pc \in [Ops -> PcValues]
      /\ Answered(u, <<>>) /\ UNCHANGED <<msgs, req, stamp, clock>>
  BY FirstPut DEF Completed, CallInv, TypeInv, TypeOK, heard, history
<1>2. \/ UNCHANGED pc
      \/ \E where \in {"ok", "mineRead", "peerRead"} :
            pc' = [pc EXCEPT ![p.op] = where]
  BY DEF Completed, Goto
<1>3. \A o \in Ops : pc'[o] = pc[o] \/ pc'[o] \notin Fresh
  BY <1>1, <1>2 DEF Fresh
<1> QED
  BY <1>1, <1>3, AnswerOnlyOrders

LEMMA RefusedOrders ==
    ASSUME CallInv, OrderInv, TypeInv', HeardFrom, NEW u \in Users, Refused(u)
    PROVE  OrderInv'
<1> DEFINE p == outbox[u][1]
<1>1. /\ outbox[u] # <<>> /\ p.op \in Ops /\ pc \in [Ops -> PcValues]
      /\ Answered(u, <<>>) /\ UNCHANGED <<msgs, req, stamp, clock>>
  BY FirstPut DEF Refused, CallInv, TypeInv, TypeOK, heard, history
<1>2. UNCHANGED pc \/ pc' = [pc EXCEPT ![p.op] = "failed"]
  BY DEF Refused, Goto
<1>3. \A o \in Ops : pc'[o] = pc[o] \/ pc'[o] \notin Fresh
  BY <1>1, <1>2 DEF Fresh
<1> QED
  BY <1>1, <1>3, AnswerOnlyOrders

LEMMA OrderStep == CallInv /\ OrderInv /\ [Next]_vars => OrderInv'
<1> SUFFICES ASSUME CallInv, OrderInv, [Next]_vars
             PROVE  OrderInv'
  OBVIOUS
<1>1. TypeInv' /\ HeardFrom
  BY TypeStep, HeardFromStep DEF CallInv
<1>2. CASE UNCHANGED vars
  BY <1>2
  DEF vars, heard, history, OrderInv, LogsOrdered, PutsOrdered, HeardOrdered,
      FreshCalls
<1>3. ASSUME NEW o \in Ops, Press(o)
      PROVE  OrderInv'
  BY <1>1, <1>3, PressOrders
<1>4. ASSUME NEW o \in Ops, Arrives(o)
      PROVE  OrderInv'
  BY <1>1, <1>4, UserNodeArrivesOrders, LogArrivesOrders, RowsArriveOrders
  DEF Arrives
<1>5. ASSUME NEW o \in Ops, PeerListArrives(o)
      PROVE  OrderInv'
  BY <1>1, <1>5, PeerListArrivesOrders
<1>6. ASSUME NEW u \in Users, Replies(u)
      PROVE  OrderInv'
  BY <1>1, <1>6, FinishCreatingConversationOrders, CompletedOrders DEF Replies
<1>7. ASSUME NEW u \in Users, Refused(u)
      PROVE  OrderInv'
  BY <1>1, <1>7, RefusedOrders
<1>8. ASSUME NEW u \in Users, ServerApplies(u)
      PROVE  OrderInv'
  BY <1>1, <1>8, ServerAppliesOrders
<1>9. ASSUME NEW u \in Users, Reconnects(u)
      PROVE  OrderInv'
  BY <1>9
  DEF Reconnects, heard, history, OrderInv, LogsOrdered, PutsOrdered,
      HeardOrdered, FreshCalls
<1>10. ASSUME NEW u \in Users, Kill(u)
       PROVE  OrderInv'
  BY <1>1, <1>10, QuitOrders DEF Kill, heard, history
<1>11. ASSUME NEW u \in Users, Hears(u)
       PROVE  OrderInv'
  <2>1. UNCHANGED <<msgs, outbox, pc, req, stamp, clock>>
    BY <1>11 DEF Hears, HearsList, HearsLog, history
  <2>2. FreshCalls' /\ HistoryGrows
    BY <2>1, StampType DEF FreshCalls, HistoryGrows
  <2> QED
    BY <1>1, <2>1, <2>2, OrderAfter
<1> QED
  BY <1>2, <1>3, <1>4, <1>5, <1>6, <1>7, <1>8, <1>9, <1>10, <1>11 DEF Next

LEMMA OrderInit == Init => OrderInv
<1> SUFFICES ASSUME Init PROVE OrderInv
  OBVIOUS
<1>1. /\ \A c \in ConvIds : msgs[c] = <<>> /\ Len(msgs[c]) = 0
      /\ \A u \in Users : Len(outbox[u]) = 0
  BY NoLength DEF Init
<1>2. LogsOrdered
  <2> SUFFICES ASSUME NEW c \in ConvIds
               PROVE  Ordered(msgs[c], c, req, stamp, clock)
    BY DEF LogsOrdered
  <2>1. \A i \in 1..Len(msgs[c]) : FALSE
    BY <1>1
  <2> QED
    BY <1>1, <2>1 DEF Ordered
<1>3. PutsOrdered
  <2> SUFFICES ASSUME NEW u \in Users, NEW i \in 1..Len(outbox[u])
               PROVE  FALSE
    BY DEF PutsOrdered
  <2> QED
    BY <1>1
<1>4. FreshCalls
  BY DEF Init, FreshCalls
<1>5. HeardOrdered
  <2> SUFFICES ASSUME NEW u \in Users, NEW c \in ConvIds
               PROVE  Ordered(heardLogs[u][c], c, req, stamp, clock)
    BY DEF HeardOrdered
  <2>1. heardLogs[u][c] = <<>> /\ Len(heardLogs[u][c]) = 0
    BY NoLength DEF Init, NoLogs
  <2>2. \A i \in 1..Len(heardLogs[u][c]) : FALSE
    BY <2>1
  <2> QED
    BY <2>1, <2>2 DEF Ordered
<1> QED
  BY <1>2, <1>3, <1>4, <1>5 DEF OrderInv

\* CallInv and OrderInv together are an invariant.
LEMMA OrderInvCorrect == Spec => [](CallInv /\ OrderInv)
<1>1. Init => CallInv /\ OrderInv
  BY CallInvInit, OrderInit
<1>2. CallInv /\ OrderInv /\ [Next]_vars => (CallInv /\ OrderInv)'
  BY TypeStep, AgreeStep, OrderStep DEF CallInv
<1> QED
  BY <1>1, <1>2, PTL DEF Spec

\* The messages stored for a conversation are messages of that conversation
\* in the order in which sendMessage and finishCreatingConversation composed
\* their arrays, for any number of devices, calls and reconnections.
THEOREM SendOrder == Spec => []MessagesInSendOrder
<1>1. CallInv /\ OrderInv => MessagesInSendOrder
  <2> SUFFICES ASSUME CallInv, OrderInv, NEW c \in ConvIds
               PROVE  \A i \in DOMAIN msgs[c] :
                         /\ req[msgs[c][i]].conv = c
                         /\ \A j \in DOMAIN msgs[c] :
                               i < j => stamp[msgs[c][i]] < stamp[msgs[c][j]]
    BY DEF MessagesInSendOrder
  <2>1. msgs[c] \in Seq(Ops)
    BY DEF CallInv, TypeInv, TypeOK
  <2>2. DOMAIN msgs[c] = 1..Len(msgs[c])
    BY <2>1, LenProperties
  <2>3. Ordered(msgs[c], c, req, stamp, clock)
    BY DEF OrderInv, LogsOrdered
  <2> QED
    BY <2>2, <2>3 DEF Ordered
<1> QED
  BY <1>1, OrderInvCorrect, PTL

\* A conversation with messages begins with the message of the call that
\* created it: sendMessage never opens a conversation, whatever it read.
THEOREM OpeningFirst == Spec => []OpeningMessageFirst
<1>1. CallInv /\ OrderInv => OpeningMessageFirst
  BY DEF OrderInv, LogsOrdered, Ordered, OpeningMessageFirst
<1> QED
  BY <1>1, OrderInvCorrect, PTL

\* While no two conversations get the same id (they may: an id's date has a
\* resolution of one second), two creations of one conversation are the same
\* call.
DistinctCreations == DistinctSeconds => ConversationIdsDistinct

LEMMA DistinctCreationsInit == Init => DistinctCreations
BY DEF Init, NoRequest, DistinctCreations, ConversationIdsDistinct

LEMMA DistinctCreationsStep ==
    TypeInv /\ DistinctCreations /\ [Next]_vars => DistinctCreations'
<1> SUFFICES ASSUME TypeInv, DistinctCreations, [Next]_vars, DistinctSeconds
             PROVE  ConversationIdsDistinct'
  BY DEF DistinctCreations
<1>1. ConversationIdsDistinct /\ req \in [Ops -> Requests \cup {NoRequest}]
  BY DEF DistinctCreations, TypeInv, TypeOK
<1>2. CASE UNCHANGED req
  BY <1>1, <1>2 DEF ConversationIdsDistinct
<1>3. ASSUME NEW o \in Ops, NEW me, NEW other, NEW at,
             CreateNewConversation(o, me, other, at)
      PROVE  ConversationIdsDistinct'
  <2> DEFINE c == [to |-> other, from |-> me, at |-> at]
  <2>1. /\ \A q \in Ops \ {o} : req'[q] = req[q]
        /\ req'[o].conv = c
        /\ \A q \in Ops : req[q].kind = "create" => req[q].conv # c
    BY <1>1, <1>3 DEF CreateNewConversation
  <2> HIDE DEF c
  <2> QED
    BY <1>1, <2>1 DEF ConversationIdsDistinct
<1>4. ASSUME NEW o \in Ops, NEW me, NEW row, SendMessage(o, me, row)
      PROVE  ConversationIdsDistinct'
  <2>1. /\ \A q \in Ops \ {o} : req'[q] = req[q]
        /\ req'[o].kind = "send"
    BY <1>1, <1>4 DEF SendMessage
  <2> QED
    BY <1>1, <2>1 DEF ConversationIdsDistinct
<1>5. \/ UNCHANGED req
      \/ \E o \in Ops : Press(o)
  BY DEF Next, vars, Arrives, UserNodeArrives, LogArrives, RowsArrive,
         PeerListArrives, Replies, FinishCreatingConversation, Completed,
         Refused, ServerApplies, Reconnects, Kill, Hears,
         HearsList, HearsLog
<1> QED
  BY <1>2, <1>3, <1>4, <1>5 DEF Press

LEMMA MsgsChange ==
    ASSUME CallInv, [Next]_vars
    PROVE  \/ UNCHANGED msgs
           \/ \E u \in Users : ServerApplies(u)
BY DEF Next, vars, Press, CreateNewConversation, SendMessage, Arrives,
       UserNodeArrives, LogArrives, RowsArrive, PeerListArrives, Replies,
       FinishCreatingConversation, Completed, Refused, Reconnects, Kill, Hears,
       HearsList, HearsLog

\* No step empties a conversation or replaces its first message: a stale or
\* repeated array that is written over a newer one still begins with it.
THEOREM OpeningKept == Spec => OpeningMessageKept
<1> DEFINE Inv == CallInv /\ OrderInv /\ DistinctCreations
           Kept == \A c \in ConvIds : msgs[c] # <<>> =>
                      /\ msgs'[c] # <<>>
                      /\ DistinctSeconds => msgs'[c][1] = msgs[c][1]
<1>1. Inv /\ [Next]_vars => Inv'
  BY TypeStep, AgreeStep, OrderStep, DistinctCreationsStep DEF CallInv
<1>2. Init => Inv
  BY CallInvInit, OrderInit, DistinctCreationsInit
<1>3. Inv /\ Inv' /\ [Next]_vars => [Kept]_msgs
  <2> SUFFICES ASSUME Inv, Inv', [Next]_vars, NEW c \in ConvIds, msgs[c] # <<>>
               PROVE  /\ msgs'[c] # <<>>
                      /\ DistinctSeconds => msgs'[c][1] = msgs[c][1]
    OBVIOUS
  <2>1. CASE UNCHANGED msgs
    BY <2>1
  <2>2. ASSUME NEW u \in Users, ServerApplies(u)
        PROVE  /\ msgs'[c] # <<>>
               /\ DistinctSeconds => msgs'[c][1] = msgs[c][1]
    <3> DEFINE k == applied[u] + 1
               p == outbox[u][k]
    <3>1. UNCHANGED req /\ k \in 1..Len(outbox[u])
      BY <2>2, NextPut DEF ServerApplies, CallInv
    <3>2. PutOrdered(p, req, stamp, clock)
      BY <3>1 DEF OrderInv, PutsOrdered
    <3>3. \/ UNCHANGED msgs
          \/ /\ p.to \in LogWrites
             /\ msgs' = [msgs EXCEPT ![req[p.op].conv] = p.log]
      BY <2>2 DEF ServerApplies
    <3>4. msgs'[c] # <<>>
      <4> HIDE DEF p
      <4> QED
        BY <3>2, <3>3 DEF PutOrdered, CallInv, TypeInv, TypeOK
    <3>5. ASSUME NEW log \in Seq(Ops), log # <<>>
          PROVE  1 \in 1..Len(log) /\ log[1] \in Ops
      BY <3>5
    <3>6. /\ msgs[c][1] \in Ops /\ req[msgs[c][1]].conv = c
          /\ req[msgs[c][1]].kind = "create"
      <4>1. msgs[c] \in Seq(Ops) /\ Ordered(msgs[c], c, req, stamp, clock)
        BY DEF CallInv, TypeInv, TypeOK, OrderInv, LogsOrdered
      <4> QED
        BY <3>5, <4>1 DEF Ordered
    <3>7. /\ msgs'[c][1] \in Ops /\ req[msgs'[c][1]].conv = c
          /\ req[msgs'[c][1]].kind = "create"
      <4>1. msgs'[c] \in Seq(Ops) /\ Ordered(msgs'[c], c, req', stamp', clock')
        BY DEF CallInv, TypeInv, TypeOK, OrderInv, LogsOrdered
      <4> QED
        BY <3>1, <3>4, <3>5, <4>1 DEF Ordered
    <3> QED
      BY <3>4, <3>6, <3>7 DEF DistinctCreations, ConversationIdsDistinct
  <2> QED
    BY <2>1, <2>2, MsgsChange
<1> QED
  BY <1>1, <1>2, <1>3, PTL DEF Spec, OpeningMessageKept
=============================================================================

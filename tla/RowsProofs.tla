----------------------------- MODULE RowsProofs -----------------------------
(***************************************************************************)
(* The rows of the conversation lists and the answers of the calls, for    *)
(* every set of accounts, calls and dates: how far a call's writes are     *)
(* when a block runs, and what every row that is stored, queued or shown   *)
(* says of its conversation.                                               *)
(***************************************************************************)
EXTENDS ChatDatabaseProofs

----------------------------------------------------------------------------
(* How far a call is                                                       *)

\* A creation that is there, or stays there, puts no row
Early == {"idle", "userRead", "unanswered"}

AfterLog == {"mineRead", "mineWrite", "peerRead", "peerWrite"}
AfterMine == {"peerRead", "peerWrite"}
Creating == {"userRead", "userWrite", "openWrite"}
Sending == {"logRead", "logWrite"} \cup AfterLog

\* What the server has stored for a call (done), given where it is (at), what
\* it is and its update of the recipient's list
Stage(at, kind, done, update) ==
    /\ at = "idle" => done = {}
    /\ at \in AfterLog => "log" \in done
    /\ at \in AfterMine => "mine" \in done
    /\ at = "openWrite" => "user" \in done
    /\ at \in Creating => kind = "create"
    /\ at \in Sending => kind = "send"
    /\ update = "read" => kind = "create" /\ at \notin Early
    /\ at = "ok" => IF kind = "send" THEN {"log", "mine", "theirs"} \subseteq done
                                     ELSE {"user", "opening"} \subseteq done
    /\ "theirs" \in done => "mine" \in done
    /\ "mine" \in done => "log" \in done
    /\ "opening" \in done => "user" \in done

Stages == \A o \in Ops : Stage(pc[o], req[o].kind, told[o], peer[o])

\* A message array that was stored leaves its conversation with messages
StoredLogs ==
    \A o \in Ops : told[o] \cap LogWrites # {} => msgs[req[o].conv] # <<>>

\* What this connection has applied is stored
AppliedTold ==
    \A u \in Users : \A i \in 1..Len(outbox[u]) :
        i <= applied[u] => outbox[u][i].to \in told[outbox[u][i].op]

ChainInv == Stages /\ StoredLogs /\ AppliedTold

----------------------------------------------------------------------------
(* Its parts, by what a step does                                          *)

\* A new put is behind the applied ones
LEMMA ToldAfterPut ==
    ASSUME TypeInv, AppliedTold, NEW u \in Users, NEW p \in Puts, Put(u, p),
           UNCHANGED told
    PROVE  AppliedTold'
<1>1. /\ outbox[u] \in Seq(Puts) /\ Len(outbox[u]) \in Nat
      /\ applied[u] \in Nat /\ applied[u] <= Len(outbox[u])
  BY QueueElements DEF TypeInv, TypeOK, AppliedBounded
<1>2. /\ \A w \in Users \ {u} : outbox'[w] = outbox[w]
      /\ outbox'[u] = Append(outbox[u], p) /\ applied' = applied
  BY DEF Put, TypeInv, TypeOK
<1>3. /\ Len(outbox'[u]) = Len(outbox[u]) + 1
      /\ \A i \in 1..Len(outbox[u]) : outbox'[u][i] = outbox[u][i]
  BY <1>1, <1>2, AppendProperties
<1>4. \A i \in 1..Len(outbox'[u]) : i <= applied[u] => i \in 1..Len(outbox[u])
  BY <1>1, <1>3
<1>5. \A i \in 1..Len(outbox'[u]) :
          i <= applied'[u] => outbox'[u][i].to \in told'[outbox'[u][i].op]
  BY <1>2, <1>3, <1>4 DEF AppliedTold
<1>6. \A w \in Users \ {u} : \A i \in 1..Len(outbox'[w]) :
          i <= applied'[w] => outbox'[w][i].to \in told'[outbox'[w][i].op]
  BY <1>2 DEF AppliedTold
<1> QED
  BY <1>5, <1>6 DEF AppliedTold

\* An answer takes an applied put away
LEMMA ToldAfterAnswer ==
    ASSUME TypeInv, AppliedTold, NEW u \in Users, outbox[u] # <<>>,
           NEW more \in Seq(Puts), Answered(u, more), UNCHANGED told
    PROVE  AppliedTold'
<1> DEFINE rest == Tail(outbox[u])
           new == rest \o more
<1>1. /\ outbox[u] \in Seq(Puts) /\ Len(outbox[u]) \in Nat
      /\ applied[u] \in Nat /\ applied[u] <= Len(outbox[u])
  BY QueueElements DEF TypeInv, TypeOK, AppliedBounded
<1>2. /\ rest \in Seq(Puts) /\ Len(rest) = Len(outbox[u]) - 1
      /\ \A i \in 1..Len(rest) : rest[i] = outbox[u][i + 1]
  BY <1>1, TailProperties
<1>3. /\ Len(new) = Len(rest) + Len(more)
      /\ \A i \in 1..Len(new) : i <= Len(rest) => new[i] = rest[i]
  BY <1>2, ConcatProperties
<1>4. /\ \A w \in Users \ {u} : outbox'[w] = outbox[w] /\ applied'[w] = applied[w]
      /\ outbox'[u] = new
      /\ applied'[u] = IF applied[u] = 0 THEN 0 ELSE applied[u] - 1
  BY DEF Answered, TypeInv, TypeOK
<1>5. Len(rest) \in Nat /\ Len(more) \in Nat
  BY <1>2, LenProperties
<1> HIDE DEF rest, new
<1>6. ASSUME NEW i \in 1..Len(new), i <= applied'[u]
      PROVE  /\ i + 1 \in 1..Len(outbox[u]) /\ i + 1 <= applied[u]
             /\ new[i] = outbox[u][i + 1]
  <2>1. i + 1 <= applied[u] /\ i \in 1..Len(rest)
    BY <1>1, <1>2, <1>4, <1>6
  <2> QED
    BY <1>1, <1>2, <1>3, <2>1
<1>7. \A i \in 1..Len(outbox'[u]) :
          i <= applied'[u] => outbox'[u][i].to \in told'[outbox'[u][i].op]
  BY <1>4, <1>6 DEF AppliedTold
<1>8. \A w \in Users \ {u} : \A i \in 1..Len(outbox'[w]) :
          i <= applied'[w] => outbox'[w][i].to \in told'[outbox'[w][i].op]
  BY <1>4 DEF AppliedTold
<1> QED
  BY <1>7, <1>8 DEF AppliedTold

\* The end of the app
LEMMA ToldAfterQuit ==
    ASSUME TypeInv, AppliedTold, NEW u \in Users, Quit(u), UNCHANGED told
    PROVE  AppliedTold'
<1>1. /\ \A w \in Users \ {u} : outbox'[w] = outbox[w] /\ applied'[w] = applied[w]
      /\ Len(outbox'[u]) = 0
  BY NoLength DEF Quit, TypeInv, TypeOK
<1>2. \A i \in 1..Len(outbox'[u]) : FALSE
  BY <1>1
<1> QED
  BY <1>1, <1>2 DEF AppliedTold

\* Calls that a step leaves alone or ends without success
Left(o) ==
    /\ req'[o] = req[o]
    /\ peer'[o] = "read" => peer[o] = "read"
    /\ pc'[o] = pc[o] \/ pc'[o] \in {"failed", "killed"}

LEMMA StageLeft ==
    ASSUME NEW o \in Ops, Stage(pc[o], req[o].kind, told[o], peer[o]),
           Left(o), told'[o] = told[o]
    PROVE  Stage(pc'[o], req'[o].kind, told'[o], peer'[o])
BY DEF Stage, Left, Early, AfterLog, AfterMine, Creating, Sending

\* A call without stored arrays may get its arguments; others keep them
LEMMA LogsKept ==
    ASSUME StoredLogs, UNCHANGED <<msgs, told>>,
           \A o \in Ops : told[o] # {} => req'[o] = req[o]
    PROVE  StoredLogs'
BY DEF StoredLogs

LEMMA ChainTypes ==
    ASSUME CallInv, ChainInv
    PROVE  /\ TypeInv
           /\ pc \in [Ops -> PcValues]
           /\ peer \in [Ops -> {"none", "read", "done"}]
           /\ told \in [Ops -> SUBSET (ListWrites \cup LogWrites)]
           /\ req \in [Ops -> Requests \cup {NoRequest}]
           /\ \A o \in Ops : /\ Stage(pc[o], req[o].kind, told[o], peer[o])
                             /\ peer[o] = "read" => pc[o] # "idle"
BY DEF CallInv, TypeInv, TypeOK, ChainInv, Stages, CallsHaveArguments

----------------------------------------------------------------------------
(* One lemma for each action                                               *)

LEMMA PressChains ==
    ASSUME CallInv, ChainInv, NEW o \in Ops, Press(o)
    PROVE  ChainInv'
<1>1. UNCHANGED <<msgs, outbox, applied, peer, told>> /\ pc[o] = "idle"
  BY DEF Press, CreateNewConversation, SendMessage, heard, history
<1>2. \A q \in Ops \ {o} : pc'[q] = pc[q] /\ req'[q] = req[q]
  BY DEF Press, CreateNewConversation, SendMessage, Goto, CallInv, TypeInv, TypeOK
<1>3. \/ pc'[o] \in {"userRead", "unanswered"} /\ req'[o].kind = "create"
      \/ pc'[o] = "logRead" /\ req'[o].kind = "send"
  <2>1. ASSUME NEW me, NEW other, NEW at, CreateNewConversation(o, me, other, at)
        PROVE  pc'[o] \in {"userRead", "unanswered"} /\ req'[o].kind = "create"
    BY <2>1, ChainTypes DEF CreateNewConversation, Goto
  <2>2. ASSUME NEW me, NEW row, SendMessage(o, me, row)
        PROVE  pc'[o] = "logRead" /\ req'[o].kind = "send"
    BY <2>2, ChainTypes DEF SendMessage, Goto
  <2> QED
    BY <2>1, <2>2 DEF Press
<1>4. told[o] = {} /\ peer[o] # "read"
  BY <1>1, ChainTypes DEF Stage
<1>5. Stage(pc'[o], req'[o].kind, told'[o], peer'[o])
  BY <1>1, <1>3, <1>4 DEF Stage, Early, AfterLog, AfterMine, Creating, Sending
<1>6. \A q \in Ops : Stage(pc'[q], req'[q].kind, told'[q], peer'[q])
  BY <1>1, <1>2, <1>5, ChainTypes
<1>7. StoredLogs'
  BY <1>1, <1>2, <1>4, LogsKept DEF ChainInv
<1>8. AppliedTold'
  BY <1>1 DEF ChainInv, AppliedTold
<1> QED
  BY <1>6, <1>7, <1>8 DEF ChainInv, Stages

\* One call goes on, nothing is stored
LEMMA CallGoesOn ==
    ASSUME CallInv, ChainInv, UNCHANGED <<msgs, req, told>>, AppliedTold',
           NEW o \in Ops, Stage(pc'[o], req[o].kind, told[o], peer'[o]),
           \A q \in Ops \ {o} : Left(q)
    PROVE  ChainInv'
<1>1. \A q \in Ops : Stage(pc'[q], req'[q].kind, told'[q], peer'[q])
  BY ChainTypes, StageLeft
<1>2. StoredLogs'
  BY LogsKept DEF ChainInv
<1> QED
  BY <1>1, <1>2 DEF ChainInv, Stages

LEMMA UserNodeArrivesChains ==
    ASSUME CallInv, ChainInv, NEW o \in Ops, UserNodeArrives(o)
    PROVE  ChainInv'
<1> DEFINE r == req[o]
           value == List(AppendRow(NodeList(r.me), Row(r.conv, r.other, o)))
           p == ListPut(o, "user", value)
<1>1. /\ UNCHANGED <<msgs, req, told>> /\ pc[o] = "userRead"
      /\ \/ pc' = [pc EXCEPT ![o] = "failed"] /\ UNCHANGED <<outbox, applied, peer>>
         \/ /\ pc' = [pc EXCEPT ![o] = "userWrite"] /\ Put(r.me, p)
            /\ peer' = [peer EXCEPT ![o] = "read"]
  BY DEF UserNodeArrives, Goto, heard, history
<1>2. r.me \in Users /\ p \in Puts
  BY <1>1, RequestType, UserPutType DEF CallInv
<1> HIDE DEF p
<1>3. AppliedTold'
  <2>1. CASE UNCHANGED <<outbox, applied, peer>>
    BY <1>1, <2>1 DEF ChainInv, AppliedTold
  <2>2. CASE Put(r.me, p)
    BY <1>1, <1>2, <2>2, ToldAfterPut, ChainTypes DEF ChainInv
  <2> QED
    BY <1>1, <2>1, <2>2
<1>4. \A q \in Ops \ {o} : Left(q)
  BY <1>1, ChainTypes DEF Left
<1>5. Stage(pc'[o], req[o].kind, told[o], peer'[o])
  BY <1>1, ChainTypes DEF Stage, Early, AfterLog, AfterMine, Creating, Sending
<1> QED
  BY <1>1, <1>3, <1>4, <1>5, CallGoesOn

LEMMA PeerListArrivesChains ==
    ASSUME CallInv, ChainInv, NEW o \in Ops, PeerListArrives(o)
    PROVE  ChainInv'
<1> DEFINE r == req[o]
<1>1. /\ UNCHANGED <<msgs, req, pc, told>> /\ peer[o] = "read"
      /\ peer' = [peer EXCEPT ![o] = "done"]
  BY DEF PeerListArrives, heard, history
<1>2. PICK p \in Puts : Put(r.me, p)
  BY <1>1, PeerPutTypes DEF PeerListArrives, CallInv
<1>3. r.me \in Users
  BY <1>1, RequestType DEF CallInv
<1>4. AppliedTold'
  BY <1>1, <1>2, <1>3, ToldAfterPut, ChainTypes DEF ChainInv
<1>5. \A q \in Ops \ {o} : Left(q)
  BY <1>1, ChainTypes DEF Left
<1>6. Stage(pc'[o], req[o].kind, told[o], peer'[o])
  BY <1>1, ChainTypes DEF Stage
<1> QED
  BY <1>1, <1>4, <1>5, <1>6, CallGoesOn

LEMMA LogArrivesChains ==
    ASSUME CallInv, ChainInv, NEW o \in Ops, LogArrives(o)
    PROVE  ChainInv'
<1> DEFINE r == req[o]
           p == LogPut(o, "log", Append(SeenLog(r.me, r.conv), o))
<1>1. /\ UNCHANGED <<msgs, req, told, peer>> /\ pc[o] = "logRead"
      /\ \/ pc' = [pc EXCEPT ![o] = "failed"] /\ UNCHANGED <<outbox, applied>>
         \/ pc' = [pc EXCEPT ![o] = "logWrite"] /\ Put(r.me, p)
  BY DEF LogArrives, Goto
<1>2. r.me \in Users /\ p \in Puts
  BY <1>1, RequestType, LogArrivesPutType DEF CallInv
<1> HIDE DEF p
<1>3. AppliedTold'
  <2>1. CASE UNCHANGED <<outbox, applied>>
    BY <1>1, <2>1 DEF ChainInv, AppliedTold
  <2>2. CASE Put(r.me, p)
    BY <1>1, <1>2, <2>2, ToldAfterPut, ChainTypes DEF ChainInv
  <2> QED
    BY <1>1, <2>1, <2>2
<1>4. \A q \in Ops \ {o} : Left(q)
  BY <1>1, ChainTypes DEF Left
<1>5. Stage(pc'[o], req[o].kind, told[o], peer'[o])
  BY <1>1, ChainTypes DEF Stage, Early, AfterLog, AfterMine, Creating, Sending
<1> QED
  BY <1>1, <1>3, <1>4, <1>5, CallGoesOn

LEMMA RowsArriveChains ==
    ASSUME CallInv, ChainInv, NEW o \in Ops, RowsArrive(o)
    PROVE  ChainInv'
<1> DEFINE r == req[o]
           mine == pc[o] = "mineRead"
           value == SeenList(r.me, IF mine THEN r.me ELSE r.other)
           p == ListPut(o, IF mine THEN "mine" ELSE "theirs",
                        List(WithLatest(value.rows, r.conv, o)))
<1>1. /\ UNCHANGED <<msgs, req, told, peer>> /\ pc[o] \in {"mineRead", "peerRead"}
  BY DEF RowsArrive, heard, history
<1>2. \/ pc' = [pc EXCEPT ![o] = "failed"] /\ UNCHANGED <<outbox, applied>>
      \/ /\ pc' = [pc EXCEPT ![o] = IF mine THEN "mineWrite" ELSE "peerWrite"]
         /\ Put(r.me, p)
  BY DEF RowsArrive, Goto
<1>3. r.me \in Users /\ p \in Puts
  BY <1>1, RequestType, RowsPutType DEF CallInv
<1> HIDE DEF p
<1>4. AppliedTold'
  <2>1. CASE UNCHANGED <<outbox, applied>>
    BY <1>1, <2>1 DEF ChainInv, AppliedTold
  <2>2. CASE Put(r.me, p)
    BY <1>1, <1>3, <2>2, ToldAfterPut, ChainTypes DEF ChainInv
  <2> QED
    BY <1>2, <2>1, <2>2
<1>5. \A q \in Ops \ {o} : Left(q)
  BY <1>1, <1>2, ChainTypes DEF Left
<1>6. Stage(pc'[o], req[o].kind, told[o], peer'[o])
  BY <1>1, <1>2, ChainTypes DEF Stage, Early, AfterLog, AfterMine, Creating, Sending
<1> QED
  BY <1>1, <1>4, <1>5, <1>6, CallGoesOn

LEMMA QuitChains ==
    ASSUME CallInv, ChainInv, NEW u \in Users, Quit(u), UNCHANGED <<msgs, req, told>>
    PROVE  ChainInv'
<1>1. \A q \in Ops : Left(q)
  BY ChainTypes DEF Quit, Left
<1>2. \A q \in Ops : Stage(pc'[q], req'[q].kind, told'[q], peer'[q])
  BY <1>1, ChainTypes, StageLeft
<1>3. StoredLogs'
  BY LogsKept DEF ChainInv
<1>4. AppliedTold'
  BY ToldAfterQuit, ChainTypes DEF ChainInv
<1> QED
  BY <1>2, <1>3, <1>4 DEF ChainInv, Stages

LEMMA FinishCreatingConversationChains ==
    ASSUME CallInv, ChainInv, NEW u \in Users, FinishCreatingConversation(u)
    PROVE  ChainInv'
<1> DEFINE o == outbox[u][1].op
           more == <<LogPut(o, "opening", <<o>>)>>
<1>1. /\ UNCHANGED <<msgs, req, told>> /\ outbox[u][1].to = "user" /\ applied[u] > 0
      /\ outbox[u] # <<>> /\ 1 \in 1..Len(outbox[u]) /\ o \in Ops
  BY FirstPut DEF FinishCreatingConversation, CallInv
<1>2. pc[o] = "userWrite"
  BY <1>1 DEF CallInv, PutsAgree, PutFits
<1>3. "user" \in told[o]
  <2>1. 1 <= applied[u]
    BY <1>1, ChainTypes DEF TypeInv, TypeOK
  <2> QED
    BY <1>1, <2>1 DEF ChainInv, AppliedTold
<1>4. CASE u \in DottedLocale
  BY <1>1, <1>4, QuitChains DEF FinishCreatingConversation
<1>5. CASE u \notin DottedLocale
  <2>1. /\ Answered(u, more) /\ pc' = [pc EXCEPT ![o] = "openWrite"]
        /\ peer' = peer
    BY <1>5 DEF FinishCreatingConversation, Goto
  <2>2. more \in Seq(Puts)
    BY <1>1, OpeningPutType
  <2> HIDE DEF more
  <2>3. AppliedTold'
    BY <1>1, <2>1, <2>2, ToldAfterAnswer, ChainTypes DEF ChainInv
  <2>4. PICK call \in Ops : call = o
    BY <1>1
  <2>5. \A q \in Ops \ {call} : Left(q)
    BY <1>1, <2>1, <2>4, ChainTypes DEF Left
  <2>6. Stage(pc'[call], req[call].kind, told[call], peer'[call])
    <3>1. pc'[call] = "openWrite" /\ pc[call] = "userWrite" /\ "user" \in told[call]
          /\ peer'[call] = peer[call]
      BY <1>2, <1>3, <2>1, <2>4, ChainTypes
    <3> QED
      BY <3>1, ChainTypes DEF Stage, Early, AfterLog, AfterMine, Creating, Sending
  <2> HIDE DEF o
  <2> QED
    BY <1>1, <2>3, <2>5, <2>6, CallGoesOn
<1> QED
  BY <1>4, <1>5

\* The first put of a queue, its call, and what is stored
LEMMA FirstTold ==
    ASSUME CallInv, ChainInv, NEW u \in Users, applied[u] > 0 \/ outbox[u] # <<>>
    PROVE  \E p \in Puts :
              /\ p = outbox[u][1] /\ p.op \in Ops
              /\ p.to \in ListWrites \cup LogWrites
              /\ PutFits(u, p, pc, req)
              /\ applied[u] > 0 => p.to \in told[p.op]
<1>1. /\ outbox[u] # <<>> /\ 1 \in 1..Len(outbox[u]) /\ outbox[u][1] \in Puts
      /\ outbox[u][1].op \in Ops
  BY FirstPut DEF CallInv
<1>2. PutFits(u, outbox[u][1], pc, req)
  BY <1>1 DEF CallInv, PutsAgree
<1>3. applied[u] > 0 => outbox[u][1].to \in told[outbox[u][1].op]
  <2>1. applied[u] > 0 => 1 <= applied[u]
    BY ChainTypes DEF TypeInv, TypeOK
  <2> QED
    BY <1>1, <2>1 DEF ChainInv, AppliedTold
<1> QED
  BY <1>1, <1>2, <1>3, PutKinds

\* An answer without another put
LEMMA AnswerOnlyTold ==
    ASSUME CallInv, ChainInv, NEW u \in Users, outbox[u] # <<>>,
           Answered(u, <<>>), UNCHANGED told
    PROVE  AppliedTold'
<1> DEFINE more == <<>>
<1>1. more \in Seq(Puts) /\ Answered(u, more)
  OBVIOUS
<1> HIDE DEF more
<1> QED
  BY <1>1, ToldAfterAnswer, ChainTypes DEF ChainInv

LEMMA CompletedChains ==
    ASSUME CallInv, ChainInv, NEW u \in Users, Completed(u)
    PROVE  ChainInv'
<1>1. /\ applied[u] > 0 /\ UNCHANGED <<msgs, req, told, peer>>
      /\ Answered(u, <<>>) /\ outbox[u] # <<>>
  BY FirstPut DEF Completed, CallInv, heard, history
<1>2. PICK p \in Puts :
              /\ p = outbox[u][1] /\ p.op \in Ops
              /\ p.to \in ListWrites \cup LogWrites
              /\ PutFits(u, p, pc, req)
              /\ applied[u] > 0 => p.to \in told[p.op]
  BY <1>1, FirstTold
<1>3. PICK o \in Ops : o = p.op
  BY <1>2
<1>4. \/ p.to = "opening" /\ pc' = [pc EXCEPT ![o] = "ok"]
      \/ p.to = "theirs" /\ pc' = [pc EXCEPT ![o] = "ok"]
      \/ p.to = "log" /\ pc' = [pc EXCEPT ![o] = "mineRead"]
      \/ p.to = "mine" /\ pc' = [pc EXCEPT ![o] = "peerRead"]
      \/ pc' = pc
  BY <1>2, <1>3 DEF Completed, Goto
<1>5. AppliedTold'
  BY <1>1, AnswerOnlyTold
<1>6. \A q \in Ops \ {o} : Left(q)
  BY <1>1, <1>4, ChainTypes DEF Left
<1>7. /\ Stage(pc[o], req[o].kind, told[o], peer[o]) /\ p.to \in told[o]
      /\ p.to = "opening" => pc[o] = "openWrite"
      /\ p.to = "log" => pc[o] = "logWrite"
      /\ p.to = "mine" => pc[o] = "mineWrite"
      /\ p.to = "theirs" => pc[o] = "peerWrite"
  BY <1>1, <1>2, <1>3, ChainTypes DEF PutFits
<1>8. Stage(pc'[o], req[o].kind, told[o], peer'[o])
  <2>1. CASE p.to = "opening" /\ pc' = [pc EXCEPT ![o] = "ok"]
    <3>1. pc'[o] = "ok" /\ pc[o] = "openWrite" /\ "opening" \in told[o]
      BY <1>7, <2>1, ChainTypes
    <3> QED
      BY <1>1, <1>7, <3>1 DEF Stage, Early, AfterLog, AfterMine, Creating, Sending
  <2>2. CASE p.to = "theirs" /\ pc' = [pc EXCEPT ![o] = "ok"]
    <3>1. pc'[o] = "ok" /\ pc[o] = "peerWrite" /\ "theirs" \in told[o]
      BY <1>7, <2>2, ChainTypes
    <3> QED
      BY <1>1, <1>7, <3>1 DEF Stage, Early, AfterLog, AfterMine, Creating, Sending
  <2>3. CASE p.to = "log" /\ pc' = [pc EXCEPT ![o] = "mineRead"]
    <3>1. pc'[o] = "mineRead" /\ pc[o] = "logWrite" /\ "log" \in told[o]
      BY <1>7, <2>3, ChainTypes
    <3> QED
      BY <1>1, <1>7, <3>1 DEF Stage, Early, AfterLog, AfterMine, Creating, Sending
  <2>4. CASE p.to = "mine" /\ pc' = [pc EXCEPT ![o] = "peerRead"]
    <3>1. pc'[o] = "peerRead" /\ pc[o] = "mineWrite" /\ "mine" \in told[o]
      BY <1>7, <2>4, ChainTypes
    <3> QED
      BY <1>1, <1>7, <3>1 DEF Stage, Early, AfterLog, AfterMine, Creating, Sending
  <2>5. CASE pc' = pc
    BY <1>1, <1>7, <2>5
  <2> QED
    BY <1>4, <2>1, <2>2, <2>3, <2>4, <2>5
<1> QED
  BY <1>1, <1>5, <1>6, <1>8, CallGoesOn

LEMMA RefusedChains ==
    ASSUME CallInv, ChainInv, NEW u \in Users, Refused(u)
    PROVE  ChainInv'
<1>1. /\ UNCHANGED <<msgs, req, told, peer>>
      /\ Answered(u, <<>>) /\ outbox[u] # <<>>
      /\ pc' = pc \/ pc' = [pc EXCEPT ![outbox[u][1].op] = "failed"]
  BY DEF Refused, Goto, heard, history
<1>2. PICK o \in Ops : o = outbox[u][1].op
  BY <1>1, FirstPut DEF CallInv
<1>3. \A q \in Ops : Left(q)
  BY <1>1, ChainTypes DEF Left
<1>4. \A q \in Ops : Stage(pc'[q], req'[q].kind, told'[q], peer'[q])
  BY <1>1, <1>3, ChainTypes, StageLeft
<1>5. AppliedTold'
  BY <1>1, AnswerOnlyTold
<1> QED
  BY <1>1, <1>4, <1>5, LogsKept DEF ChainInv, Stages

\* The server stores the next put: its call is told, a message array of it is
\* not empty
LEMMA ServerAppliesChains ==
    ASSUME CallInv, OrderInv, ChainInv, NEW u \in Users, ServerApplies(u)
    PROVE  ChainInv'
<1> DEFINE k == applied[u] + 1
<1>1. /\ UNCHANGED <<outbox, pc, req, peer>> /\ k \in 1..Len(outbox[u])
      /\ applied \in [Users -> Nat] /\ msgs \in [ConvIds -> Seq(Ops)]
  BY NextPut DEF ServerApplies, CallInv, TypeInv, TypeOK
<1>2. PICK p \in Puts : p = outbox[u][k]
  BY <1>1, QueueElements DEF CallInv
<1>3. /\ p.op \in Ops /\ p.to \in ListWrites \cup LogWrites
      /\ PutFits(u, p, pc, req) /\ PutOrdered(p, req, stamp, clock)
  BY <1>1, <1>2, PutKinds DEF CallInv, PutsAgree, OrderInv, PutsOrdered
<1>4. PICK o \in Ops : o = p.op
  BY <1>3
<1>5. /\ told' = [told EXCEPT ![o] = @ \cup {p.to}]
      /\ applied' = [applied EXCEPT ![u] = k]
      /\ \/ /\ p.to \in ListWrites /\ UNCHANGED msgs
         \/ /\ p.to \in LogWrites
            /\ msgs' = [msgs EXCEPT ![req[o].conv] = p.log]
  BY <1>2, <1>4 DEF ServerApplies
<1> HIDE DEF k
<1>6. /\ told'[o] = told[o] \cup {p.to}
      /\ \A q \in Ops \ {o} : told'[q] = told[q]
      /\ \A q \in Ops : told[q] \subseteq told'[q]
  BY <1>5, ChainTypes
<1>7. /\ Stage(pc[o], req[o].kind, told[o], peer[o])
      /\ pc[o] # "idle"
      /\ p.to = "user" => pc[o] = "userWrite"
      /\ p.to = "opening" => pc[o] = "openWrite"
      /\ p.to = "log" => pc[o] = "logWrite"
      /\ p.to = "mine" => pc[o] = "mineWrite"
      /\ p.to = "theirs" => pc[o] = "peerWrite"
  BY <1>3, <1>4, ChainTypes DEF PutFits
<1>8. Stage(pc[o], req[o].kind, told'[o], peer[o])
  <2>1. CASE p.to \in {"entry", "id", "user", "log"}
    BY <1>6, <1>7, <2>1 DEF Stage, Early, AfterLog, AfterMine, Creating, Sending
  <2>2. CASE p.to = "opening"
    BY <1>6, <1>7, <2>2 DEF Stage, Early, AfterLog, AfterMine, Creating, Sending
  <2>3. CASE p.to = "mine"
    BY <1>6, <1>7, <2>3 DEF Stage, Early, AfterLog, AfterMine, Creating, Sending
  <2>4. CASE p.to = "theirs"
    BY <1>6, <1>7, <2>4 DEF Stage, Early, AfterLog, AfterMine, Creating, Sending
  <2> QED
    BY <1>3, <2>1, <2>2, <2>3, <2>4 DEF ListWrites, LogWrites
<1>9. \A q \in Ops : Stage(pc[q], req[q].kind, told'[q], peer[q])
  BY <1>6, <1>8, ChainTypes
<1>10. \A q \in Ops : told'[q] \cap LogWrites # {} => msgs'[req[q].conv] # <<>>
  <2>1. \A c \in ConvIds : msgs[c] # <<>> => msgs'[c] # <<>>
    BY <1>1, <1>3, <1>5 DEF PutOrdered
  <2>2. \A q \in Ops : pc[q] # "idle" => req[q].conv \in ConvIds
    BY RequestType DEF CallInv
  <2>3. \A q \in Ops : told[q] \cap LogWrites # {}
                           => msgs[req[q].conv] # <<>> /\ pc[q] # "idle"
    BY ChainTypes DEF ChainInv, StoredLogs, Stage
  <2>4. \A q \in Ops : told[q] \cap LogWrites # {} => msgs'[req[q].conv] # <<>>
    BY <2>1, <2>2, <2>3
  <2>5. CASE p.to \in ListWrites
    <3>1. p.to \notin LogWrites
      BY <2>5 DEF ListWrites, LogWrites
    <3> QED
      BY <1>6, <2>4, <3>1
  <2>6. CASE p.to \in LogWrites
    <3>1. p.to \notin ListWrites
      BY <2>6 DEF ListWrites, LogWrites
    <3>2. msgs'[req[o].conv] = p.log /\ p.log # <<>>
      BY <1>1, <1>3, <1>5, <1>7, <2>2, <2>6, <3>1 DEF PutOrdered
    <3> QED
      BY <1>6, <2>4, <3>2
  <2> QED
    BY <1>3, <2>5, <2>6
<1>11. ASSUME NEW w \in Users, NEW i \in 1..Len(outbox[w]), i <= applied'[w]
       PROVE  outbox[w][i].to \in told'[outbox[w][i].op]
  <2>1. outbox[w][i].op \in Ops
    BY QueueElements DEF CallInv
  <2>2. CASE i <= applied[w]
    BY <1>6, <2>1, <2>2 DEF ChainInv, AppliedTold
  <2>3. CASE ~(i <= applied[w])
    <3>1. w = u
      BY <1>1, <1>5, <1>11, <2>3
    <3>2. i = k
      <4>1. applied'[u] = applied[u] + 1 /\ applied[u] \in Nat
        BY <1>1, <1>5 DEF k
      <4> QED
        BY <1>11, <2>3, <3>1, <4>1 DEF k
    <3> QED
      BY <1>2, <1>4, <1>6, <3>1, <3>2
  <2> QED
    BY <2>2, <2>3
<1> QED
  BY <1>1, <1>9, <1>10, <1>11 DEF ChainInv, Stages, StoredLogs, AppliedTold

LEMMA ChainStep == CallInv /\ OrderInv /\ ChainInv /\ [Next]_vars => ChainInv'
<1> SUFFICES ASSUME CallInv, OrderInv, ChainInv, [Next]_vars
             PROVE  ChainInv'
  OBVIOUS
<1>1. CASE UNCHANGED vars
  BY <1>1 DEF vars, heard, history, ChainInv, Stages, StoredLogs, AppliedTold
<1>2. ASSUME NEW o \in Ops, Press(o)
      PROVE  ChainInv'
  BY <1>2, PressChains
<1>3. ASSUME NEW o \in Ops, Arrives(o)
      PROVE  ChainInv'
  BY <1>3, UserNodeArrivesChains, LogArrivesChains, RowsArriveChains DEF Arrives
<1>4. ASSUME NEW o \in Ops, PeerListArrives(o)
      PROVE  ChainInv'
  BY <1>4, PeerListArrivesChains
<1>5. ASSUME NEW u \in Users, Replies(u)
      PROVE  ChainInv'
  BY <1>5, FinishCreatingConversationChains, CompletedChains DEF Replies
<1>6. ASSUME NEW u \in Users, Refused(u)
      PROVE  ChainInv'
  BY <1>6, RefusedChains
<1>7. ASSUME NEW u \in Users, ServerApplies(u)
      PROVE  ChainInv'
  BY <1>7, ServerAppliesChains
<1>8. ASSUME NEW u \in Users, Reconnects(u)
      PROVE  ChainInv'
  <2>1. /\ UNCHANGED <<msgs, outbox, pc, req, peer, told>>
        /\ applied' = [applied EXCEPT ![u] = 0]
    BY <1>8 DEF Reconnects, heard, history
  <2>2. \A w \in Users : \A i \in 1..Len(outbox[w]) :
            i <= applied'[w] => i <= applied[w]
    BY <2>1, ChainTypes DEF TypeInv, TypeOK
  <2> QED
    BY <2>1, <2>2 DEF ChainInv, Stages, StoredLogs, AppliedTold
<1>9. ASSUME NEW u \in Users, Kill(u)
      PROVE  ChainInv'
  BY <1>9, QuitChains DEF Kill, heard, history
<1>10. ASSUME NEW u \in Users, Hears(u)
       PROVE  ChainInv'
  BY <1>10
  DEF Hears, HearsList, HearsLog, history, ChainInv, Stages, StoredLogs, AppliedTold
<1> QED
  BY <1>1, <1>2, <1>3, <1>4, <1>5, <1>6, <1>7, <1>8, <1>9, <1>10 DEF Next

LEMMA ChainInit == Init => ChainInv
<1> SUFFICES ASSUME Init PROVE ChainInv
  OBVIOUS
<1>1. \A u \in Users : Len(outbox[u]) = 0
  BY NoLength DEF Init
<1>2. Stages
  BY DEF Init, Stages, Stage, Early, AfterLog, AfterMine, Creating, Sending
<1>3. StoredLogs
  BY DEF Init, StoredLogs
<1>4. AppliedTold
  <2> SUFFICES ASSUME NEW u \in Users, NEW i \in 1..Len(outbox[u])
               PROVE  FALSE
    BY DEF AppliedTold
  <2> QED
    BY <1>1
<1> QED
  BY <1>2, <1>3, <1>4 DEF ChainInv

\* The three together are an invariant.
LEMMA ChainInvCorrect == Spec => [](CallInv /\ OrderInv /\ ChainInv)
<1>1. Init => CallInv /\ OrderInv /\ ChainInv
  BY CallInvInit, OrderInit, ChainInit
<1>2. CallInv /\ OrderInv /\ ChainInv /\ [Next]_vars
          => (CallInv /\ OrderInv /\ ChainInv)'
  BY TypeStep, AgreeStep, OrderStep, ChainStep DEF CallInv
<1> QED
  BY <1>1, <1>2, PTL DEF Spec

\* The writes of a createNewConversation and of a sendMessage reach the
\* server in the order of their chain, and a call that answers true has done
\* all of them, for any number of devices, kills, refusals and reconnections.
THEOREM ChainsInOrder == Spec => []WritesInOrder
<1>1. ChainInv => WritesInOrder
  BY DEF ChainInv, Stages, Stage, WritesInOrder
<1> QED
  BY <1>1, ChainInvCorrect, PTL

\* A conversation whose creation answered true, or to which a sendMessage
\* answered true, has messages to show, from then on.
THEOREM OkIsReadable == Spec => []AcknowledgedIsReadable
<1>1. ChainInv => AcknowledgedIsReadable
  BY DEF ChainInv, Stages, Stage, StoredLogs, LogWrites, AcknowledgedIsReadable
<1> QED
  BY <1>1, ChainInvCorrect, PTL

----------------------------------------------------------------------------
(* Creations that failed                                                   *)

\* A creation's conversation is from its caller; it fails only where the app
\* or a put fails or the caller has no node; and it asks for the recipient's
\* list only when the caller has one
Creator(at, r, update) ==
    r.kind = "create" =>
        /\ r.conv.from = r.me
        /\ at \in {"failed", "killed"}
               => r.me \in Faulty \cup DottedLocale \/ r.me \notin Registered
        /\ update = "read" => r.me \in Registered

Creators == \A o \in Ops : Creator(pc[o], req[o], peer[o])

LEMMA QuitCreators ==
    ASSUME CallInv, Creators, NEW u \in Faulty \cup DottedLocale, Quit(u),
           UNCHANGED req
    PROVE  Creators'
<1> SUFFICES ASSUME NEW o \in Ops
             PROVE  Creator(pc'[o], req'[o], peer'[o])
  BY DEF Creators
<1>1. \/ pc'[o] = pc[o]
      \/ pc'[o] = "killed" /\ req[o].me = u
  BY DEF Quit
<1>2. peer'[o] = "read" => peer[o] = "read"
  BY DEF Quit
<1> QED
  BY <1>1, <1>2 DEF Creators, Creator

\* One call's callback changes, or its update; a creation does not fail
LEMMA CreatorsKept ==
    ASSUME Creators, UNCHANGED req,
           \A o \in Ops : pc'[o] \in {"failed", "killed"} =>
               \/ pc'[o] = pc[o] \/ req[o].kind = "send"
               \/ req[o].me \in Faulty \/ req[o].me \notin Registered,
           \A o \in Ops : peer'[o] = "read" =>
               peer[o] = "read" \/ req[o].me \in Registered
    PROVE  Creators'
BY DEF Creators, Creator

LEMMA PressCreators ==
    ASSUME CallInv, ChainInv, Creators, NEW o \in Ops, Press(o)
    PROVE  Creators'
<1>1. UNCHANGED peer /\ pc[o] = "idle"
  BY DEF Press, CreateNewConversation, SendMessage
<1>2. \A q \in Ops \ {o} : pc'[q] = pc[q] /\ req'[q] = req[q]
  BY ChainTypes DEF Press, CreateNewConversation, SendMessage, Goto
<1>3. peer[o] # "read"
  BY <1>1, ChainTypes
<1>4. /\ pc'[o] \notin {"failed", "killed"}
      /\ req'[o].kind = "create" => req'[o].conv.from = req'[o].me
  <2>1. ASSUME NEW me, NEW other, NEW at, CreateNewConversation(o, me, other, at)
        PROVE  /\ pc'[o] \notin {"failed", "killed"}
               /\ req'[o].conv.from = req'[o].me
    <3>1. /\ req'[o].me = me
          /\ req'[o].conv = [to |-> other, from |-> me, at |-> at]
          /\ pc'[o] \in {"userRead", "unanswered"}
      BY <2>1, ChainTypes DEF CreateNewConversation, Goto
    <3> QED
      BY <3>1
  <2>2. ASSUME NEW me, NEW row, SendMessage(o, me, row)
        PROVE  pc'[o] = "logRead" /\ req'[o].kind = "send"
    BY <2>2, ChainTypes DEF SendMessage, Goto
  <2> QED
    BY <2>1, <2>2 DEF Press
<1> QED
  BY <1>1, <1>2, <1>3, <1>4 DEF Creators, Creator

LEMMA ArrivesCreators ==
    ASSUME CallInv, ChainInv, Creators, NEW o \in Ops,
           Arrives(o) \/ PeerListArrives(o)
    PROVE  Creators'
<1>1. UNCHANGED req
  BY DEF Arrives, UserNodeArrives, LogArrives, RowsArrive, PeerListArrives
<1>2. \A q \in Ops : pc'[q] \in {"failed", "killed"} =>
          \/ pc'[q] = pc[q] \/ req[q].kind = "send" \/ req[q].me \notin Registered
  <2>1. CASE UserNodeArrives(o)
    BY <2>1, ChainTypes DEF UserNodeArrives, Goto
  <2>2. CASE LogArrives(o) \/ RowsArrive(o)
    <3>1. /\ pc[o] \in Sending
          /\ \A q \in Ops \ {o} : pc'[q] = pc[q]
      BY <2>2, ChainTypes DEF LogArrives, RowsArrive, Goto, Sending, AfterLog
    <3>2. req[o].kind = "send"
      BY <3>1, ChainTypes DEF Stage
    <3> QED
      BY <3>1, <3>2
  <2>3. CASE PeerListArrives(o)
    BY <2>3 DEF PeerListArrives
  <2> QED
    BY <2>1, <2>2, <2>3 DEF Arrives
<1>3. \A q \in Ops : peer'[q] = "read" => peer[q] = "read" \/ req[q].me \in Registered
  BY ChainTypes
  DEF Arrives, UserNodeArrives, LogArrives, RowsArrive, PeerListArrives
<1> QED
  BY <1>1, <1>2, <1>3, CreatorsKept

LEMMA RepliesCreators ==
    ASSUME CallInv, ChainInv, Creators, NEW u \in Users, Replies(u) \/ Refused(u)
    PROVE  Creators'
<1>1. PICK o \in Ops : o = outbox[u][1].op /\ req[o].me = u
  <2>1. 1 \in 1..Len(outbox[u]) /\ outbox[u][1].op \in Ops
    BY FirstPut DEF CallInv, Replies, FinishCreatingConversation, Completed, Refused
  <2> QED
    BY <2>1 DEF CallInv, PutsAgree, PutFits
<1>2. UNCHANGED req
  BY DEF Replies, FinishCreatingConversation, Completed, Refused
<1>3. CASE FinishCreatingConversation(u) /\ u \in DottedLocale
  BY <1>2, <1>3, QuitCreators DEF FinishCreatingConversation
<1>4. CASE FinishCreatingConversation(u) /\ u \notin DottedLocale
  <2>1. UNCHANGED peer /\ pc' = [pc EXCEPT ![o] = "openWrite"]
    BY <1>1, <1>4 DEF FinishCreatingConversation, Goto
  <2> QED
    BY <1>2, <2>1, CreatorsKept, ChainTypes
<1>5. CASE Completed(u)
  <2>1. /\ UNCHANGED peer
        /\ UNCHANGED pc \/ \E where \in {"ok", "mineRead", "peerRead"} :
                               pc' = [pc EXCEPT ![o] = where]
    BY <1>1, <1>5 DEF Completed, Goto
  <2>2. \A q \in Ops : pc'[q] \in {"failed", "killed"} => pc'[q] = pc[q]
    BY <2>1, ChainTypes
  <2> QED
    BY <1>2, <2>1, <2>2, CreatorsKept
<1>6. CASE Refused(u)
  <2>1. /\ UNCHANGED peer /\ u \in Faulty
        /\ UNCHANGED pc \/ pc' = [pc EXCEPT ![o] = "failed"]
    BY <1>1, <1>6 DEF Refused, Goto
  <2>2. \A q \in Ops : pc'[q] = pc[q] \/ req[q].me \in Faulty
    BY <1>1, <2>1, ChainTypes
  <2> QED
    BY <1>2, <2>1, <2>2, CreatorsKept
<1> QED
  BY <1>3, <1>4, <1>5, <1>6 DEF Replies

LEMMA CreatorsStep == CallInv /\ ChainInv /\ Creators /\ [Next]_vars => Creators'
<1> SUFFICES ASSUME CallInv, ChainInv, Creators, [Next]_vars
             PROVE  Creators'
  OBVIOUS
<1>1. CASE UNCHANGED vars
  BY <1>1 DEF vars, Creators
<1>2. ASSUME NEW o \in Ops, Press(o)
      PROVE  Creators'
  BY <1>2, PressCreators
<1>3. ASSUME NEW o \in Ops, Arrives(o) \/ PeerListArrives(o)
      PROVE  Creators'
  BY <1>3, ArrivesCreators
<1>4. ASSUME NEW u \in Users, Replies(u) \/ Refused(u)
      PROVE  Creators'
  BY <1>4, RepliesCreators
<1>5. ASSUME NEW u \in Users, ServerApplies(u) \/ Reconnects(u) \/ Hears(u)
      PROVE  Creators'
  BY <1>5 DEF ServerApplies, Reconnects, Hears, HearsList, HearsLog, Creators
<1>6. ASSUME NEW u \in Users, Kill(u)
      PROVE  Creators'
  BY <1>6, QuitCreators DEF Kill
<1> QED
  BY <1>1, <1>2, <1>3, <1>4, <1>5, <1>6 DEF Next

LEMMA CreatorsInit == Init => Creators
BY DEF Init, NoRequest, Creators, Creator

----------------------------------------------------------------------------
(* The rows                                                                *)

\* other is the other party of the conversation, for u
Party(u, id, other) == \/ id.from = u /\ id.to = other
                       \/ id.to = u /\ id.from = other

\* A row of u's list: its parties, its latest message and its creation.  at,
\* rq and done are pc, req and told, or the next values of these.
RowFits(u, row, at, rq, done) ==
    /\ Party(u, row.id, row.other)
    /\ at[row.latest] # "idle" /\ rq[row.latest].conv = row.id
    /\ rq[row.latest].kind = "send" => "log" \in done[row.latest]
    /\ \E q \in Ops : /\ rq[q].kind = "create" /\ rq[q].conv = row.id
                      /\ at[q] \notin Early /\ rq[q].me \in Registered

ListFits(u, value, at, rq, done) ==
    /\ \A i \in 1..Len(value.rows) : RowFits(u, value.rows[i], at, rq, done)
    /\ DistinctSeconds => \A i, j \in 1..Len(value.rows) :
                              value.rows[i].id = value.rows[j].id => i = j

\* Whose list a put writes, by the calls' arguments
OwnerIn(p, rq) == IF p.to \in {"user", "mine"} THEN rq[p.op].me
                                              ELSE rq[p.op].other

PutRowsFit(p, at, rq, done) ==
    p.to \in ListWrites => ListFits(OwnerIn(p, rq), p.list, at, rq, done)

StoredRows == \A u \in Users : ListFits(u, convs[u], pc, req, told)
QueuedRows == \A u \in Users : \A i \in 1..Len(outbox[u]) :
                 PutRowsFit(outbox[u][i], pc, req, told)
ShownRows == \A u \in Users : \A offer \in shown[u] :
                Party(u, offer.conv, offer.other)
HeardRows == \A u \in Users : ListFits(u, heardList[u], pc, req, told)
CallParties == \A o \in Ops :
                  pc[o] # "idle" => Party(req[o].me, req[o].conv, req[o].other)

RowInv == StoredRows /\ QueuedRows /\ ShownRows /\ HeardRows /\ CallParties

\* What a step may do to the lists that the devices have heard
ListsHeard == \A u \in Users : \/ heardList'[u] = heardList[u]
                               \/ heardList'[u] \in {convs[u], convs'[u]}

\* What a step may do to the calls
Going == \A q \in Ops :
            /\ pc[q] # "idle" => req'[q] = req[q] /\ pc'[q] # "idle"
            /\ pc[q] \notin Early => pc'[q] \notin Early
            /\ told[q] \subseteq told'[q]

LEMMA RowsOfValue ==
    ASSUME NEW value \in ListValues
    PROVE  /\ value.rows \in Seq(Rows) /\ Len(value.rows) \in Nat
           /\ DOMAIN value.rows = 1..Len(value.rows)
           /\ \A i \in 1..Len(value.rows) : value.rows[i] \in Rows
<1>1. value.rows \in Seq(Rows)
  BY DEF ListValues
<1> QED
  BY <1>1, ElementOfSeq, LenProperties

LEMMA ListFitsKept ==
    ASSUME Going, NEW u, NEW value \in ListValues,
           ListFits(u, value, pc, req, told)
    PROVE  ListFits(u, value, pc', req', told')
<1> SUFFICES ASSUME NEW i \in 1..Len(value.rows)
             PROVE  RowFits(u, value.rows[i], pc', req', told')
  BY DEF ListFits
<1>1. PICK row \in Rows : row = value.rows[i]
  BY RowsOfValue
<1>2. RowFits(u, row, pc, req, told) /\ row.latest \in Ops
  BY <1>1 DEF ListFits, Rows
<1>3. PICK q \in Ops : /\ req[q].kind = "create" /\ req[q].conv = row.id
                       /\ pc[q] \notin Early /\ req[q].me \in Registered
  BY <1>2 DEF RowFits
<1>4. /\ req'[q] = req[q] /\ pc'[q] \notin Early
      /\ req'[row.latest] = req[row.latest] /\ pc'[row.latest] # "idle"
      /\ told[row.latest] \subseteq told'[row.latest]
  BY <1>2, <1>3 DEF Going, RowFits, Early
<1> QED
  BY <1>1, <1>2, <1>3, <1>4 DEF RowFits

\* No rows, and one row
LEMMA NoRowsFit ==
    ASSUME NEW u, NEW value, value.rows = <<>>, NEW at, NEW rq, NEW done
    PROVE  ListFits(u, value, at, rq, done)
<1>1. Len(value.rows) = 0
  BY NoLength
<1>2. \A i \in 1..Len(value.rows) : FALSE
  BY <1>1
<1> QED
  BY <1>2 DEF ListFits

LEMMA OneRowFits ==
    ASSUME NEW u, NEW row, NEW at, NEW rq, NEW done, RowFits(u, row, at, rq, done)
    PROVE  ListFits(u, List(<<row>>), at, rq, done)
<1> DEFINE rows == <<row>>
<1>1. List(rows).rows = rows
  BY DEF List
<1>2. Len(rows) = 1 /\ rows[1] = row
  OBVIOUS
<1> HIDE DEF rows
<1>3. \A i \in 1..Len(List(rows).rows) : i = 1 /\ List(rows).rows[i] = row
  BY <1>1, <1>2
<1>4. ListFits(u, List(rows), at, rq, done)
  BY <1>3 DEF ListFits
<1> QED
  BY <1>4 DEF rows

\* A row is appended
LEMMA AppendedRowsFit ==
    ASSUME NEW u, NEW value \in ListValues, NEW row \in Rows,
           NEW at, NEW rq, NEW done,
           ListFits(u, value, at, rq, done), RowFits(u, row, at, rq, done),
           DistinctSeconds =>
               \A i \in 1..Len(value.rows) : value.rows[i].id # row.id
    PROVE  ListFits(u, List(AppendRow(value, row)), at, rq, done)
<1>1. CASE value.kind # "list"
  BY <1>1, OneRowFits DEF AppendRow
<1>2. CASE value.kind = "list"
  <2> DEFINE old == value.rows
             new == Append(old, row)
             n == Len(old)
  <2>1. old \in Seq(Rows) /\ n \in Nat
    BY RowsOfValue
  <2>2. /\ Len(new) = n + 1 /\ new[n + 1] = row
        /\ \A i \in 1..n : new[i] = old[i]
    BY <2>1, AppendProperties
  <2>3. \A i \in 1..Len(new) : i \in 1..n \/ i = n + 1
    BY <2>1, <2>2
  <2>4. /\ \A i \in 1..n : RowFits(u, old[i], at, rq, done)
        /\ DistinctSeconds => /\ \A i \in 1..n : old[i].id # row.id
                              /\ \A i, j \in 1..n : old[i].id = old[j].id => i = j
    BY DEF ListFits
  <2>5. List(AppendRow(value, row)).rows = new
    BY <1>2 DEF List, AppendRow
  <2> HIDE DEF old, new, n
  <2>6. \A i \in 1..Len(new) : RowFits(u, new[i], at, rq, done)
    BY <2>2, <2>3, <2>4
  <2>7. DistinctSeconds =>
            \A i, j \in 1..Len(new) : new[i].id = new[j].id => i = j
    BY <2>2, <2>3, <2>4
  <2> QED
    BY <2>5, <2>6, <2>7 DEF ListFits
<1> QED
  BY <1>1, <1>2

\* A call's message becomes the latest of its conversation's first row
LEMMA UpdatedRowsFit ==
    ASSUME NEW u, NEW value \in ListValues, NEW c, NEW o,
           NEW at, NEW rq, NEW done, ListFits(u, value, at, rq, done),
           at[o] # "idle", rq[o].conv = c, "log" \in done[o]
    PROVE  ListFits(u, List(WithLatest(value.rows, c, o)), at, rq, done)
<1> DEFINE old == value.rows
           new == WithLatest(old, c, o)
<1>1. /\ old \in Seq(Rows) /\ DOMAIN old = 1..Len(old)
      /\ \A i \in 1..Len(old) : old[i] \in Rows
  BY RowsOfValue
<1>2. Len(new) = Len(old)
  <2>1. DOMAIN new = 1..Len(old) /\ Len(old) \in Nat
    BY <1>1 DEF WithLatest
  <2>2. new = [i \in 1..Len(old) |-> new[i]]
    BY <1>1 DEF WithLatest
  <2> HIDE DEF new, old
  <2>3. new \in Seq({new[i] : i \in 1..Len(old)})
    <3>1. new \in [1..Len(old) -> {new[i] : i \in 1..Len(old)}]
      BY <2>1, <2>2
    <3> QED
      BY <2>1, <3>1, SeqDef
  <2> QED
    BY <2>1, <2>3, LenProperties
<1>3. ASSUME NEW i \in 1..Len(old)
      PROVE  RowFits(u, new[i], at, rq, done) /\ new[i].id = old[i].id
  <2>1. RowFits(u, old[i], at, rq, done) /\ old[i] \in Rows
    BY <1>1 DEF ListFits
  <2>2. \/ new[i] = old[i]
        \/ new[i] = [old[i] EXCEPT !.latest = o] /\ old[i].id = c
    BY <1>1 DEF WithLatest, IsFirstRow
  <2> HIDE DEF new, old
  <2>3. CASE new[i] = [old[i] EXCEPT !.latest = o] /\ old[i].id = c
    <3>1. /\ new[i].id = old[i].id /\ new[i].other = old[i].other
          /\ new[i].latest = o
      BY <2>1, <2>3 DEF Rows
    <3> QED
      BY <2>1, <2>3, <3>1 DEF RowFits
  <2> QED
    BY <2>1, <2>2, <2>3
<1>4. List(new).rows = new
  BY DEF List
<1>5. DistinctSeconds => \A i, j \in 1..Len(old) : old[i].id = old[j].id => i = j
  BY DEF ListFits
<1> HIDE DEF new, old
<1> QED
  BY <1>2, <1>3, <1>4, <1>5 DEF ListFits, old, new

\* What a device reads fits, if what is stored and what it has queued does
LEMMA ListOnFits ==
    ASSUME NEW at, NEW done
    PROVE  \A box \in Seq(Puts), stored \in ListValues : \A w :
              /\ ListFits(w, stored, at, req, done)
              /\ \A i \in 1..Len(box) : PutRowsFit(box[i], at, req, done)
              => ListFits(w, ListOn(box, stored, w), at, req, done)
<1> SUFFICES ASSUME NEW box \in Seq(Puts), NEW stored \in ListValues, NEW w,
                    ListFits(w, stored, at, req, done),
                    \A i \in 1..Len(box) : PutRowsFit(box[i], at, req, done)
             PROVE  ListFits(w, ListOn(box, stored, w), at, req, done)
  OBVIOUS
<1> DEFINE last == LastListPut(box, w)
<1>1. CASE last = {}
  BY <1>1 DEF ListOn
<1>2. CASE last # {}
  <2>1. PICK i \in last : i = (CHOOSE k \in last : TRUE)
    BY <1>2
  <2>2. /\ i \in 1..Len(box) /\ box[i].to \in ListWrites
        /\ OwnerIn(box[i], req) = w
    BY <2>1, LenProperties DEF LastListPut, WritesList, Owner, OwnerIn
  <2>3. ListFits(w, box[i].list, at, req, done)
    BY <2>2 DEF PutRowsFit
  <2> QED
    BY <1>2, <2>1, <2>3 DEF ListOn
<1> QED
  BY <1>1, <1>2

LEMMA SeenListFits ==
    ASSUME CallInv, RowInv, NEW u \in Users, NEW w \in Users
    PROVE  /\ SeenList(u, w) \in ListValues
           /\ ListFits(w, SeenList(u, w), pc, req, told)
<1> DEFINE stored == IF w = u THEN heardList[u] ELSE convs[w]
<1>1. stored \in ListValues /\ ListFits(w, stored, pc, req, told)
  BY DEF CallInv, TypeInv, TypeOK, RowInv, StoredRows, HeardRows
<1>2. /\ outbox[u] \in Seq(Puts)
      /\ \A i \in 1..Len(outbox[u]) : PutRowsFit(outbox[u][i], pc, req, told)
  BY DEF CallInv, TypeInv, TypeOK, RowInv, QueuedRows
<1> HIDE DEF stored
<1>3. ListFits(w, ListOn(outbox[u], stored, w), pc, req, told)
  BY <1>1, <1>2, ListOnFits
<1> QED
  BY <1>3, SeenListType DEF stored, SeenList, CallInv, TypeInv

LEMMA NodeListFits ==
    ASSUME CallInv, RowInv, NEW u \in Users
    PROVE  /\ NodeList(u) \in ListValues
           /\ ListFits(u, NodeList(u), pc, req, told)
BY ListOnFits, NodeListType
DEF NodeList, CallInv, TypeInv, TypeOK, RowInv, StoredRows, QueuedRows

\* A device hears a list that was stored before the step or is after it
LEMMA ListsHeardStep ==
    ASSUME CallInv, [Next]_vars
    PROVE  ListsHeard
<1>1. heardList \in [Users -> ListValues]
  BY DEF CallInv, TypeInv, TypeOK
<1>2. CASE UNCHANGED heardList
  BY <1>2 DEF ListsHeard
<1>3. ASSUME NEW u \in Users,
             \/ heardList' = [heardList EXCEPT ![u] = convs[u]]
             \/ heardList' = [heardList EXCEPT ![u] = convs'[u]]
      PROVE  ListsHeard
  BY <1>1, <1>3 DEF ListsHeard
<1>4. ASSUME NEW o \in Ops, Press(o) \/ Arrives(o) \/ PeerListArrives(o)
      PROVE  ListsHeard
  <2>1. ASSUME UserNodeArrives(o)
        PROVE  ListsHeard
    <3>1. /\ pc[o] = "userRead"
          /\ heardList' = [heardList EXCEPT ![req[o].me] = convs[req[o].me]]
      BY <2>1 DEF UserNodeArrives
    <3>2. req[o].me \in Users
      BY <3>1, RequestType DEF CallInv
    <3> QED
      BY <1>3, <3>1, <3>2
  <2> QED
    BY <1>2, <1>4, <2>1
    DEF Press, CreateNewConversation, SendMessage, Arrives, LogArrives, RowsArrive,
        PeerListArrives, heard
<1>5. ASSUME NEW u \in Users, Quit(u) \/ HearsList(u)
      PROVE  ListsHeard
  BY <1>3, <1>5 DEF Quit, HearsList
<1>6. ASSUME NEW u \in Users, ServerApplies(u)
      PROVE  ListsHeard
  BY <1>3, <1>6 DEF ServerApplies, HeardBy
<1>7. ASSUME NEW u \in Users,
             Replies(u) \/ Refused(u) \/ Reconnects(u) \/ Kill(u) \/ Hears(u)
      PROVE  ListsHeard
  BY <1>2, <1>5, <1>7
  DEF Replies, FinishCreatingConversation, Completed, Refused, Reconnects, Kill,
      Hears, HearsLog, heard
<1> QED
  BY <1>2, <1>4, <1>6, <1>7 DEF Next, vars, heard

LEMMA OffersFit ==
    ASSUME NEW u, NEW value \in ListValues, NEW at, NEW rq, NEW done,
           ListFits(u, value, at, rq, done), NEW offer \in RowsOf(value)
    PROVE  Party(u, offer.conv, offer.other)
<1>1. PICK i \in 1..Len(value.rows) :
          offer = [conv |-> value.rows[i].id, other |-> value.rows[i].other]
  BY RowsOfValue DEF RowsOf
<1> QED
  BY <1>1 DEF ListFits, RowFits

\* A screen that is drawn again
LEMMA ScreenFits ==
    ASSUME CallInv, RowInv, TypeInv', NEW w \in Users, Screen(w),
           ListFits(w, heardList'[w], pc, req, told),
           \A i \in 1..Len(outbox'[w]) :
               PutRowsFit(outbox'[w][i], pc, req, told)
    PROVE  ShownRows'
<1> DEFINE value == ListOn(outbox'[w], heardList'[w], w)
<1>1. outbox'[w] \in Seq(Puts) /\ heardList'[w] \in ListValues
  BY DEF TypeInv, TypeOK
<1>2. value \in ListValues /\ ListFits(w, value, pc, req, told)
  BY <1>1, ListOnFits, ListOnType
<1>3. /\ shown'[w] = shown[w] \cup RowsOf(value)
      /\ \A u \in Users \ {w} : shown'[u] = shown[u]
  BY DEF Screen, CallInv, TypeInv, TypeOK
<1> HIDE DEF value
<1>4. \A offer \in RowsOf(value) : Party(w, offer.conv, offer.other)
  BY <1>2, OffersFit
<1> QED
  BY <1>3, <1>4 DEF RowInv, ShownRows

\* The calls go on, and what is new in a list or a queue fits
LEMMA RowAfter ==
    ASSUME CallInv, RowInv, ListsHeard, Going, ShownRows', CallParties',
           \A u \in Users : \/ convs'[u] = convs[u]
                            \/ ListFits(u, convs'[u], pc', req', told'),
           \A w \in Users : \A i \in 1..Len(outbox'[w]) :
              \/ \E j \in 1..Len(outbox[w]) : outbox'[w][i] = outbox[w][j]
              \/ PutRowsFit(outbox'[w][i], pc', req', told')
    PROVE  RowInv'
<1>1. StoredRows'
  <2> SUFFICES ASSUME NEW u \in Users
               PROVE  ListFits(u, convs'[u], pc', req', told')
    BY DEF StoredRows
  <2>1. convs[u] \in ListValues /\ ListFits(u, convs[u], pc, req, told)
    BY DEF CallInv, TypeInv, TypeOK, RowInv, StoredRows
  <2> QED
    BY <2>1, ListFitsKept
<1>2. QueuedRows'
  <2> SUFFICES ASSUME NEW w \in Users, NEW i \in 1..Len(outbox'[w]),
                      NEW j \in 1..Len(outbox[w]), outbox'[w][i] = outbox[w][j]
               PROVE  PutRowsFit(outbox'[w][i], pc', req', told')
    BY DEF QueuedRows
  <2>1. PICK p \in Puts : p = outbox[w][j]
    BY QueueElements DEF CallInv
  <2>2. /\ PutFits(w, p, pc, req) /\ p.op \in Ops
        /\ PutRowsFit(p, pc, req, told)
    BY <2>1, PutKinds DEF CallInv, PutsAgree, RowInv, QueuedRows
  <2>3. req'[p.op] = req[p.op]
    BY <2>2 DEF PutFits, Going
  <2>4. p.to \in ListWrites => p.list \in ListValues
    BY PutKinds
  <2>5. PutRowsFit(p, pc', req', told')
    BY <2>2, <2>3, <2>4, ListFitsKept DEF PutRowsFit, OwnerIn
  <2> QED
    BY <2>1, <2>5
<1>3. HeardRows'
  <2> SUFFICES ASSUME NEW u \in Users
               PROVE  ListFits(u, heardList'[u], pc', req', told')
    BY DEF HeardRows
  <2>1. /\ convs[u] \in ListValues /\ ListFits(u, convs[u], pc, req, told)
        /\ heardList[u] \in ListValues /\ ListFits(u, heardList[u], pc, req, told)
    BY DEF CallInv, TypeInv, TypeOK, RowInv, StoredRows, HeardRows
  <2>2. CASE heardList'[u] = heardList[u]
    BY <2>1, <2>2, ListFitsKept
  <2>3. CASE heardList'[u] = convs[u]
    BY <2>1, <2>3, ListFitsKept
  <2>4. CASE heardList'[u] = convs'[u]
    BY <1>1, <2>4 DEF StoredRows
  <2> QED
    BY <2>2, <2>3, <2>4 DEF ListsHeard
<1> QED
  BY <1>1, <1>2, <1>3 DEF RowInv

\* Calls that have their arguments keep them
LEMMA PartiesKept ==
    ASSUME RowInv, UNCHANGED req, \A q \in Ops : pc'[q] # "idle" => pc[q] # "idle"
    PROVE  CallParties'
BY DEF RowInv, CallParties

LEMMA CallRow ==
    ASSUME CallInv, ChainInv, RowInv, NEW o \in Ops, pc[o] # "idle"
    PROVE  /\ req[o].me \in Users /\ req[o].other \in Users
           /\ req[o].conv \in ConvIds
           /\ Party(req[o].me, req[o].conv, req[o].other)
           /\ Party(req[o].other, req[o].conv, req[o].me)
           /\ Stage(pc[o], req[o].kind, told[o], peer[o])
BY RequestType, ChainTypes DEF CallInv, RowInv, CallParties, Party

----------------------------------------------------------------------------
(* One lemma for each action                                               *)

LEMMA PressRows ==
    ASSUME CallInv, ChainInv, RowInv, ListsHeard, NEW o \in Ops, Press(o)
    PROVE  RowInv'
<1>1. UNCHANGED <<convs, outbox, shown, told>> /\ pc[o] = "idle"
  BY DEF Press, CreateNewConversation, SendMessage, heard, history
<1>2. \A q \in Ops \ {o} : pc'[q] = pc[q] /\ req'[q] = req[q]
  BY ChainTypes DEF Press, CreateNewConversation, SendMessage, Goto
<1>3. Party(req'[o].me, req'[o].conv, req'[o].other)
  <2>1. ASSUME NEW me, NEW other, NEW at, CreateNewConversation(o, me, other, at)
        PROVE  Party(req'[o].me, req'[o].conv, req'[o].other)
    <3>1. /\ req'[o].me = me /\ req'[o].other = other
          /\ req'[o].conv = [to |-> other, from |-> me, at |-> at]
      BY <2>1, ChainTypes DEF CreateNewConversation
    <3> QED
      BY <3>1 DEF Party
  <2>2. ASSUME NEW me \in Users, NEW row \in shown[me], SendMessage(o, me, row)
        PROVE  Party(req'[o].me, req'[o].conv, req'[o].other)
    <3>1. /\ req'[o].me = me /\ req'[o].other = row.other
          /\ req'[o].conv = row.conv
      BY <2>2, ChainTypes DEF SendMessage
    <3> QED
      BY <3>1 DEF RowInv, ShownRows
  <2> QED
    BY <2>1, <2>2 DEF Press
<1>4. Going
  BY <1>1, <1>2 DEF Going, Early
<1>5. CallParties' /\ ShownRows'
  BY <1>1, <1>2, <1>3 DEF RowInv, CallParties, ShownRows
<1> QED
  BY <1>1, <1>4, <1>5, RowAfter

LEMMA UserNodeArrivesRows ==
    ASSUME CallInv, ChainInv, RowInv, ListsHeard, DistinctCreations,
           NEW o \in Ops, UserNodeArrives(o)
    PROVE  RowInv'
<1> DEFINE r == req[o]
           old == NodeList(r.me)
           row == Row(r.conv, r.other, o)
           value == List(AppendRow(old, row))
           p == ListPut(o, "user", value)
<1>1. /\ UNCHANGED <<convs, req, told>> /\ pc[o] = "userRead"
      /\ \/ pc' = [pc EXCEPT ![o] = "failed"] /\ UNCHANGED <<outbox, shown>>
         \/ /\ pc' = [pc EXCEPT ![o] = "userWrite"] /\ Put(r.me, p)
            /\ shown' = [shown EXCEPT ![r.me] = @ \cup RowsOf(value)]
            /\ r.me \in Registered
  BY DEF UserNodeArrives, Goto, heard, history
<1>2. /\ r.me \in Users /\ r.other \in Users /\ r.conv \in ConvIds
      /\ Party(r.me, r.conv, r.other) /\ r.kind = "create"
  BY <1>1, CallRow DEF Stage, Creating
<1>3. Going
  BY <1>1, ChainTypes DEF Going, Early
<1>4. CallParties'
  BY <1>1, ChainTypes, PartiesKept
<1>5. CASE UNCHANGED <<outbox, shown>>
  <2>1. ShownRows'
    BY <1>5 DEF RowInv, ShownRows
  <2> QED
    BY <1>1, <1>3, <1>4, <1>5, <2>1, RowAfter
<1>6. CASE /\ pc' = [pc EXCEPT ![o] = "userWrite"] /\ Put(r.me, p)
           /\ shown' = [shown EXCEPT ![r.me] = @ \cup RowsOf(value)]
           /\ r.me \in Registered
  <2>1. pc'[o] = "userWrite" /\ req' = req
    BY <1>1, <1>6, ChainTypes
  <2>2. old \in ListValues /\ ListFits(r.me, old, pc, req, told)
    BY <1>2, NodeListFits
  <2>3. ListFits(r.me, old, pc', req', told')
    BY <1>3, <2>2, ListFitsKept
  <2>4. row \in Rows /\ row.id = r.conv /\ row.other = r.other /\ row.latest = o
    BY <1>2 DEF Row, Rows
  <2>5. RowFits(r.me, row, pc', req', told')
    BY <1>2, <1>6, <2>1, <2>4 DEF RowFits, Early
  <2>6. ASSUME DistinctSeconds, NEW i \in 1..Len(old.rows)
        PROVE  old.rows[i].id # row.id
    <3>1. PICK q \in Ops : /\ req[q].kind = "create"
                           /\ req[q].conv = old.rows[i].id
                           /\ pc[q] \notin Early
      BY <2>2 DEF ListFits, RowFits
    <3>2. q # o
      BY <1>1, <3>1 DEF Early
    <3> QED
      BY <1>2, <2>4, <2>6, <3>1, <3>2
      DEF DistinctCreations, ConversationIdsDistinct
  <2> HIDE DEF old, row
  <2>7. ListFits(r.me, value, pc', req', told')
    BY <2>2, <2>3, <2>4, <2>5, <2>6, AppendedRowsFit
  <2>8. value \in ListValues /\ p \in Puts
    BY <1>1, UserPutType DEF old, row, CallInv
  <2>9. /\ p.to = "user" /\ p.op = o /\ p.list = value
    BY DEF ListPut
  <2> HIDE DEF value, p
  <2>10. PutRowsFit(p, pc', req', told')
    BY <2>1, <2>7, <2>9 DEF PutRowsFit, OwnerIn
  <2>11. ShownRows'
    <3>1. /\ shown'[r.me] = shown[r.me] \cup RowsOf(value)
          /\ \A u \in Users \ {r.me} : shown'[u] = shown[u]
      BY <1>2, <1>6 DEF CallInv, TypeInv, TypeOK
    <3>2. \A offer \in RowsOf(value) : Party(r.me, offer.conv, offer.other)
      BY <2>7, <2>8, OffersFit
    <3> QED
      BY <3>1, <3>2 DEF RowInv, ShownRows
  <2>12. \A w \in Users : \A i \in 1..Len(outbox'[w]) :
            \/ \E j \in 1..Len(outbox[w]) : outbox'[w][i] = outbox[w][j]
            \/ PutRowsFit(outbox'[w][i], pc', req', told')
    <3>1. \A w \in Users : \A i \in 1..Len(outbox'[w]) :
             \/ \E j \in 1..Len(outbox[w]) : outbox'[w][i] = outbox[w][j]
             \/ outbox'[w][i] = p
      BY <1>2, <1>6, <2>8, PutElements DEF CallInv
    <3> QED
      BY <2>10, <3>1
  <2> QED
    BY <1>1, <1>3, <1>4, <2>11, <2>12, RowAfter
<1> QED
  BY <1>1, <1>5, <1>6

LEMMA PeerListArrivesRows ==
    ASSUME CallInv, ChainInv, Creators, RowInv, ListsHeard,
           NEW o \in Ops, PeerListArrives(o)
    PROVE  RowInv'
<1> DEFINE r == req[o]
           row == Row(r.conv, r.me, o)
<1>1. /\ UNCHANGED <<convs, pc, req, shown, told>> /\ peer[o] = "read"
      /\ pc[o] # "idle"
  BY ChainTypes DEF PeerListArrives, heard, history
<1>2. /\ r.me \in Users /\ Party(r.other, r.conv, r.me)
      /\ r.kind = "create" /\ pc[o] \notin Early /\ r.me \in Registered
  BY <1>1, CallRow DEF Stage, Creators, Creator
<1>3. Going /\ CallParties' /\ ShownRows'
  BY <1>1, PartiesKept DEF Going, Early, RowInv, ShownRows
<1>4. RowFits(r.other, row, pc, req, told)
  BY <1>1, <1>2 DEF RowFits, Row
<1> HIDE DEF row
<1>5. ListFits(r.other, List(<<row>>), pc, req, told)
  BY <1>4, OneRowFits
<1>6. ListFits(r.other, IdString, pc, req, told)
  BY NoRowsFit DEF IdString
<1>7. PICK p \in Puts : /\ Put(r.me, p)
                        /\ \/ p = ListPut(o, "entry", List(<<row>>))
                           \/ p = ListPut(o, "id", IdString)
  BY <1>1, PeerPutTypes DEF PeerListArrives, CallInv, row
<1>8. PutRowsFit(p, pc', req', told')
  <2>1. /\ p.op = o /\ p.to \in {"entry", "id"}
        /\ p.list = List(<<row>>) \/ p.list = IdString
    BY <1>7 DEF ListPut
  <2> QED
    BY <1>1, <1>5, <1>6, <2>1 DEF PutRowsFit, OwnerIn
<1>9. \A w \in Users : \A i \in 1..Len(outbox'[w]) :
          \/ \E j \in 1..Len(outbox[w]) : outbox'[w][i] = outbox[w][j]
          \/ PutRowsFit(outbox'[w][i], pc', req', told')
  <2>1. \A w \in Users : \A i \in 1..Len(outbox'[w]) :
            \/ \E j \in 1..Len(outbox[w]) : outbox'[w][i] = outbox[w][j]
            \/ outbox'[w][i] = p
    BY <1>2, <1>7, PutElements DEF CallInv
  <2> QED
    BY <1>8, <2>1
<1> QED
  BY <1>1, <1>3, <1>9, RowAfter

LEMMA LogPutFits ==
    ASSUME NEW o, NEW to \in LogWrites, NEW log, NEW at, NEW rq, NEW done
    PROVE  PutRowsFit(LogPut(o, to, log), at, rq, done)
BY DEF PutRowsFit, LogPut, ListWrites, LogWrites

LEMMA LogArrivesRows ==
    ASSUME CallInv, ChainInv, RowInv, ListsHeard, NEW o \in Ops, LogArrives(o)
    PROVE  RowInv'
<1> DEFINE r == req[o]
           p == LogPut(o, "log", Append(SeenLog(r.me, r.conv), o))
<1>1. /\ UNCHANGED <<convs, req, told, shown>> /\ pc[o] = "logRead"
      /\ \/ pc' = [pc EXCEPT ![o] = "failed"] /\ UNCHANGED outbox
         \/ pc' = [pc EXCEPT ![o] = "logWrite"] /\ Put(r.me, p)
  BY DEF LogArrives, Goto
<1>2. r.me \in Users /\ p \in Puts
  BY <1>1, RequestType, LogArrivesPutType DEF CallInv
<1>3. Going /\ CallParties' /\ ShownRows'
  BY <1>1, ChainTypes, PartiesKept DEF Going, Early, RowInv, ShownRows
<1>4. PutRowsFit(p, pc', req', told')
  BY LogPutFits DEF LogWrites
<1> HIDE DEF p
<1>5. \A w \in Users : \A i \in 1..Len(outbox'[w]) :
          \/ \E j \in 1..Len(outbox[w]) : outbox'[w][i] = outbox[w][j]
          \/ PutRowsFit(outbox'[w][i], pc', req', told')
  <2>1. CASE UNCHANGED outbox
    BY <2>1
  <2>2. CASE Put(r.me, p)
    <3>1. \A w \in Users : \A i \in 1..Len(outbox'[w]) :
             \/ \E j \in 1..Len(outbox[w]) : outbox'[w][i] = outbox[w][j]
             \/ outbox'[w][i] = p
      BY <1>2, <2>2, PutElements DEF CallInv
    <3> QED
      BY <1>4, <3>1
  <2> QED
    BY <1>1, <2>1, <2>2
<1> QED
  BY <1>1, <1>3, <1>5, RowAfter

LEMMA RowsArriveRows ==
    ASSUME CallInv, ChainInv, RowInv, ListsHeard, NEW o \in Ops, RowsArrive(o)
    PROVE  RowInv'
<1> DEFINE r == req[o]
           mine == pc[o] = "mineRead"
           w0 == IF mine THEN r.me ELSE r.other
           to == IF mine THEN "mine" ELSE "theirs"
           old == SeenList(r.me, w0)
           value == List(WithLatest(old.rows, r.conv, o))
           p == ListPut(o, to, value)
<1>1. /\ UNCHANGED <<convs, req, told, shown>> /\ pc[o] \in {"mineRead", "peerRead"}
  BY DEF RowsArrive, heard, history
<1>2. \/ pc' = [pc EXCEPT ![o] = "failed"] /\ UNCHANGED outbox
      \/ /\ pc' = [pc EXCEPT ![o] = IF mine THEN "mineWrite" ELSE "peerWrite"]
         /\ Put(r.me, p)
  BY DEF RowsArrive, Goto
<1>3. /\ r.me \in Users /\ r.other \in Users /\ r.conv \in ConvIds
      /\ "log" \in told[o] /\ p \in Puts
  BY <1>1, CallRow, RowsPutType DEF Stage, AfterLog, CallInv
<1>4. Going /\ CallParties' /\ ShownRows'
  <2>1. pc'[o] \notin Early
        /\ \A q \in Ops \ {o} : pc'[q] = pc[q]
    BY <1>2, ChainTypes DEF Early
  <2>2. \A q \in Ops : pc'[q] # "idle" => pc[q] # "idle"
    BY <1>1, <2>1 DEF Early
  <2> QED
    BY <1>1, <2>1, <2>2, PartiesKept DEF Going, Early, RowInv, ShownRows
<1>5. w0 \in Users
  BY <1>3
<1>6. old \in ListValues /\ ListFits(w0, old, pc, req, told)
  BY <1>3, <1>5, SeenListFits
<1> HIDE DEF old
<1>7. ListFits(w0, value, pc, req, told)
  BY <1>1, <1>3, <1>6, UpdatedRowsFit
<1>8. /\ p.op = o /\ p.to = to /\ p.list = value
      /\ w0 = OwnerIn(p, req)
  BY DEF ListPut, OwnerIn
<1> HIDE DEF value, p
<1>9. value \in ListValues
  BY <1>3, <1>8, PutKinds DEF ListWrites
<1>10. PutRowsFit(p, pc', req', told')
  BY <1>1, <1>4, <1>7, <1>8, <1>9, ListFitsKept DEF PutRowsFit
<1>11. \A w \in Users : \A i \in 1..Len(outbox'[w]) :
          \/ \E j \in 1..Len(outbox[w]) : outbox'[w][i] = outbox[w][j]
          \/ PutRowsFit(outbox'[w][i], pc', req', told')
  <2>1. CASE UNCHANGED outbox
    BY <2>1
  <2>2. CASE Put(r.me, p)
    <3>1. \A w \in Users : \A i \in 1..Len(outbox'[w]) :
             \/ \E j \in 1..Len(outbox[w]) : outbox'[w][i] = outbox[w][j]
             \/ outbox'[w][i] = p
      BY <1>3, <2>2, PutElements DEF CallInv
    <3> QED
      BY <1>10, <3>1
  <2> QED
    BY <1>2, <2>1, <2>2
<1> QED
  BY <1>1, <1>4, <1>11, RowAfter

LEMMA QuitRows ==
    ASSUME CallInv, RowInv, ListsHeard, TypeInv', NEW u \in Users, Quit(u),
           UNCHANGED <<convs, req, told>>
    PROVE  RowInv'
<1>1. Going /\ \A q \in Ops : pc'[q] # "idle" => pc[q] # "idle"
  BY DEF Quit, Active, Going, Early, CallInv, TypeInv, TypeOK
<1>2. ShownRows'
  <2>1. /\ shown'[u] = RowsOf(convs[u])
        /\ \A w \in Users \ {u} : shown'[w] = shown[w]
    BY DEF Quit, CallInv, TypeInv, TypeOK
  <2>2. convs[u] \in ListValues /\ ListFits(u, convs[u], pc, req, told)
    BY DEF CallInv, TypeInv, TypeOK, RowInv, StoredRows
  <2>3. \A offer \in RowsOf(convs[u]) : Party(u, offer.conv, offer.other)
    BY <2>2, OffersFit
  <2> QED
    BY <2>1, <2>3 DEF RowInv, ShownRows
<1>3. \A w \in Users : \A i \in 1..Len(outbox'[w]) :
          \E j \in 1..Len(outbox[w]) : outbox'[w][i] = outbox[w][j]
  BY QuitElements DEF CallInv
<1> QED
  BY <1>1, <1>2, <1>3, PartiesKept, RowAfter

\* An answer takes a put away, and may bring a message array
LEMMA AnswerRows ==
    ASSUME CallInv, RowInv, ListsHeard, TypeInv', NEW u \in Users, outbox[u] # <<>>,
           NEW more \in Seq(Puts), Answered(u, more), Screen(u),
           \A j \in 1..Len(more) : more[j].to \in LogWrites,
           UNCHANGED <<convs, req, told, heardList>>,
           \A q \in Ops : \/ pc'[q] = pc[q]
                          \/ /\ pc[q] # "idle"
                             /\ pc'[q] \notin Early
    PROVE  RowInv'
<1>1. Going /\ \A q \in Ops : pc'[q] # "idle" => pc[q] # "idle"
  BY DEF Going, Early
<1>2. \A w \in Users : \A i \in 1..Len(outbox'[w]) :
          \/ \E j \in 1..Len(outbox[w]) : outbox'[w][i] = outbox[w][j]
          \/ outbox'[w][i].to \in LogWrites
  <2>1. \A w \in Users : \A i \in 1..Len(outbox'[w]) :
            \/ \E j \in 1..Len(outbox[w]) : outbox'[w][i] = outbox[w][j]
            \/ \E j \in 1..Len(more) : outbox'[w][i] = more[j]
    BY AnsweredElements DEF CallInv
  <2> QED
    BY <2>1
<1>3. \A i \in 1..Len(outbox'[u]) : PutRowsFit(outbox'[u][i], pc, req, told)
  BY <1>2 DEF RowInv, QueuedRows, PutRowsFit, ListWrites, LogWrites
<1>4. ShownRows'
  BY <1>3, ScreenFits DEF RowInv, HeardRows
<1>5. \A w \in Users : \A i \in 1..Len(outbox'[w]) :
          \/ \E j \in 1..Len(outbox[w]) : outbox'[w][i] = outbox[w][j]
          \/ PutRowsFit(outbox'[w][i], pc', req', told')
  BY <1>2 DEF PutRowsFit, ListWrites, LogWrites
<1> QED
  BY <1>1, <1>4, <1>5, PartiesKept, RowAfter

LEMMA FinishCreatingConversationRows ==
    ASSUME CallInv, RowInv, ListsHeard, TypeInv', NEW u \in Users,
           FinishCreatingConversation(u)
    PROVE  RowInv'
<1> DEFINE p == LogPut(outbox[u][1].op, "opening", <<outbox[u][1].op>>)
           more == <<p>>
<1>1. /\ UNCHANGED <<convs, req, told>> /\ outbox[u][1].to = "user"
      /\ outbox[u] # <<>> /\ 1 \in 1..Len(outbox[u]) /\ outbox[u][1].op \in Ops
  BY FirstPut DEF FinishCreatingConversation, CallInv
<1>2. CASE u \in DottedLocale
  BY <1>1, <1>2, QuitRows DEF FinishCreatingConversation
<1>3. CASE u \notin DottedLocale
  <2>1. PICK o \in Ops : o = outbox[u][1].op
    BY <1>1
  <2>2. /\ Answered(u, more) /\ Screen(u) /\ UNCHANGED heardList
        /\ pc' = [pc EXCEPT ![o] = "openWrite"]
    BY <1>3, <2>1 DEF FinishCreatingConversation, Goto, heard
  <2>3. pc[o] = "userWrite"
    BY <1>1, <2>1 DEF CallInv, PutsAgree, PutFits
  <2>4. \A q \in Ops : \/ pc'[q] = pc[q]
                       \/ pc[q] # "idle" /\ pc'[q] \notin Early
    BY <2>2, <2>3 DEF Early, CallInv, TypeInv, TypeOK
  <2>5. more \in Seq(Puts) /\ \A j \in 1..Len(more) : more[j].to \in LogWrites
    <3>1. p \in Puts /\ p.to \in LogWrites
      BY <1>1, OpeningPutType DEF LogPut, LogWrites
    <3> HIDE DEF p
    <3> QED
      BY <3>1
  <2> HIDE DEF more
  <2> QED
    BY <1>1, <2>2, <2>4, <2>5, AnswerRows
<1> QED
  BY <1>2, <1>3

LEMMA AnswerOnlyRows ==
    ASSUME CallInv, RowInv, ListsHeard, TypeInv', NEW u \in Users, outbox[u] # <<>>,
           Answered(u, <<>>), Screen(u), UNCHANGED <<convs, req, told, heardList>>,
           UNCHANGED pc \/ \E where \in {"ok", "mineRead", "peerRead", "failed"} :
                               pc' = [pc EXCEPT ![outbox[u][1].op] = where]
    PROVE  RowInv'
<1> DEFINE more == <<>>
<1>1. more \in Seq(Puts) /\ Answered(u, more) /\ \A j \in 1..Len(more) : FALSE
  BY NoLength
<1> HIDE DEF more
<1>2. PICK o \in Ops : o = outbox[u][1].op
  BY FirstPut DEF CallInv
<1>3. pc[o] # "idle" /\ pc \in [Ops -> PcValues]
  BY <1>2, FirstPutStarted DEF CallInv, TypeInv, TypeOK
<1>4. \A q \in Ops : \/ pc'[q] = pc[q]
                     \/ pc[q] # "idle" /\ pc'[q] \notin Early
  BY <1>2, <1>3 DEF Early
<1> QED
  BY <1>1, <1>4, AnswerRows

LEMMA CompletedRows ==
    ASSUME CallInv, RowInv, ListsHeard, TypeInv', NEW u \in Users, Completed(u)
    PROVE  RowInv'
<1>1. /\ UNCHANGED <<convs, req, told, heardList>> /\ outbox[u] # <<>>
      /\ Answered(u, <<>>) /\ Screen(u)
  BY FirstPut DEF Completed, CallInv, heard, history
<1>2. UNCHANGED pc \/ \E where \in {"ok", "mineRead", "peerRead", "failed"} :
                          pc' = [pc EXCEPT ![outbox[u][1].op] = where]
  BY DEF Completed, Goto
<1> QED
  BY <1>1, <1>2, AnswerOnlyRows

LEMMA RefusedRows ==
    ASSUME CallInv, RowInv, ListsHeard, TypeInv', NEW u \in Users, Refused(u)
    PROVE  RowInv'
<1>1. /\ UNCHANGED <<convs, req, told, heardList>> /\ outbox[u] # <<>>
      /\ Answered(u, <<>>) /\ Screen(u)
  BY DEF Refused, heard, history
<1>2. UNCHANGED pc \/ \E where \in {"ok", "mineRead", "peerRead", "failed"} :
                          pc' = [pc EXCEPT ![outbox[u][1].op] = where]
  BY DEF Refused, Goto
<1> QED
  BY <1>1, <1>2, AnswerOnlyRows

LEMMA ServerAppliesRows ==
    ASSUME CallInv, RowInv, ListsHeard, TypeInv', NEW u \in Users, ServerApplies(u)
    PROVE  RowInv'
<1> DEFINE k == applied[u] + 1
<1>1. UNCHANGED <<outbox, pc, req>> /\ k \in 1..Len(outbox[u])
  BY NextPut DEF ServerApplies, CallInv
<1>2. PICK p \in Puts : p = outbox[u][k]
  BY <1>1, QueueElements DEF CallInv
<1>3. /\ p.op \in Ops /\ PutFits(u, p, pc, req) /\ PutRowsFit(p, pc, req, told)
  BY <1>1, <1>2, PutKinds DEF CallInv, PutsAgree, RowInv, QueuedRows
<1>4. PICK w \in Users : w = Owner(p)
  BY <1>3, RequestType DEF CallInv, PutFits, Owner
<1>5. /\ told' = [told EXCEPT ![p.op] = @ \cup {p.to}]
      /\ Screen(u) /\ heardList'[u] = convs'[u]
      /\ \/ p.to \in ListWrites /\ convs' = [convs EXCEPT ![w] = p.list]
         \/ UNCHANGED convs
  BY <1>2, <1>4 DEF ServerApplies, HeardBy, CallInv, TypeInv, TypeOK
<1>6. Going /\ CallParties'
  BY <1>1, <1>3, <1>5, PartiesKept DEF Going, CallInv, TypeInv, TypeOK
<1>7. \A x \in Users : \/ convs'[x] = convs[x]
                        \/ (x = w /\ p.to \in ListWrites /\ convs'[x] = p.list)
  <2>1. convs \in [Users -> ListValues]
    BY DEF CallInv, TypeInv, TypeOK
  <2>2. CASE p.to \in ListWrites /\ convs' = [convs EXCEPT ![w] = p.list]
    BY <2>1, <2>2
  <2>3. CASE UNCHANGED convs
    BY <2>3
  <2> QED
    BY <1>5, <2>2, <2>3
<1>8. p.to \in ListWrites => /\ ListFits(w, p.list, pc, req, told)
                             /\ p.list \in ListValues
  BY <1>3, <1>4, PutKinds DEF PutRowsFit, Owner, OwnerIn
<1>9. ListFits(u, heardList'[u], pc, req, told)
  BY <1>5, <1>7, <1>8 DEF RowInv, StoredRows
<1>10. ShownRows'
  BY <1>1, <1>5, <1>9, ScreenFits DEF RowInv, QueuedRows
<1>11. p.to \in ListWrites => ListFits(w, p.list, pc', req', told')
  BY <1>6, <1>8, ListFitsKept
<1> QED
  BY <1>1, <1>6, <1>7, <1>10, <1>11, RowAfter

LEMMA HearsRows ==
    ASSUME CallInv, RowInv, ListsHeard, TypeInv', NEW u \in Users, Hears(u)
    PROVE  RowInv'
<1>1. UNCHANGED <<convs, outbox, pc, req, told>>
  BY DEF Hears, HearsList, HearsLog, history
<1>2. Going /\ CallParties'
  BY <1>1, PartiesKept DEF Going
<1>3. ShownRows'
  <2>1. CASE HearsList(u)
    <3>1. Screen(u) /\ heardList'[u] = convs[u]
      BY <2>1 DEF HearsList, CallInv, TypeInv, TypeOK
    <3>2. /\ ListFits(u, heardList'[u], pc, req, told)
          /\ \A i \in 1..Len(outbox'[u]) : PutRowsFit(outbox'[u][i], pc, req, told)
      BY <1>1, <3>1 DEF RowInv, StoredRows, QueuedRows
    <3> QED
      BY <3>1, <3>2, ScreenFits
  <2>2. CASE UNCHANGED shown
    BY <2>2 DEF RowInv, ShownRows
  <2> QED
    BY <2>1, <2>2 DEF Hears, HearsLog
<1>4. \A w \in Users : \A i \in 1..Len(outbox'[w]) :
          \E j \in 1..Len(outbox[w]) : outbox'[w][i] = outbox[w][j]
  BY <1>1
<1> QED
  BY <1>1, <1>2, <1>3, <1>4, RowAfter

LEMMA RowStep ==
    /\ CallInv /\ ChainInv /\ DistinctCreations /\ Creators
    /\ RowInv /\ [Next]_vars
    => RowInv'
<1> SUFFICES ASSUME CallInv, ChainInv, DistinctCreations, Creators, RowInv,
                    [Next]_vars
             PROVE  RowInv'
  OBVIOUS
<1>1. TypeInv' /\ ListsHeard
  BY TypeStep, ListsHeardStep DEF CallInv
<1>2. CASE UNCHANGED vars
  BY <1>2
  DEF vars, heard, history, RowInv, StoredRows, QueuedRows, ShownRows, HeardRows,
      CallParties
<1>3. ASSUME NEW o \in Ops, Press(o)
      PROVE  RowInv'
  BY <1>1, <1>3, PressRows
<1>4. ASSUME NEW o \in Ops, Arrives(o)
      PROVE  RowInv'
  BY <1>1, <1>4, UserNodeArrivesRows, LogArrivesRows, RowsArriveRows DEF Arrives
<1>5. ASSUME NEW o \in Ops, PeerListArrives(o)
      PROVE  RowInv'
  BY <1>1, <1>5, PeerListArrivesRows
<1>6. ASSUME NEW u \in Users, Replies(u)
      PROVE  RowInv'
  BY <1>1, <1>6, FinishCreatingConversationRows, CompletedRows DEF Replies
<1>7. ASSUME NEW u \in Users, Refused(u)
      PROVE  RowInv'
  BY <1>1, <1>7, RefusedRows
<1>8. ASSUME NEW u \in Users, ServerApplies(u)
      PROVE  RowInv'
  BY <1>1, <1>8, ServerAppliesRows
<1>9. ASSUME NEW u \in Users, Reconnects(u)
      PROVE  RowInv'
  BY <1>9
  DEF Reconnects, heard, history, RowInv, StoredRows, QueuedRows, ShownRows,
      HeardRows, CallParties
<1>10. ASSUME NEW u \in Users, Kill(u)
       PROVE  RowInv'
  BY <1>1, <1>10, QuitRows DEF Kill, heard, history
<1>11. ASSUME NEW u \in Users, Hears(u)
       PROVE  RowInv'
  BY <1>1, <1>11, HearsRows
<1> QED
  BY <1>2, <1>3, <1>4, <1>5, <1>6, <1>7, <1>8, <1>9, <1>10, <1>11 DEF Next

LEMMA RowInit == Init => RowInv
<1> SUFFICES ASSUME Init PROVE RowInv
  OBVIOUS
<1>1. StoredRows
  BY NoRowsFit DEF Init, StoredRows, NoList
<1>2. QueuedRows
  <2>1. \A u \in Users : Len(outbox[u]) = 0
    BY NoLength DEF Init
  <2> SUFFICES ASSUME NEW u \in Users, NEW i \in 1..Len(outbox[u])
               PROVE  FALSE
    BY DEF QueuedRows
  <2> QED
    BY <2>1
<1>3. ShownRows /\ CallParties
  BY DEF Init, ShownRows, CallParties
<1>4. HeardRows
  BY NoRowsFit DEF Init, HeardRows, NoList
<1> QED
  BY <1>1, <1>2, <1>3, <1>4 DEF RowInv

\* The invariant of the rows, with those it needs.
LEMMA RowInvCorrect ==
    Spec => [](CallInv /\ ChainInv /\ Creators /\ RowInv)
<1> DEFINE Inv == /\ CallInv /\ OrderInv /\ ChainInv /\ DistinctCreations
                  /\ Creators /\ RowInv
<1>1. Init => Inv
  BY CallInvInit, OrderInit, ChainInit, DistinctCreationsInit, CreatorsInit,
     RowInit
<1>2. Inv /\ [Next]_vars => Inv'
  BY TypeStep, AgreeStep, OrderStep, ChainStep, DistinctCreationsStep,
     CreatorsStep, RowStep
  DEF CallInv
<1> QED
  BY <1>1, <1>2, PTL DEF Spec

LEMMA StoredRowFits ==
    ASSUME CallInv, RowInv, NEW u \in Users
    PROVE  /\ DOMAIN convs[u].rows = 1..Len(convs[u].rows)
           /\ ListFits(u, convs[u], pc, req, told)
BY RowsOfValue DEF CallInv, TypeInv, TypeOK, RowInv, StoredRows

\* Every row of a stored conversation list is about a conversation of the
\* list's owner and names the other party, whichever devices wrote the list
\* and however stale the copy they changed was: createNewConversation and
\* sendMessage never send a message to somebody else's list.
THEOREM RowsNamePeer == Spec => []EntryNamesPeer
<1>1. CallInv /\ RowInv => EntryNamesPeer
  BY StoredRowFits DEF EntryNamesPeer, ListFits, RowFits, Party
<1> QED
  BY <1>1, RowInvCorrect, PTL

\* The latest message that a row shows was sent to the row's conversation,
\* and a sendMessage's was stored in the conversation before the row showed
\* it.
THEOREM PreviewsBacked == Spec => []PreviewBacked
<1>1. CallInv /\ RowInv => PreviewBacked
  BY StoredRowFits DEF PreviewBacked, ListFits, RowFits
<1> QED
  BY <1>1, RowInvCorrect, PTL

\* While no two conversations get the same id, no list has two rows of one
\* conversation, so the first row that sendMessage finds is the only one.
THEOREM RowsUnique == Spec => []EntriesUnique
<1>1. CallInv /\ RowInv => EntriesUnique
  BY StoredRowFits DEF EntriesUnique, ListFits
<1> QED
  BY <1>1, RowInvCorrect, PTL

\* When nothing is in progress, a row of a list leads to messages unless its
\* creator's app or puts failed: the creation behind the row has answered
\* true, and its conversation has messages from then on.
THEOREM RowsReadable == Spec => []RowsReadableWhenQuiet
<1>1. CallInv /\ ChainInv /\ Creators /\ RowInv => RowsReadableWhenQuiet
  <2> SUFFICES ASSUME CallInv, ChainInv, Creators, RowInv, Quiet,
                      NEW u \in Users, NEW i \in DOMAIN convs[u].rows,
                      convs[u].rows[i].id.from \notin Faulty \cup DottedLocale
               PROVE  msgs[convs[u].rows[i].id] # <<>>
    BY DEF RowsReadableWhenQuiet
  <2>1. PICK q \in Ops : /\ req[q].kind = "create"
                         /\ req[q].conv = convs[u].rows[i].id
                         /\ pc[q] \notin Early /\ req[q].me \in Registered
    BY StoredRowFits DEF ListFits, RowFits
  <2>2. pc[q] \in {"ok", "failed", "killed"}
    BY <2>1 DEF Quiet, Active, Over, Early
  <2>3. pc[q] = "ok"
    BY <2>1, <2>2 DEF Creators, Creator
  <2>4. "opening" \in told[q]
    BY <2>1, <2>3 DEF ChainInv, Stages, Stage
  <2> QED
    BY <2>1, <2>4 DEF ChainInv, StoredLogs, LogWrites
<1> QED
  BY <1>1, RowInvCorrect, PTL
=============================================================================

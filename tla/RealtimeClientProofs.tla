------------------------ MODULE RealtimeClientProofs ------------------------
(***************************************************************************)
(* The client, for any locations, puts and faults, and any number of       *)
(* attempts to connect: it always goes on; its counts are those of what is *)
(* on its way; puts are sent in order.  With an observer that stays, the   *)
(* blocks run in order, the visible tree is the layers of the writes that  *)
(* are left, and the client is a queue of puts.                            *)
(***************************************************************************)
EXTENDS RealtimeClient, WriteTreeProofs, FiniteSetTheorems, TLAPS

\* A fetch is known by its attempt, and an open connection waits for none
FetchInv ==
    /\ attempt \in Nat
    /\ \A f \in fetching : f.n \in Nat /\ f.n <= attempt
    /\ \A f, g \in fetching : f.n = g.n => f = g
    /\ state \in Realtime => \A f \in fetching : f.n # attempt

\* Without a connection there are no messages
WireInv == state \notin Realtime => up = <<>> /\ down = <<>>

LinkInv == NeverStranded /\ FetchInv /\ WireInv

\* What scheduling an attempt from a disconnected state leaves behind
LEMMA Scheduled ==
    ASSUME NEW forced, NEW reasons, TryScheduleReconnect(forced, reasons),
           retry = "none" \/ reasons = {}
    PROVE  /\ reasons = {} => retry' # "none"
           /\ reasons # {} => retry' = "none"
    BY DEF TryScheduleReconnect

LEMMA FetchStep ==
    ASSUME LinkInv, [Next]_vars
    PROVE  FetchInv'
<1> USE DEF FetchInv
<1>1. FetchInv /\ NeverStranded
    BY DEF LinkInv
<1>2. ASSUME attempt' = attempt, fetching' = fetching,
             state' \in Realtime => state \in Realtime
      PROVE  FetchInv'
    BY <1>1, <1>2
<1>3. CASE Resume
    BY <1>2, <1>3 DEF Resume, ResumeForReason
<1>4. CASE Interrupt
    BY <1>2, <1>4 DEF Interrupt, InterruptForReason, OnDisconnect, Realtime
<1>5. CASE Reachable
    BY <1>2, <1>5 DEF Reachable
<1>6. CASE FetchToken
    <2> DEFINE new == [n |-> attempt', forced |-> retry = "forced"]
    <2>1. /\ attempt' = attempt + 1 /\ fetching' = fetching \cup {new}
          /\ state' \notin Realtime
        BY <1>6 DEF FetchToken, Realtime
    <2>2. new.n = attempt + 1
        BY <2>1
    <2>3. \A f \in fetching : f.n # new.n
        BY <1>1, <2>2
    <2> HIDE DEF new
    <2>4. \A f \in fetching' : f.n \in Nat /\ f.n <= attempt'
        BY <1>1, <2>1, <2>2
    <2>5. \A f, g \in fetching' : f.n = g.n => f = g
        BY <1>1, <2>1, <2>3
    <2> QED
        BY <1>1, <2>1, <2>4, <2>5
<1>7. ASSUME NEW f \in fetching, TokenFetched(f)
      PROVE  FetchInv'
    <2>1. attempt' = attempt /\ fetching' = fetching \ {f}
        BY <1>7 DEF TokenFetched
    <2>2. state' \in Realtime => f.n = attempt \/ state \in Realtime
        BY <1>7 DEF TokenFetched
    <2> QED
        BY <1>1, <2>1, <2>2
<1>8. ASSUME NEW f \in fetching, TokenFailed(f)
      PROVE  FetchInv'
    <2>1. attempt' = attempt /\ fetching' = fetching \ {f}
        BY <1>8 DEF TokenFailed
    <2>2. state' \in Realtime => state \in Realtime
        BY <1>8 DEF TokenFailed, Realtime
    <2> QED
        BY <1>1, <2>1, <2>2
<1>9. CASE OnReady
    BY <1>2, <1>9 DEF OnReady, Realtime
<1>10. CASE ConnectionLost \/ AuthRevoked
    BY <1>2, <1>10 DEF ConnectionLost, AuthRevoked, OnDisconnect, Realtime
<1>11. CASE App
    BY <1>2, <1>11 DEF App, PutData, Listen, Unlisten, RefreshAuthToken, link
<1>12. CASE Server
    BY <1>2, <1>12 DEF Server, ServerAnswers, link
<1>13. CASE OnDataMessage
    <2>1. state \in Realtime
        BY <1>13 DEF OnDataMessage, LinkInv, WireInv
    <2>2. attempt' = attempt /\ fetching' = fetching
        BY <1>13 DEF OnDataMessage, PutAnswered, ListenAnswered, AuthAnswered, link
    <2> QED
        BY <1>2, <2>1, <2>2
<1>14. CASE UNCHANGED vars
    BY <1>2, <1>14 DEF vars, link
<1> QED
    BY <1>3, <1>4, <1>5, <1>6, <1>7, <1>8, <1>9, <1>10, <1>11, <1>12, <1>13,
       <1>14 DEF Next, TokenAnswers

LEMMA WireStep ==
    ASSUME LinkInv, [Next]_vars
    PROVE  WireInv'
<1> USE DEF WireInv
<1>1. WireInv /\ FetchInv /\ NeverStranded
    BY DEF LinkInv
<1>2. ASSUME up' = up, down' = down, state \in Realtime => state' \in Realtime
      PROVE  WireInv'
    BY <1>1, <1>2
<1>3. ASSUME NEW forced, NEW reasons, OnDisconnect(forced, reasons)
      PROVE  WireInv'
    BY <1>3 DEF OnDisconnect
<1>4. CASE Resume
    BY <1>2, <1>4 DEF Resume, ResumeForReason, wire
<1>5. CASE Interrupt
    <2> PICK r \in {"repo_interrupt", "server_kill"} : InterruptForReason(r)
        BY <1>5 DEF Interrupt
    <2>1. CASE state \in Realtime
        BY <1>3, <2>1 DEF InterruptForReason
    <2>2. CASE state \notin Realtime
        BY <1>2, <2>2 DEF InterruptForReason, wire
    <2> QED
        BY <2>1, <2>2
<1>6. CASE Reachable
    BY <1>2, <1>6 DEF Reachable, wire
<1>7. CASE FetchToken
    <2>1. state \notin Realtime
        BY <1>1, <1>7 DEF FetchToken, NeverStranded, Realtime
    <2> QED
        BY <1>2, <1>7, <2>1 DEF FetchToken, wire
<1>8. ASSUME NEW f \in fetching, TokenFetched(f)
      PROVE  WireInv'
    BY <1>2, <1>8 DEF TokenFetched, wire, Realtime
<1>9. ASSUME NEW f \in fetching, TokenFailed(f)
      PROVE  WireInv'
    <2>1. f.n = attempt => state \notin Realtime
        BY <1>1 DEF FetchInv
    <2> QED
        BY <1>2, <1>9, <2>1 DEF TokenFailed, wire
<1>10. CASE OnReady
    BY <1>10 DEF OnReady, Realtime
<1>11. CASE ConnectionLost \/ AuthRevoked
    BY <1>3, <1>11 DEF ConnectionLost, AuthRevoked
<1>12. CASE App
    <2>1. /\ state' = state /\ down' = down
          /\ state \notin Realtime => up' = up
        BY <1>12 DEF App, PutData, Listen, Unlisten, RefreshAuthToken, link, wire,
                     connected, canSendWrites, Realtime
    <2> QED
        BY <1>1, <2>1
<1>13. CASE Server
    <2>1. state \in Realtime /\ state' = state
        BY <1>1, <1>13 DEF Server, ServerAnswers, link
    <2> QED
        BY <2>1
<1>14. CASE OnDataMessage
    <2>1. state \in Realtime
        BY <1>1, <1>14 DEF OnDataMessage
    <2> DEFINE r == Head(down).request
               ok == Head(down).ok
    <2>2. CASE PutAnswered(r) \/ ListenAnswered(r, ok)
        BY <2>1, <2>2 DEF PutAnswered, ListenAnswered, link
    <2>3. CASE AuthAnswered(r, ok)
        <3>1. CASE state' = "Connected"
            BY <3>1 DEF Realtime
        <3>2. CASE OnDisconnect(TRUE, interruptReasons)
            BY <1>3, <3>2
        <3> QED
            BY <2>3, <3>1, <3>2 DEF AuthAnswered
    <2> QED
        BY <1>14, <2>2, <2>3 DEF OnDataMessage
<1>15. CASE UNCHANGED vars
    BY <1>2, <1>15 DEF vars, link, wire
<1> QED
    BY <1>4, <1>5, <1>6, <1>7, <1>8, <1>9, <1>10, <1>11, <1>12, <1>13, <1>14,
       <1>15 DEF Next, TokenAnswers

\* Each step of the connection keeps NeverStranded, and the steps of puts and
\* listens leave the connection alone.
LEMMA StrandedStep ==
    ASSUME LinkInv, [Next]_vars
    PROVE  NeverStranded'
<1> USE DEF NeverStranded
<1>0. NeverStranded
    BY DEF LinkInv
<1> USE <1>0
<1>1. CASE Resume
    <2> PICK r \in {"waiting_for_open", "repo_interrupt"} : ResumeForReason(r)
        BY <1>1 DEF Resume
    <2>1. r \in interruptReasons /\ interruptReasons # {}
        BY DEF ResumeForReason
    <2>2. state = "Disconnected" /\ retry = "none"
        BY <2>1
    <2>3. /\ state' = state /\ attempt' = attempt /\ fetching' = fetching
          /\ TryScheduleReconnect(forceRefresh, interruptReasons')
        BY <2>2 DEF ResumeForReason
    <2> QED
        BY <2>2, <2>3, Scheduled
<1>2. CASE Interrupt
    <2> PICK r \in {"repo_interrupt", "server_kill"} : InterruptForReason(r)
        BY <1>2 DEF Interrupt
    <2>1. interruptReasons' # {} /\ state' = "Disconnected"
        BY DEF InterruptForReason, OnDisconnect
    <2>2. retry' = "none"
        <3>1. CASE state \in Realtime /\ OnDisconnect(forceRefresh, interruptReasons')
            <4>1. retry = "none"
                BY <3>1 DEF Realtime
            <4> QED
                BY <2>1, <3>1, <4>1, Scheduled DEF OnDisconnect
        <3>2. CASE ~(state \in Realtime /\ OnDisconnect(forceRefresh, interruptReasons'))
            BY <3>2 DEF InterruptForReason
        <3> QED
            BY <3>1, <3>2
    <2> QED
        BY <2>1, <2>2
<1>3. CASE Reachable
    <2>1. /\ state = "Disconnected" /\ state' = "Disconnected"
          /\ interruptReasons' = interruptReasons
          /\ TryScheduleReconnect(forceRefresh, interruptReasons)
        BY <1>3 DEF Reachable
    <2>2. retry = "none" \/ interruptReasons = {}
        OBVIOUS
    <2> QED
        BY <2>1, <2>2, Scheduled
<1>4. CASE FetchToken
    <2>1. [n |-> attempt', forced |-> retry = "forced"] \in fetching'
        BY <1>4 DEF FetchToken
    <2>2. \E f \in fetching' : f.n = attempt'
        BY <2>1
    <2> QED
        BY <1>4, <2>2 DEF FetchToken
<1>5. ASSUME NEW f \in fetching, TokenFetched(f)
      PROVE  NeverStranded'
    <2>1. CASE f.n = attempt /\ state = "GettingToken"
        BY <1>5, <2>1 DEF TokenFetched
    <2>2. CASE ~(f.n = attempt /\ state = "GettingToken")
        <3>1. /\ state' = state /\ retry' = retry /\ attempt' = attempt
              /\ interruptReasons' = interruptReasons
              /\ fetching' = fetching \ {f}
            BY <1>5, <2>2 DEF TokenFetched
        <3>2. state = "GettingToken" => \E g \in fetching' : g.n = attempt
            BY <2>2, <3>1
        <3> QED
            BY <3>1, <3>2
    <2> QED
        BY <2>1, <2>2
<1>6. ASSUME NEW f \in fetching, TokenFailed(f)
      PROVE  NeverStranded'
    <2>1. CASE f.n = attempt
        <3>1. /\ state' = "Disconnected" /\ interruptReasons' = interruptReasons
              /\ TryScheduleReconnect(forceRefresh, interruptReasons)
            BY <1>6, <2>1 DEF TokenFailed
        <3> QED
            BY <3>1, Scheduled
    <2>2. CASE f.n # attempt
        <3>1. /\ state' = state /\ retry' = retry /\ attempt' = attempt
              /\ interruptReasons' = interruptReasons
              /\ fetching' = fetching \ {f}
            BY <1>6, <2>2 DEF TokenFailed
        <3>2. state = "GettingToken" => \E g \in fetching' : g.n = attempt
            BY <2>2, <3>1
        <3> QED
            BY <3>1, <3>2
    <2> QED
        BY <2>1, <2>2
<1>7. CASE OnReady
    BY <1>7 DEF OnReady
<1>8. ASSUME NEW forced, OnDisconnect(forced, interruptReasons),
             interruptReasons' = interruptReasons
      PROVE  NeverStranded'
    <2>1. retry = "none" \/ interruptReasons = {}
        OBVIOUS
    <2> QED
        BY <1>8, <2>1, Scheduled DEF OnDisconnect
<1>9. CASE ConnectionLost
    BY <1>8, <1>9 DEF ConnectionLost
<1>10. CASE AuthRevoked
    BY <1>8, <1>10 DEF AuthRevoked
<1>11. CASE App
    BY <1>11 DEF App, PutData, Listen, Unlisten, RefreshAuthToken, link
<1>12. CASE Server
    BY <1>12 DEF Server, ServerAnswers, link
<1>13. CASE OnDataMessage
    <2> DEFINE r == Head(down).request
               ok == Head(down).ok
    <2>1. CASE PutAnswered(r)
        BY <2>1 DEF PutAnswered, link
    <2>2. CASE ListenAnswered(r, ok)
        BY <2>2 DEF ListenAnswered, link
    <2>3. CASE AuthAnswered(r, ok) /\ r.kind = "auth"
        <3>1. CASE ok /\ state' = "Connected" /\ retry' = retry
            <4>1. state \in Realtime
                BY <1>13 DEF OnDataMessage, LinkInv, WireInv
            <4> QED
                BY <2>3, <3>1, <4>1 DEF AuthAnswered, Realtime
        <3>2. CASE OnDisconnect(TRUE, interruptReasons)
            BY <1>8, <2>3, <3>2 DEF AuthAnswered
        <3> QED
            BY <2>3, <3>1, <3>2 DEF AuthAnswered
    <2> QED
        BY <1>13, <2>1, <2>2, <2>3 DEF OnDataMessage
<1>14. CASE UNCHANGED vars
    BY <1>14 DEF vars, link
<1> QED
    BY <1>1, <1>2, <1>3, <1>4, <1>5, <1>6, <1>7, <1>9, <1>10, <1>11, <1>12,
       <1>13, <1>14 DEF Next, TokenAnswers

\* Whatever is lost, refused, interrupted or late, a client that no reason
\* keeps away has a task or a fetch that takes it to the next connection.
THEOREM GoesOn == Spec => []NeverStranded
<1>1. Init => LinkInv
    BY DEF Init, LinkInv, NeverStranded, FetchInv, WireInv, Realtime
<1>2. LinkInv /\ [Next]_vars => LinkInv'
    BY StrandedStep, FetchStep, WireStep DEF LinkInv
<1>3. LinkInv => NeverStranded
    BY DEF LinkInv
<1> QED
    BY <1>1, <1>2, <1>3, PTL DEF Spec

----------------------------------------------------------------------------
(* The invariant of the messages                                           *)

Answers == [request : Requests, ok : BOOLEAN]

IsRestore(r) == r.kind = "auth" /\ r.restore

\* A connection that authenticates waits for the answer that restores its
\* state, and for one only; once it is restored there is none
RestoreFits(box, st) ==
    /\ st = "Authenticating" =>
          \E i \in 1..Len(box) :
             /\ IsRestore(box[i])
             /\ \A j \in 1..Len(box) : j < i => box[j].kind # "auth"
             /\ \A j \in 1..Len(box) : IsRestore(box[j]) => j = i
    /\ st = "Connected" => \A i \in 1..Len(box) : ~ IsRestore(box[i])
    /\ st \notin {"Authenticating", "Connected"} => box = <<>>

Count(box, kind) == Cardinality(Places(box, kind))

\* The puts among some messages are these, in their order
PutsAre(box, ids) ==
    /\ \A i \in 1..Len(box) : box[i].kind = "put" => box[i].id \in ids
    /\ \A p \in ids : \E i \in 1..Len(box) : box[i].kind = "put" /\ box[i].id = p
    /\ \A i, j \in 1..Len(box) :
          i < j /\ box[i].kind = "put" /\ box[j].kind = "put" => box[i].id < box[j].id

\* The puts that a connection has been given
Given(st, out) == IF st = "Connected" THEN out ELSE {}

\* Puts are answered in their order
IsInterval(out, n) == \E k \in 0..n : out = k + 1..n

\* A put whose block has not run has its write
WritesFit(out, waiting, all, n) ==
    /\ \A i \in 1..Len(waiting) : waiting[i] \in 1..n \ out
    /\ \A i, j \in 1..Len(waiting) : i # j => waiting[i] # waiting[j]
    /\ \A p \in out : Has(all, p)
    /\ \A i \in 1..Len(waiting) : Has(all, waiting[i])

LinkTypes ==
    /\ state \in States
    /\ interruptReasons \subseteq Reasons
    /\ retry \in {"none", "plain", "forced"}
    /\ attempt \in Nat
    /\ fetching \subseteq [n : Nat, forced : BOOLEAN]
    /\ authToken \in Tokens
    /\ forceRefresh \in BOOLEAN
    /\ credential \in Tokens
    /\ faults \in 0..MaxFaults

MessageTypes ==
    /\ up \in Seq(Requests)
    /\ down \in Seq(Answers)
    /\ listens \subseteq Queries
    /\ made \in [Queries -> 0..MaxListens]
    /\ \A q \in listens : made[q] # 0
    /\ unacked \in Nat
    /\ putCounter \in 0..MaxPuts
    /\ outstandingPuts \subseteq 1..MaxPuts
    /\ putsToAck \in Seq(1..MaxPuts)
    /\ ran \in Seq(1..MaxPuts)
    /\ last \in 0..MaxPuts
    /\ allWrites \in Seq(RecordsTo(MaxPuts))
    /\ visibleWrites \in TreesTo(MaxPuts)

MessageInv ==
    /\ RestoreFits(InFlight, state)
    /\ CountMatches
    /\ PutsAre(InFlight, Given(state, outstandingPuts))
    /\ IsInterval(outstandingPuts, putCounter)
    /\ WritesFit(outstandingPuts, putsToAck, allWrites, putCounter)

----------------------------------------------------------------------------
(* The invariant of the order, with a listen that stays                    *)

ListensStay ==
    /\ Permanent \subseteq listens
    /\ \A i \in 1..Len(down) :
          down[i].request.kind = "listen" /\ ~ down[i].ok =>
             down[i].request.query \in Denied

\* The puts in their order: those whose block has run, those that wait, and
\* those without an answer
BlocksFit(done, waiting, out, n) ==
    /\ \A i \in 1..Len(done) : done[i] = i
    /\ \A i \in 1..Len(waiting) : waiting[i] = Len(done) + i
    /\ Len(done) + Len(waiting) <= n
    /\ out = Len(done) + Len(waiting) + 1..n

WritesAre(all, done, n) ==
    /\ Len(all) = n - Len(done)
    /\ \A i \in 1..Len(all) : all[i].id = Len(done) + i

OrderInv ==
    /\ ListensStay
    /\ state = "Connected" /\ unacked = 0 => putsToAck = <<>>
    /\ BlocksFit(ran, putsToAck, outstandingPuts, putCounter)
    /\ WritesAre(allWrites, ran, putCounter)
    /\ VisibleIsLayered

----------------------------------------------------------------------------
(* Counting messages                                                       *)

LEMMA SameCount ==
    ASSUME NEW S, NEW T, IsFiniteSet(S), NEW f \in [S -> T],
           \A x, y \in S : f[x] = f[y] => x = y,
           \A z \in T : \E x \in S : f[x] = z
    PROVE  IsFiniteSet(T) /\ Cardinality(T) = Cardinality(S)
<1>1. f \in Bijection(S, T)
    BY DEF Bijection, Injection, Surjection, IsInjective
<1>2. ExistsBijection(S, T)
    BY <1>1 DEF ExistsBijection
<1> QED
    BY <1>2, FS_Bijection

LEMMA PlacesFinite ==
    ASSUME NEW T, NEW s \in Seq(T), NEW kind
    PROVE  /\ IsFiniteSet(Places(s, kind))
           /\ Count(s, kind) \in Nat
           /\ Places(s, kind) = {i \in 1..Len(s) : s[i].kind = kind}
<1>1. Len(s) \in Nat /\ DOMAIN s = 1..Len(s)
    OBVIOUS
<1>2. Places(s, kind) = {i \in 1..Len(s) : s[i].kind = kind}
    BY <1>1 DEF Places
<1>3. IsFiniteSet(1..Len(s))
    BY <1>1, FS_Interval
<1>4. IsFiniteSet(Places(s, kind))
    BY <1>2, <1>3, FS_Subset
<1> QED
    BY <1>2, <1>4, FS_CardinalityType DEF Count

LEMMA CountConcat ==
    ASSUME NEW T, NEW a \in Seq(T), NEW b \in Seq(T), NEW kind
    PROVE  Count(a \o b, kind) = Count(a, kind) + Count(b, kind)
<1> DEFINE n == Len(a)
           A == Places(a, kind)
           B == Places(b, kind)
           C == {i \in n + 1..n + Len(b) : b[i - n].kind = kind}
<1>1. /\ n \in Nat /\ Len(b) \in Nat
      /\ a \o b \in Seq(T) /\ Len(a \o b) = n + Len(b)
      /\ \A i \in 1..n + Len(b) :
            (a \o b)[i] = IF i <= n THEN a[i] ELSE b[i - n]
    BY ConcatProperties
<1>2. /\ IsFiniteSet(A) /\ A = {i \in 1..n : a[i].kind = kind}
      /\ IsFiniteSet(B) /\ B = {i \in 1..Len(b) : b[i].kind = kind}
      /\ Places(a \o b, kind) =
            {i \in 1..n + Len(b) : (a \o b)[i].kind = kind}
      /\ Count(a, kind) \in Nat /\ Count(b, kind) \in Nat
    <2>1. IsFiniteSet(A) /\ A = {i \in 1..n : a[i].kind = kind} /\ Count(a, kind) \in Nat
        BY PlacesFinite
    <2>2. /\ IsFiniteSet(B) /\ B = {i \in 1..Len(b) : b[i].kind = kind}
          /\ Count(b, kind) \in Nat
        BY PlacesFinite
    <2>3. Places(a \o b, kind) = {i \in 1..Len(a \o b) : (a \o b)[i].kind = kind}
        <3> HIDE DEF n, A, B
        <3> QED
            BY <1>1, PlacesFinite
    <2>4. Len(a \o b) = n + Len(b)
        BY <1>1
    <2> HIDE DEF A, B, n, C
    <2> QED
        BY <2>1, <2>2, <2>3, <2>4
<1> HIDE DEF A, B, n
<1> DEFINE f == [i \in B |-> n + i]
<1>3. Places(a \o b, kind) = A \cup C
    BY <1>1, <1>2
<1>4. A \cap C = {}
    BY <1>1, <1>2
<1>5. IsFiniteSet(C) /\ Cardinality(C) = Cardinality(B)
    <2>1. f \in [B -> C]
        BY <1>1, <1>2
    <2>2. \A x, y \in B : f[x] = f[y] => x = y
        BY <1>1, <1>2
    <2>3. ASSUME NEW z \in C PROVE \E x \in B : f[x] = z
        <3>1. z - n \in B /\ n + (z - n) = z
            BY <1>1, <1>2
        <3> QED
            BY <3>1
    <2>4. IsFiniteSet(B)
        BY <1>2
    <2> HIDE DEF f, C
    <2> QED
        BY <2>1, <2>2, <2>3, <2>4, SameCount
<1> HIDE DEF C
<1>6. Cardinality(A \cup C) = Cardinality(A) + Cardinality(C) - Cardinality(A \cap C)
    BY <1>2, <1>5, FS_Union
<1>7. Cardinality(A \cap C) = 0
    BY <1>4, FS_EmptySet
<1>8. Count(a, kind) = Cardinality(A) /\ Count(b, kind) = Cardinality(B)
    BY DEF Count, A, B
<1>9. Count(a \o b, kind) = Cardinality(A \cup C)
    BY <1>3 DEF Count
<1> HIDE DEF f
<1> QED
    BY <1>2, <1>5, <1>6, <1>7, <1>8, <1>9

LEMMA CountOne ==
    ASSUME NEW r, NEW kind
    PROVE  Count(<<r>>, kind) = IF r.kind = kind THEN 1 ELSE 0
<1>1. CASE r.kind = kind
    <2>1. Places(<<r>>, kind) = {1}
        BY <1>1 DEF Places
    <2> QED
        BY <1>1, <2>1, FS_Singleton DEF Count
<1>2. CASE r.kind # kind
    <2>1. Places(<<r>>, kind) = {}
        BY <1>2 DEF Places
    <2> QED
        BY <1>2, <2>1, FS_EmptySet DEF Count
<1> QED
    BY <1>1, <1>2

LEMMA CountEmpty == \A kind : Count(<<>>, kind) = 0
<1>1. \A kind : Places(<<>>, kind) = {}
    BY DEF Places
<1> QED
    BY <1>1, FS_EmptySet DEF Count

LEMMA CountAppend ==
    ASSUME NEW T, NEW s \in Seq(T), NEW r \in T, NEW kind
    PROVE  Count(Append(s, r), kind) =
               IF r.kind = kind THEN Count(s, kind) + 1 ELSE Count(s, kind)
<1>1. Append(s, r) = s \o <<r>> /\ <<r>> \in Seq(T)
    BY AppendIsConcat
<1>2. Count(Append(s, r), kind) = Count(s, kind) + Count(<<r>>, kind)
    <2> DEFINE one == <<r>>
    <2>1. one \in Seq(T) /\ Append(s, r) = s \o one
        BY <1>1
    <2> HIDE DEF one
    <2>2. Count(s \o one, kind) = Count(s, kind) + Count(one, kind)
        BY <2>1, CountConcat
    <2> QED
        BY <2>1, <2>2 DEF one
<1>3. Count(s, kind) \in Nat
    BY PlacesFinite
<1>4. Count(<<r>>, kind) = IF r.kind = kind THEN 1 ELSE 0
    BY CountOne
<1> QED
    BY <1>2, <1>3, <1>4

LEMMA CountTail ==
    ASSUME NEW T, NEW s \in Seq(T), s # <<>>, NEW kind
    PROVE  Count(s, kind) = IF Head(s).kind = kind
                            THEN Count(Tail(s), kind) + 1 ELSE Count(Tail(s), kind)
<1>1. Head(s) \in T /\ Tail(s) \in Seq(T) /\ <<Head(s)>> \in Seq(T)
    BY HeadTailProperties
<1>2. s = <<Head(s)>> \o Tail(s)
    <2> DEFINE u == <<Head(s)>> \o Tail(s)
    <2>1. u \in Seq(T) /\ Len(u) = Len(s)
        BY <1>1, ConcatProperties, HeadTailProperties
    <2>2. \A i \in 1..Len(s) : s[i] = u[i]
        BY <1>1, ConcatProperties, HeadTailProperties
    <2> QED
        BY <2>1, <2>2, SeqEqual
<1>3. Count(s, kind) = Count(<<Head(s)>>, kind) + Count(Tail(s), kind)
    <2> DEFINE h == <<Head(s)>>
               t == Tail(s)
    <2>1. h \in Seq(T) /\ t \in Seq(T) /\ s = h \o t
        BY <1>1, <1>2
    <2> HIDE DEF h, t
    <2>2. Count(h \o t, kind) = Count(h, kind) + Count(t, kind)
        BY <2>1, CountConcat
    <2> QED
        BY <2>1, <2>2 DEF h, t
<1>4. Count(Tail(s), kind) \in Nat
    BY <1>1, PlacesFinite
<1> QED
    BY <1>3, <1>4, CountOne

\* When all messages are of one kind
LEMMA CountAll ==
    ASSUME NEW T, NEW s \in Seq(T), NEW kind, \A i \in 1..Len(s) : s[i].kind = kind
    PROVE  Count(s, kind) = Len(s)
<1>1. Places(s, kind) = 1..Len(s)
    BY PlacesFinite
<1>2. Len(s) \in Nat
    OBVIOUS
<1>3. Cardinality(1..Len(s)) = Len(s)
    BY <1>2, FS_Interval
<1> QED
    BY <1>1, <1>3 DEF Count

LEMMA CountNone ==
    ASSUME NEW T, NEW s \in Seq(T), NEW kind, \A i \in 1..Len(s) : s[i].kind # kind
    PROVE  Count(s, kind) = 0
<1>1. Places(s, kind) = {}
    BY PlacesFinite
<1> QED
    BY <1>1, FS_EmptySet DEF Count

----------------------------------------------------------------------------
(* The messages of a connection                                            *)

Box(answers, requests) == [i \in DOMAIN answers |-> answers[i].request] \o requests

LEMMA BoxIs ==
    ASSUME NEW d \in Seq(Answers), NEW u \in Seq(Requests)
    PROVE  /\ Box(d, u) \in Seq(Requests)
           /\ Len(Box(d, u)) = Len(d) + Len(u)
           /\ \A i \in 1..Len(d) + Len(u) :
                 Box(d, u)[i] = IF i <= Len(d) THEN d[i].request ELSE u[i - Len(d)]
<1> DEFINE r == [i \in DOMAIN d |-> d[i].request]
<1>1. Len(d) \in Nat /\ DOMAIN d = 1..Len(d)
    OBVIOUS
<1>2. \A i \in 1..Len(d) : d[i].request \in Requests
    <2> SUFFICES ASSUME NEW i \in 1..Len(d) PROVE d[i].request \in Requests
        OBVIOUS
    <2>1. d[i] \in Answers
        BY ElementOfSeq
    <2> QED
        BY <2>1 DEF Answers
<1>3. r \in Seq(Requests) /\ Len(r) = Len(d) /\ \A i \in 1..Len(d) : r[i] = d[i].request
    BY <1>1, <1>2
<1> HIDE DEF r
<1>4. Box(d, u) = r \o u
    BY DEF Box, r
<1>5. /\ r \o u \in Seq(Requests) /\ Len(r \o u) = Len(r) + Len(u)
      /\ \A i \in 1..Len(r) + Len(u) :
            (r \o u)[i] = IF i <= Len(r) THEN r[i] ELSE u[i - Len(r)]
    BY <1>3, ConcatProperties
<1>6. \A i \in 1..Len(d) + Len(u) :
            (r \o u)[i] = IF i <= Len(d) THEN d[i].request ELSE u[i - Len(d)]
    BY <1>1, <1>3, <1>5
<1> QED
    BY <1>3, <1>4, <1>5, <1>6

LEMMA BoxEmpty == Box(<<>>, <<>>) = <<>>
<1>1. <<>> \in Seq(Answers) /\ <<>> \in Seq(Requests)
    OBVIOUS
<1>2. /\ Box(<<>>, <<>>) \in Seq(Requests)
      /\ Len(Box(<<>>, <<>>)) = Len(<<>>) + Len(<<>>)
    BY <1>1, BoxIs
<1>3. Len(<<>>) + Len(<<>>) = 0
    BY EmptySeq
<1> QED
    BY <1>2, <1>3

LEMMA ConcatTwo ==
    \A a, b \in Seq(Requests) :
        /\ a \o b \in Seq(Requests) /\ Len(a \o b) = Len(a) + Len(b)
        /\ \A i \in 1..Len(a) + Len(b) :
               (a \o b)[i] = IF i <= Len(a) THEN a[i] ELSE b[i - Len(a)]
BY ConcatProperties

\* More requests
LEMMA BoxConcat ==
    ASSUME NEW d \in Seq(Answers), NEW u \in Seq(Requests), NEW v \in Seq(Requests)
    PROVE  Box(d, u \o v) = Box(d, u) \o v
<1>1. u \o v \in Seq(Requests) /\ Len(u \o v) = Len(u) + Len(v)
      /\ \A i \in 1..Len(u) + Len(v) : (u \o v)[i] = IF i <= Len(u) THEN u[i] ELSE v[i - Len(u)]
    BY ConcatProperties
<1> DEFINE x == Box(d, u \o v)
           y == Box(d, u) \o v
           n == Len(d) + Len(u) + Len(v)
<1>2. /\ Len(d) \in Nat /\ Len(u) \in Nat /\ Len(v) \in Nat
    OBVIOUS
<1>3. /\ x \in Seq(Requests) /\ Len(x) = n
      /\ \A i \in 1..n : x[i] = IF i <= Len(d) THEN d[i].request
                                ELSE (u \o v)[i - Len(d)]
    <2> DEFINE w == u \o v
    <2>1. w \in Seq(Requests) /\ Len(w) = Len(u) + Len(v)
        BY <1>1
    <2> HIDE DEF w
    <2>2. /\ Box(d, w) \in Seq(Requests) /\ Len(Box(d, w)) = Len(d) + Len(w)
          /\ \A i \in 1..Len(d) + Len(w) :
                Box(d, w)[i] = IF i <= Len(d) THEN d[i].request ELSE w[i - Len(d)]
        BY <2>1, BoxIs
    <2>3. Len(d) + Len(w) = n
        BY <1>2, <2>1
    <2>4. x = Box(d, w)
        BY DEF w
    <2> HIDE DEF x, n
    <2> QED
        BY <2>2, <2>3, <2>4 DEF w
<1>4. /\ Box(d, u) \in Seq(Requests) /\ Len(Box(d, u)) = Len(d) + Len(u)
      /\ \A i \in 1..Len(d) + Len(u) :
            Box(d, u)[i] = IF i <= Len(d) THEN d[i].request ELSE u[i - Len(d)]
    BY BoxIs
<1>5. /\ y \in Seq(Requests) /\ Len(y) = n
      /\ \A i \in 1..n : y[i] = IF i <= Len(d) + Len(u) THEN Box(d, u)[i]
                                ELSE v[i - (Len(d) + Len(u))]
    <2> DEFINE b == Box(d, u)
    <2>1. b \in Seq(Requests) /\ Len(b) = Len(d) + Len(u)
        BY <1>4
    <2> HIDE DEF b
    <2>2. /\ b \o v \in Seq(Requests) /\ Len(b \o v) = Len(b) + Len(v)
          /\ \A i \in 1..Len(b) + Len(v) :
                (b \o v)[i] = IF i <= Len(b) THEN b[i] ELSE v[i - Len(b)]
        BY <2>1, ConcatTwo
    <2>3. Len(b) + Len(v) = n
        BY <2>1
    <2>4. y = b \o v
        BY DEF b
    <2> HIDE DEF y, n
    <2>5. /\ y \in Seq(Requests) /\ Len(y) = n
          /\ \A i \in 1..n : y[i] = IF i <= Len(b) THEN b[i] ELSE v[i - Len(b)]
        BY <2>2, <2>3, <2>4
    <2> QED
        BY <2>1, <2>5 DEF b
<1> HIDE DEF x, y
<1>6. ASSUME NEW i \in 1..n PROVE x[i] = y[i]
    <2>1. CASE i <= Len(d)
        <3>1. i \in 1..Len(d) + Len(u) /\ i <= Len(d) + Len(u)
            BY <1>2, <2>1
        <3> QED
            BY <1>3, <1>4, <1>5, <2>1, <3>1
    <2>2. CASE i > Len(d) /\ i <= Len(d) + Len(u)
        <3>1. i - Len(d) \in 1..Len(u) /\ i \in 1..Len(d) + Len(u)
            BY <1>2, <2>2
        <3>2. x[i] = u[i - Len(d)]
            BY <1>1, <1>2, <1>3, <2>2, <3>1
        <3> QED
            BY <1>2, <1>4, <1>5, <2>2, <3>1, <3>2
    <2>3. CASE i > Len(d) + Len(u)
        <3>1. /\ i - Len(d) \in 1..Len(u) + Len(v) /\ ~ i - Len(d) <= Len(u)
              /\ (i - Len(d)) - Len(u) = i - (Len(d) + Len(u))
            BY <1>2, <2>3
        <3>2. x[i] = v[i - (Len(d) + Len(u))]
            BY <1>1, <1>2, <1>3, <2>3, <3>1
        <3> QED
            BY <1>2, <1>5, <2>3, <3>2
    <2> QED
        BY <1>2, <2>1, <2>2, <2>3
<1>7. x = y
    BY <1>3, <1>5, <1>6, SeqEqual
<1> QED
    BY <1>7 DEF x, y

LEMMA BoxAppend ==
    ASSUME NEW d \in Seq(Answers), NEW u \in Seq(Requests), NEW r \in Requests
    PROVE  Box(d, Append(u, r)) = Append(Box(d, u), r)
<1>1. Append(u, r) = u \o <<r>> /\ <<r>> \in Seq(Requests)
    BY AppendIsConcat
<1>2. Box(d, u) \in Seq(Requests)
    BY BoxIs
<1>3. Append(Box(d, u), r) = Box(d, u) \o <<r>>
    BY <1>2, AppendIsConcat
<1> QED
    BY <1>1, <1>3, BoxConcat

\* An answer takes the place of its request
LEMMA BoxAnswer ==
    ASSUME NEW d \in Seq(Answers), NEW u \in Seq(Requests), u # <<>>, NEW ok \in BOOLEAN
    PROVE  Box(Append(d, [request |-> Head(u), ok |-> ok]), Tail(u)) = Box(d, u)
<1> DEFINE e == [request |-> Head(u), ok |-> ok]
           c == Append(d, e)
           t == Tail(u)
           x == Box(c, t)
           y == Box(d, u)
<1>1. /\ t \in Seq(Requests) /\ Len(t) = Len(u) - 1 /\ Head(u) \in Requests
      /\ \A i \in 1..Len(u) - 1 : t[i] = u[i + 1]
      /\ u[1] = Head(u)
    BY HeadTailProperties
<1>2. e \in Answers
    BY <1>1 DEF Answers
<1>3. /\ c \in Seq(Answers) /\ Len(c) = Len(d) + 1
      /\ \A i \in 1..Len(d) : c[i] = d[i]
      /\ c[Len(d) + 1] = e
    <2> HIDE DEF e
    <2> QED
        BY <1>2, AppendProperties
<1>4. Len(d) \in Nat /\ Len(u) \in Nat \ {0}
    OBVIOUS
<1>5. e.request = u[1]
    BY <1>1
<1> HIDE DEF c, t, e
<1>6. /\ x \in Seq(Requests) /\ Len(x) = Len(d) + Len(u)
      /\ \A i \in 1..Len(d) + Len(u) :
            x[i] = IF i <= Len(d) + 1 THEN c[i].request ELSE t[i - (Len(d) + 1)]
    <2>1. Len(c) + Len(t) = Len(d) + Len(u)
        BY <1>1, <1>3, <1>4
    <2>2. /\ Box(c, t) \in Seq(Requests) /\ Len(Box(c, t)) = Len(c) + Len(t)
          /\ \A i \in 1..Len(c) + Len(t) :
                Box(c, t)[i] = IF i <= Len(c) THEN c[i].request ELSE t[i - Len(c)]
        BY <1>1, <1>3, BoxIs
    <2> HIDE DEF y
    <2> QED
        BY <1>3, <2>1, <2>2
<1>7. /\ y \in Seq(Requests) /\ Len(y) = Len(d) + Len(u)
      /\ \A i \in 1..Len(d) + Len(u) :
            y[i] = IF i <= Len(d) THEN d[i].request ELSE u[i - Len(d)]
    BY BoxIs
<1> HIDE DEF x, y
<1>8. ASSUME NEW i \in 1..Len(d) + Len(u) PROVE x[i] = y[i]
    <2>1. CASE i <= Len(d)
        BY <1>3, <1>4, <1>6, <1>7, <2>1
    <2>2. CASE i = Len(d) + 1
        <3>1. i - Len(d) = 1 /\ i <= Len(d) + 1 /\ ~ i <= Len(d)
            BY <1>4, <2>2
        <3> QED
            BY <1>3, <1>5, <1>6, <1>7, <2>2, <3>1
    <2>3. CASE i > Len(d) + 1
        <3>1. /\ i - (Len(d) + 1) \in 1..Len(u) - 1
              /\ (i - (Len(d) + 1)) + 1 = i - Len(d)
              /\ ~ i <= Len(d) + 1 /\ ~ i <= Len(d)
            BY <1>4, <2>3
        <3>2. t[i - (Len(d) + 1)] = u[i - Len(d)]
            BY <1>1, <3>1
        <3> QED
            BY <1>6, <1>7, <3>1, <3>2
    <2> QED
        BY <1>4, <2>1, <2>2, <2>3
<1>9. x = y
    BY <1>6, <1>7, <1>8, SeqEqual
<1> QED
    BY <1>9 DEF x, y, c, t, e

\* The client takes the oldest answer
LEMMA BoxTail ==
    ASSUME NEW d \in Seq(Answers), NEW u \in Seq(Requests), d # <<>>
    PROVE  /\ Tail(d) \in Seq(Answers)
           /\ Head(d) \in Answers
           /\ Box(d, u) # <<>>
           /\ Head(Box(d, u)) = Head(d).request
           /\ Box(Tail(d), u) = Tail(Box(d, u))
<1> DEFINE t == Tail(d)
           b == Box(d, u)
           x == Box(t, u)
           y == Tail(b)
           n == Len(d) + Len(u)
<1>1. /\ t \in Seq(Answers) /\ Len(t) = Len(d) - 1 /\ Head(d) \in Answers
      /\ \A i \in 1..Len(d) - 1 : t[i] = d[i + 1]
      /\ Head(d) = d[1]
    BY HeadTailProperties
<1>2. Len(d) \in Nat \ {0} /\ Len(u) \in Nat
    OBVIOUS
<1>3. /\ b \in Seq(Requests) /\ Len(b) = n
      /\ \A i \in 1..n : b[i] = IF i <= Len(d) THEN d[i].request ELSE u[i - Len(d)]
    BY BoxIs
<1> HIDE DEF t, b
<1>4. b # <<>> /\ Head(b) = b[1]
    BY <1>2, <1>3
<1>5. b[1] = Head(d).request
    BY <1>1, <1>2, <1>3
<1>6. /\ x \in Seq(Requests) /\ Len(x) = n - 1
      /\ \A i \in 1..n - 1 : x[i] = IF i <= Len(d) - 1 THEN t[i].request
                                    ELSE u[i - (Len(d) - 1)]
    <2>1. Len(t) + Len(u) = n - 1
        BY <1>1, <1>2
    <2>2. /\ Box(t, u) \in Seq(Requests) /\ Len(Box(t, u)) = Len(t) + Len(u)
          /\ \A i \in 1..Len(t) + Len(u) :
                Box(t, u)[i] = IF i <= Len(t) THEN t[i].request ELSE u[i - Len(t)]
        BY <1>1, BoxIs
    <2> HIDE DEF n
    <2> QED
        BY <1>1, <2>1, <2>2
<1>7. /\ y \in Seq(Requests) /\ Len(y) = n - 1
      /\ \A i \in 1..n - 1 : y[i] = b[i + 1]
    BY <1>3, <1>4, HeadTailProperties
<1> HIDE DEF x, y
<1>8. ASSUME NEW i \in 1..n - 1 PROVE x[i] = y[i]
    <2>1. i + 1 \in 1..n /\ (i + 1) - Len(d) = i - (Len(d) - 1)
        BY <1>2
    <2>2. CASE i <= Len(d) - 1
        <3>1. i \in 1..Len(d) - 1 /\ i + 1 <= Len(d)
            BY <1>2, <2>2
        <3> QED
            BY <1>1, <1>3, <1>6, <1>7, <2>1, <2>2, <3>1
    <2>3. CASE ~ i <= Len(d) - 1
        <3>1. ~ i + 1 <= Len(d)
            BY <1>2, <2>3
        <3> QED
            BY <1>3, <1>6, <1>7, <2>1, <2>3, <3>1
    <2> QED
        BY <2>2, <2>3
<1>9. x = y
    BY <1>6, <1>7, <1>8, SeqEqual
<1> QED
    BY <1>1, <1>4, <1>5, <1>9 DEF x, y, b, t

----------------------------------------------------------------------------
(* The orders in which requests are sent again                             *)

\* Of consecutive numbers there is one increasing order
LEMMA IncreasingIs ==
    ASSUME NEW k \in Nat, NEW m \in Nat, NEW s \in [1..m -> k + 1..k + m],
           \A i, j \in 1..m : i < j => s[i] < s[j]
    PROVE  s = [i \in 1..m |-> k + i]
<1>1. \A i \in 1..m : s[i] \in Nat /\ s[i] >= k + 1 /\ s[i] <= k + m
    OBVIOUS
<1>2. \A i \in 1..m : s[i] >= k + i
    <2> DEFINE T == {j \in Nat : j + 1 <= m => s[j + 1] >= k + (j + 1)}
    <2>1. T \in SUBSET Nat /\ 0 \in T
        BY <1>1
    <2>2. ASSUME NEW j \in T PROVE j + 1 \in T
        <3>1. CASE (j + 1) + 1 <= m
            <4>1. /\ j + 1 \in 1..m /\ (j + 1) + 1 \in 1..m /\ j + 1 < (j + 1) + 1
                  /\ s[j + 1] >= k + (j + 1)
                BY <3>1
            <4>2. s[j + 1] < s[(j + 1) + 1]
                BY <4>1
            <4>3. s[(j + 1) + 1] >= k + ((j + 1) + 1)
                BY <1>1, <4>1, <4>2
            <4> QED
                BY <4>3
        <3>2. CASE ~ (j + 1) + 1 <= m
            BY <3>2
        <3> QED
            BY <3>1, <3>2
    <2>3. T = Nat
        <3> HIDE DEF T
        <3> QED
            BY <2>1, <2>2, NatSetInduction
    <2>4. ASSUME NEW i \in 1..m PROVE s[i] >= k + i
        <3>1. i - 1 \in T /\ (i - 1) + 1 = i
            <4>1. i - 1 \in Nat
                OBVIOUS
            <4> HIDE DEF T
            <4> QED
                BY <2>3, <4>1
        <3> QED
            BY <3>1
    <2> QED
        BY <2>4
<1>3. \A i \in 1..m : s[i] <= k + i
    <2> DEFINE T == {j \in Nat : j < m => s[m - j] <= k + (m - j)}
    <2>1. T \in SUBSET Nat /\ 0 \in T
        BY <1>1
    <2>2. ASSUME NEW j \in T PROVE j + 1 \in T
        <3>1. CASE j + 1 < m
            <4>1. /\ m - j \in 1..m /\ m - (j + 1) \in 1..m /\ m - (j + 1) < m - j
                  /\ s[m - j] <= k + (m - j)
                BY <3>1
            <4>2. s[m - (j + 1)] < s[m - j]
                BY <4>1
            <4>3. s[m - (j + 1)] <= k + (m - (j + 1))
                BY <1>1, <4>1, <4>2
            <4> QED
                BY <4>3
        <3>2. CASE ~ j + 1 < m
            BY <3>2
        <3> QED
            BY <3>1, <3>2
    <2>3. T = Nat
        <3> HIDE DEF T
        <3> QED
            BY <2>1, <2>2, NatSetInduction
    <2>4. ASSUME NEW i \in 1..m PROVE s[i] <= k + i
        <3>1. m - i \in T /\ m - i < m /\ m - (m - i) = i
            <4>1. m - i \in Nat
                OBVIOUS
            <4> HIDE DEF T
            <4> QED
                BY <2>3, <4>1
        <3> QED
            BY <3>1
    <2> QED
        BY <2>4
<1>4. \A i \in 1..m : s[i] = k + i
    BY <1>1, <1>2, <1>3
<1> QED
    BY <1>4

LEMMA SortedIs ==
    ASSUME NEW k \in Nat, NEW n \in Nat, k <= n
    PROVE  Sorted(k + 1..n) = [i \in 1..n - k |-> k + i]
<1> DEFINE S == k + 1..n
           m == n - k
           t == [i \in 1..m |-> k + i]
           Up(s) == \A i, j \in DOMAIN s : i < j => s[i] < s[j]
<1>1. m \in Nat /\ S = k + 1..k + m
    OBVIOUS
<1>2. Cardinality(S) = m
    <2>1. Cardinality(S) = IF k + 1 > n THEN 0 ELSE n - (k + 1) + 1
        BY FS_Interval
    <2> HIDE DEF S
    <2> QED
        BY <2>1
<1>3. Orders(S) = {s \in [1..m -> S] : \A q \in S : \E i \in DOMAIN s : s[i] = q}
    BY <1>2 DEF Orders
<1> HIDE DEF m, S
<1>4. t \in Orders(S) /\ Up(t)
    <2>1. t \in [1..m -> S]
        BY <1>1
    <2>2. ASSUME NEW q \in S PROVE \E i \in DOMAIN t : t[i] = q
        <3>1. q - k \in 1..m /\ k + (q - k) = q
            BY <1>1
        <3> QED
            BY <3>1
    <2>3. Up(t)
        BY <1>1
    <2> QED
        BY <1>3, <2>1, <2>2, <2>3
<1>5. ASSUME NEW s \in Orders(S), Up(s) PROVE s = t
    <2>1. s \in [1..m -> k + 1..k + m]
        BY <1>1, <1>3
    <2>2. \A i, j \in 1..m : i < j => s[i] < s[j]
        BY <1>5, <2>1
    <2> HIDE DEF Up
    <2> QED
        BY <1>1, <2>1, <2>2, IncreasingIs
<1>6. Sorted(S) = CHOOSE s \in Orders(S) : Up(s)
    BY DEF Sorted
<1>7. Sorted(S) = t
    <2> HIDE DEF t, Up
    <2> QED
        BY <1>4, <1>5, <1>6
<1> QED
    BY <1>7 DEF S, m

\* Putting a run of puts
LEMMA PuttingIs ==
    ASSUME NEW k \in Nat, NEW n \in 0..MaxPuts, k <= n
    PROVE  LET sent == Putting(Sorted(k + 1..n))
           IN  /\ sent \in Seq(Requests)
               /\ Len(sent) = n - k
               /\ \A i \in 1..n - k : sent[i].kind = "put" /\ sent[i].id = k + i
<1> DEFINE sent == Putting(Sorted(k + 1..n))
<1>1. n \in Nat /\ MaxPuts \in Nat /\ n <= MaxPuts /\ n - k \in Nat
    BY ClientConstants
<1>2. sent = [i \in 1..n - k |-> PutRequest(k + i)]
    <2> DEFINE s == [i \in 1..n - k |-> k + i]
    <2>1. Sorted(k + 1..n) = s
        BY <1>1, SortedIs
    <2>2. DOMAIN s = 1..n - k
        OBVIOUS
    <2>3. sent = [i \in DOMAIN s |-> PutRequest(s[i])]
        BY <2>1 DEF Putting
    <2> QED
        BY <2>2, <2>3
<1>3. \A i \in 1..n - k : PutRequest(k + i) \in Requests
    BY <1>1 DEF PutRequest, Requests, PutRequests
<1>4. \A i \in 1..n - k : PutRequest(k + i).kind = "put" /\ PutRequest(k + i).id = k + i
    BY DEF PutRequest
<1>5. sent \in Seq(Requests) /\ Len(sent) = n - k
    <2> DEFINE m == n - k
    <2>1. m \in Nat /\ sent = [i \in 1..m |-> PutRequest(k + i)]
        BY <1>1, <1>2
    <2>2. \A i \in 1..m : PutRequest(k + i) \in Requests
        BY <1>3
    <2> HIDE DEF m, sent
    <2>3. sent \in Seq(Requests) /\ Len(sent) = m
        BY <2>1, <2>2
    <2> QED
        BY <2>3 DEF m
<1> QED
    BY <1>2, <1>4, <1>5

\* What restoreState says of the listens
LEMMA ListeningIs ==
    ASSUME NEW L \in SUBSET Queries, made \in [Queries -> 0..MaxListens],
           \A q \in L : made[q] # 0, NEW order \in Orders(L)
    PROVE  /\ IsFiniteSet(L) /\ Len(order) = Cardinality(L)
           /\ Listening(order) \in Seq(Requests)
           /\ Len(Listening(order)) = Len(order)
           /\ Len(order) \in Nat
           /\ \A i \in 1..Len(order) : Listening(order)[i].kind = "listen"
<1>1. IsFiniteSet(L) /\ Cardinality(L) \in Nat
    <2>1. IsFiniteSet(L)
        BY ClientConstants, FS_Subset
    <2> QED
        BY <2>1, FS_CardinalityType
<1>2. order \in [1..Cardinality(L) -> L]
    BY DEF Orders
<1>3. Len(order) = Cardinality(L) /\ DOMAIN order = 1..Len(order)
    BY <1>1, <1>2
<1>4. Listening(order) = [i \in 1..Len(order) |-> ListenRequest(order[i])]
    BY <1>3 DEF Listening
<1>5. ASSUME NEW i \in 1..Len(order)
      PROVE  ListenRequest(order[i]) \in Requests /\ ListenRequest(order[i]).kind = "listen"
    <2>1. order[i] \in L
        BY <1>2, <1>3
    <2>2. order[i] \in Queries /\ made[order[i]] \in 1..MaxListens
        BY <2>1, ClientConstants
    <2> QED
        BY <2>2 DEF ListenRequest, Requests, ListenRequests
<1>6. Listening(order) \in Seq(Requests) /\ Len(Listening(order)) = Len(order)
    BY <1>1, <1>3, <1>4, <1>5
<1> QED
    BY <1>1, <1>3, <1>4, <1>5, <1>6

----------------------------------------------------------------------------
(* Types of the connection                                                 *)

LEMMA LinkTypesStep ==
    ASSUME LinkTypes, MessageTypes, [Next]_vars
    PROVE  LinkTypes'
<1> USE DEF LinkTypes
<1>1. MaxFaults \in Nat
    BY ClientConstants
<1>2. ASSUME Fault PROVE faults' \in 0..MaxFaults
    BY <1>1, <1>2 DEF Fault
<1>3. ASSUME NEW forced \in BOOLEAN, NEW reasons, TryScheduleReconnect(forced, reasons)
      PROVE  retry' \in {"none", "plain", "forced"} /\ forceRefresh' \in BOOLEAN
    BY <1>3 DEF TryScheduleReconnect
<1>4. ASSUME NEW forced \in BOOLEAN, NEW reasons, OnDisconnect(forced, reasons)
      PROVE  /\ retry' \in {"none", "plain", "forced"} /\ forceRefresh' \in BOOLEAN
             /\ state' \in States
    BY <1>3, <1>4 DEF OnDisconnect, States
<1>5. CASE Resume
    BY <1>3, <1>5 DEF Resume, ResumeForReason, Reasons
<1>6. CASE Interrupt
    <2> PICK r \in {"repo_interrupt", "server_kill"} : InterruptForReason(r)
        BY <1>6 DEF Interrupt
    <2>1. interruptReasons' \subseteq Reasons
        BY DEF InterruptForReason, Reasons
    <2>2. /\ retry' \in {"none", "plain", "forced"} /\ forceRefresh' \in BOOLEAN
          /\ state' \in States
        BY <1>4 DEF InterruptForReason, States
    <2>3. /\ attempt' = attempt /\ fetching' = fetching /\ authToken' = authToken
          /\ credential' = credential /\ Fault
        BY DEF InterruptForReason
    <2> QED
        BY <1>2, <2>1, <2>2, <2>3
<1>7. CASE Reachable
    BY <1>2, <1>3, <1>7 DEF Reachable
<1>8. CASE FetchToken
    <2> DEFINE new == [n |-> attempt', forced |-> retry = "forced"]
    <2>1. attempt' \in Nat /\ (retry = "forced") \in BOOLEAN
        BY <1>8 DEF FetchToken
    <2>2. new \in [n : Nat, forced : BOOLEAN]
        BY <2>1
    <2>3. fetching' = fetching \cup {new}
        BY <1>8 DEF FetchToken
    <2> HIDE DEF new
    <2>4. fetching' \subseteq [n : Nat, forced : BOOLEAN]
        BY <2>2, <2>3
    <2> QED
        BY <1>8, <2>1, <2>4 DEF FetchToken, tokens, States
<1>9. ASSUME NEW f \in fetching, TokenFetched(f)
      PROVE  LinkTypes'
    <2>1. credential' \in Tokens
        BY <1>9 DEF TokenFetched, Tokens
    <2>2. state' \in States /\ authToken' \in Tokens
        BY <1>9, <2>1 DEF TokenFetched, States, Realtime
    <2> QED
        BY <1>9, <2>1, <2>2 DEF TokenFetched
<1>10. ASSUME NEW f \in fetching, TokenFailed(f)
       PROVE  LinkTypes'
    <2>1. /\ retry' \in {"none", "plain", "forced"} /\ forceRefresh' \in BOOLEAN
          /\ state' \in States
        BY <1>3, <1>10 DEF TokenFailed, States
    <2> QED
        BY <1>2, <1>10, <2>1 DEF TokenFailed
<1>11. CASE OnReady
    BY <1>11 DEF OnReady, tokens, States, Realtime
<1>12. CASE ConnectionLost
    BY <1>2, <1>4, <1>12 DEF ConnectionLost
<1>13. CASE AuthRevoked
    BY <1>2, <1>4, <1>13 DEF AuthRevoked, Tokens
<1>14. CASE App
    <2>1. ASSUME NEW path, PutData(path) PROVE LinkTypes'
        BY <2>1 DEF PutData, tokens, link
    <2>2. ASSUME NEW q, Listen(q) \/ Unlisten(q) PROVE LinkTypes'
        BY <2>2 DEF Listen, Unlisten, tokens, link
    <2>3. ASSUME NEW token \in {None, "good"}, RefreshAuthToken(token) PROVE LinkTypes'
        BY <1>2, <2>3 DEF RefreshAuthToken, link, Tokens
    <2> QED
        BY <1>14, <2>1, <2>2, <2>3 DEF App
<1>15. CASE Server
    BY <1>15 DEF Server, ServerAnswers, tokens, link
<1>16. CASE OnDataMessage
    <2> DEFINE r == Head(down).request
               ok == Head(down).ok
    <2>0. faults' = faults
        BY <1>16 DEF OnDataMessage
    <2>1. CASE PutAnswered(r)
        BY <2>0, <2>1 DEF PutAnswered, link, tokens
    <2>2. CASE ListenAnswered(r, ok)
        BY <2>0, <2>2 DEF ListenAnswered, link, tokens
    <2>3. CASE AuthAnswered(r, ok)
        <3>1. /\ interruptReasons' = interruptReasons /\ attempt' = attempt
              /\ fetching' = fetching /\ credential' = credential
            BY <2>3 DEF AuthAnswered
        <3>2. CASE /\ state' = "Connected" /\ retry' = retry /\ authToken' = authToken
                   /\ forceRefresh' = forceRefresh
            BY <2>0, <3>1, <3>2 DEF States, Realtime
        <3>3. CASE authToken' = None /\ OnDisconnect(TRUE, interruptReasons)
            <4>1. /\ retry' \in {"none", "plain", "forced"} /\ forceRefresh' \in BOOLEAN
                  /\ state' \in States
                BY <1>4, <3>3
            <4> QED
                BY <2>0, <3>1, <3>3, <4>1 DEF Tokens
        <3> QED
            BY <2>3, <3>2, <3>3 DEF AuthAnswered
    <2> QED
        BY <1>16, <2>1, <2>2, <2>3 DEF OnDataMessage
<1>17. CASE UNCHANGED vars
    BY <1>17 DEF vars, tokens, link
<1> QED
    BY <1>5, <1>6, <1>7, <1>8, <1>9, <1>10, <1>11, <1>12, <1>13, <1>14, <1>15,
       <1>16, <1>17 DEF Next, TokenAnswers

----------------------------------------------------------------------------
(* What messages that come and go do to the invariant                      *)

LEMMA RestoreAppend ==
    ASSUME NEW box \in Seq(Requests), NEW st, RestoreFits(box, st),
           st \in {"Authenticating", "Connected"},
           NEW r \in Requests, ~ IsRestore(r)
    PROVE  RestoreFits(Append(box, r), st)
<1> DEFINE new == Append(box, r)
           n == Len(box)
<1>1. /\ n \in Nat /\ Len(new) = n + 1 /\ new[n + 1] = r
      /\ \A i \in 1..n : new[i] = box[i]
    BY AppendProperties
<1> HIDE DEF new, n
<1>2. CASE st = "Authenticating"
    <2> PICK i \in 1..n :
             /\ IsRestore(box[i])
             /\ \A j \in 1..n : j < i => box[j].kind # "auth"
             /\ \A j \in 1..n : IsRestore(box[j]) => j = i
        BY <1>2 DEF RestoreFits, n
    <2>1. i \in 1..n + 1 /\ IsRestore(new[i])
        BY <1>1
    <2>2. \A j \in 1..n + 1 : j < i => new[j].kind # "auth"
        BY <1>1
    <2>3. \A j \in 1..n + 1 : IsRestore(new[j]) => j = i
        BY <1>1
    <2>4. RestoreFits(new, st)
        BY <1>1, <1>2, <2>1, <2>2, <2>3 DEF RestoreFits
    <2> QED
        BY <2>4 DEF new
<1>3. CASE st = "Connected"
    <2>1. \A i \in 1..n + 1 : ~ IsRestore(new[i])
        BY <1>1, <1>3 DEF RestoreFits, n
    <2>2. RestoreFits(new, st)
        BY <1>1, <1>3, <2>1 DEF RestoreFits
    <2> QED
        BY <2>2 DEF new
<1> QED
    BY <1>2, <1>3

LEMMA RestoreTail ==
    ASSUME NEW box \in Seq(Requests), box # <<>>, NEW st, RestoreFits(box, st),
           Head(box).kind = "auth" => st = "Connected"
    PROVE  RestoreFits(Tail(box), st)
<1> DEFINE new == Tail(box)
           n == Len(box)
<1>1. /\ n \in Nat \ {0} /\ Len(new) = n - 1 /\ box[1] = Head(box)
      /\ \A i \in 1..n - 1 : new[i] = box[i + 1]
    BY HeadTailProperties
<1>2. st \in {"Authenticating", "Connected"}
    BY DEF RestoreFits
<1> HIDE DEF new
<1>3. CASE st = "Authenticating"
    <2> PICK i \in 1..n :
             /\ IsRestore(box[i])
             /\ \A j \in 1..n : j < i => box[j].kind # "auth"
             /\ \A j \in 1..n : IsRestore(box[j]) => j = i
        BY <1>3 DEF RestoreFits
    <2> HIDE DEF n
    <2>1. i # 1
        BY <1>1, <1>3 DEF IsRestore
    <2>2. i - 1 \in 1..n - 1 /\ (i - 1) + 1 = i
        BY <1>1, <2>1
    <2>3. IsRestore(new[i - 1])
        BY <1>1, <2>2
    <2>4. ASSUME NEW j \in 1..n - 1
          PROVE  /\ j < i - 1 => new[j].kind # "auth"
                 /\ IsRestore(new[j]) => j = i - 1
        <3>1. j + 1 \in 1..n /\ (j < i - 1 => j + 1 < i) /\ (j + 1 = i => j = i - 1)
            BY <1>1
        <3> QED
            BY <1>1, <3>1
    <2>5. RestoreFits(new, st)
        BY <1>1, <1>3, <2>2, <2>3, <2>4 DEF RestoreFits
    <2> QED
        BY <2>5 DEF new
<1>4. CASE st = "Connected"
    <2>1. \A i \in 1..n - 1 : i + 1 \in 1..n
        BY <1>1
    <2>2. \A i \in 1..n - 1 : ~ IsRestore(new[i])
        BY <1>1, <1>4, <2>1 DEF RestoreFits
    <2>3. RestoreFits(new, st)
        BY <1>1, <1>4, <2>2 DEF RestoreFits
    <2> QED
        BY <2>3 DEF new
<1> QED
    BY <1>2, <1>3, <1>4

\* The first answer to an authentication is the one that restores
LEMMA RestoreFirst ==
    ASSUME NEW box \in Seq(Requests), box # <<>>, RestoreFits(box, "Authenticating"),
           Head(box).kind = "auth"
    PROVE  /\ IsRestore(Head(box))
           /\ \A i \in 1..Len(Tail(box)) : ~ IsRestore(Tail(box)[i])
<1> DEFINE n == Len(box)
<1>1. /\ n \in Nat \ {0} /\ Len(Tail(box)) = n - 1 /\ box[1] = Head(box)
      /\ \A i \in 1..n - 1 : Tail(box)[i] = box[i + 1]
    BY HeadTailProperties
<1> PICK i \in 1..n :
         /\ IsRestore(box[i])
         /\ \A j \in 1..n : j < i => box[j].kind # "auth"
         /\ \A j \in 1..n : IsRestore(box[j]) => j = i
    BY DEF RestoreFits
<1> HIDE DEF n
<1>2. i = 1
    BY <1>1
<1>3. \A j \in 1..n - 1 : j + 1 \in 1..n /\ j + 1 # 1
    BY <1>1
<1> QED
    BY <1>1, <1>2, <1>3

\* More messages without such a request
LEMMA RestoreConcat ==
    ASSUME NEW a \in Seq(Requests), NEW b \in Seq(Requests),
           \A i \in 1..Len(a) : ~ IsRestore(a[i]),
           \A i \in 1..Len(b) : b[i].kind # "auth"
    PROVE  RestoreFits(a \o b, "Connected")
<1> DEFINE new == a \o b
<1>1. /\ Len(a) \in Nat /\ Len(b) \in Nat /\ Len(new) = Len(a) + Len(b)
      /\ \A i \in 1..Len(a) + Len(b) : new[i] = IF i <= Len(a) THEN a[i] ELSE b[i - Len(a)]
    BY ConcatProperties
<1> HIDE DEF new
<1>2. ASSUME NEW i \in 1..Len(a) + Len(b) PROVE ~ IsRestore(new[i])
    <2>1. CASE i <= Len(a)
        BY <1>1, <2>1
    <2>2. CASE ~ i <= Len(a)
        <3>1. i - Len(a) \in 1..Len(b)
            BY <1>1, <2>2
        <3> QED
            BY <1>1, <2>2, <3>1 DEF IsRestore
    <2> QED
        BY <2>1, <2>2
<1>3. RestoreFits(new, "Connected")
    BY <1>1, <1>2 DEF RestoreFits
<1> QED
    BY <1>3 DEF new

LEMMA PutsEmpty == PutsAre(<<>>, {})
BY DEF PutsAre

LEMMA PutsAppendOther ==
    ASSUME NEW box \in Seq(Requests), NEW ids, PutsAre(box, ids),
           NEW r \in Requests, r.kind # "put"
    PROVE  PutsAre(Append(box, r), ids)
<1> DEFINE new == Append(box, r)
           n == Len(box)
<1>1. /\ n \in Nat /\ Len(new) = n + 1 /\ new[n + 1] = r
      /\ \A i \in 1..n : new[i] = box[i]
    BY AppendProperties
<1> HIDE DEF new, n
<1>2. \A i \in 1..n + 1 : new[i].kind = "put" => i \in 1..n
    BY <1>1
<1>3. \A p \in ids : \E i \in 1..n + 1 : new[i].kind = "put" /\ new[i].id = p
    BY <1>1 DEF PutsAre, n
<1>4. PutsAre(new, ids)
    BY <1>1, <1>2, <1>3 DEF PutsAre, n
<1> QED
    BY <1>4 DEF new

LEMMA PutsAppendNext ==
    ASSUME NEW box \in Seq(Requests), NEW ids, PutsAre(box, ids),
           NEW r \in Requests, r.kind = "put", \A p \in ids : p < r.id
    PROVE  PutsAre(Append(box, r), ids \cup {r.id})
<1> DEFINE new == Append(box, r)
           n == Len(box)
<1>1. /\ n \in Nat /\ Len(new) = n + 1 /\ new[n + 1] = r
      /\ \A i \in 1..n : new[i] = box[i]
    BY AppendProperties
<1> HIDE DEF new, n
<1>2. \A i \in 1..n + 1 : i \in 1..n \/ i = n + 1
    BY <1>1
<1>3. \A p \in ids \cup {r.id} : \E i \in 1..n + 1 : new[i].kind = "put" /\ new[i].id = p
    BY <1>1 DEF PutsAre, n
<1>4. \A i \in 1..n + 1 : new[i].kind = "put" => new[i].id \in ids \cup {r.id}
    BY <1>1, <1>2 DEF PutsAre, n
<1>5. ASSUME NEW i \in 1..n + 1, NEW j \in 1..n + 1,
             i < j, new[i].kind = "put", new[j].kind = "put"
      PROVE  new[i].id < new[j].id
    <2>1. i \in 1..n
        BY <1>1, <1>5
    <2>2. CASE j \in 1..n
        BY <1>1, <1>5, <2>1, <2>2 DEF PutsAre, n
    <2>3. CASE j = n + 1
        BY <1>1, <1>5, <2>1, <2>3 DEF PutsAre, n
    <2> QED
        BY <1>2, <2>2, <2>3
<1>6. PutsAre(new, ids \cup {r.id})
    BY <1>1, <1>3, <1>4, <1>5 DEF PutsAre
<1> QED
    BY <1>6 DEF new

LEMMA PutsTailOther ==
    ASSUME NEW box \in Seq(Requests), box # <<>>, NEW ids, PutsAre(box, ids),
           Head(box).kind # "put"
    PROVE  PutsAre(Tail(box), ids)
<1> DEFINE new == Tail(box)
           n == Len(box)
<1>1. /\ n \in Nat \ {0} /\ Len(new) = n - 1 /\ box[1] = Head(box)
      /\ \A i \in 1..n - 1 : new[i] = box[i + 1]
    BY HeadTailProperties
<1> HIDE DEF new, n
<1>2. \A i \in 1..n - 1 : i + 1 \in 1..n
    BY <1>1
<1>3. ASSUME NEW p \in ids
      PROVE  \E i \in 1..n - 1 : new[i].kind = "put" /\ new[i].id = p
    <2> PICK i \in 1..n : box[i].kind = "put" /\ box[i].id = p
        BY DEF PutsAre, n
    <2>1. i # 1
        BY <1>1
    <2>2. i - 1 \in 1..n - 1 /\ (i - 1) + 1 = i
        BY <1>1, <2>1
    <2>3. new[i - 1] = box[i]
        BY <1>1, <2>2
    <2> QED
        BY <2>2, <2>3
<1>4. \A i \in 1..n - 1 : new[i].kind = "put" => new[i].id \in ids
    BY <1>1, <1>2 DEF PutsAre, n
<1>5. \A i, j \in 1..n - 1 :
         i < j /\ new[i].kind = "put" /\ new[j].kind = "put" => new[i].id < new[j].id
    <2>1. \A i, j \in 1..n - 1 : i < j => i + 1 < j + 1
        BY <1>1
    <2> QED
        BY <1>1, <1>2, <2>1 DEF PutsAre, n
<1>6. PutsAre(new, ids)
    BY <1>1, <1>3, <1>4, <1>5 DEF PutsAre
<1> QED
    BY <1>6 DEF new

\* The first put is the oldest one
LEMMA PutsTailFirst ==
    ASSUME NEW box \in Seq(Requests), box # <<>>, NEW ids \in SUBSET Nat, PutsAre(box, ids),
           Head(box).kind = "put"
    PROVE  /\ Head(box).id \in ids
           /\ \A p \in ids \ {Head(box).id} : Head(box).id < p
           /\ PutsAre(Tail(box), ids \ {Head(box).id})
<1> DEFINE new == Tail(box)
           n == Len(box)
           h == Head(box)
<1>1. /\ n \in Nat \ {0} /\ Len(new) = n - 1 /\ box[1] = h
      /\ \A i \in 1..n - 1 : new[i] = box[i + 1]
    BY HeadTailProperties
<1> HIDE DEF new, n
<1>2. \A i \in 1..n - 1 : i + 1 \in 1..n /\ 1 < i + 1
    BY <1>1
<1>3. h.id \in ids
    BY <1>1 DEF PutsAre, n
<1>4. ASSUME NEW p \in ids \ {h.id}
      PROVE  /\ h.id < p
             /\ \E i \in 1..n - 1 : new[i].kind = "put" /\ new[i].id = p
    <2> PICK i \in 1..n : box[i].kind = "put" /\ box[i].id = p
        BY DEF PutsAre, n
    <2>1. i # 1
        BY <1>1
    <2>2. i - 1 \in 1..n - 1 /\ (i - 1) + 1 = i /\ 1 < i /\ 1 \in 1..n
        BY <1>1, <2>1
    <2>3. new[i - 1] = box[i]
        BY <1>1, <2>2
    <2>4. h.id < p
        BY <1>1, <2>2 DEF PutsAre, n
    <2> QED
        BY <2>2, <2>3, <2>4
<1>5. \A i \in 1..n - 1 : new[i].kind = "put" => new[i].id \in ids \ {h.id}
    <2> SUFFICES ASSUME NEW i \in 1..n - 1, new[i].kind = "put"
                 PROVE  new[i].id \in ids \ {h.id}
        OBVIOUS
    <2>1. i + 1 \in 1..n /\ 1 < i + 1 /\ 1 \in 1..n /\ new[i] = box[i + 1]
        BY <1>1, <1>2
    <2>2. box[i + 1].kind = "put" /\ box[1].kind = "put"
        BY <1>1, <2>1
    <2>3. box[i + 1].id \in ids
        BY <2>1, <2>2 DEF PutsAre, n
    <2>4. box[1].id < box[i + 1].id
        BY <2>1, <2>2 DEF PutsAre, n
    <2>5. h.id \in Nat /\ box[i + 1].id \in Nat
        BY <1>3, <2>3
    <2> QED
        BY <1>1, <2>1, <2>3, <2>4, <2>5
<1>6. \A i, j \in 1..n - 1 :
         i < j /\ new[i].kind = "put" /\ new[j].kind = "put" => new[i].id < new[j].id
    <2>1. \A i, j \in 1..n - 1 : i < j => i + 1 < j + 1
        BY <1>1
    <2> QED
        BY <1>1, <1>2, <2>1 DEF PutsAre, n
<1>7. PutsAre(new, ids \ {h.id})
    BY <1>1, <1>4, <1>5, <1>6 DEF PutsAre
<1> QED
    BY <1>3, <1>4, <1>7 DEF new

\* The puts that are sent again
LEMMA PutsConcat ==
    ASSUME NEW a \in Seq(Requests), \A i \in 1..Len(a) : a[i].kind # "put",
           NEW b \in Seq(Requests), NEW k \in Nat, NEW n \in Nat, k <= n,
           Len(b) = n - k,
           \A i \in 1..n - k : b[i].kind = "put" /\ b[i].id = k + i
    PROVE  PutsAre(a \o b, k + 1..n)
<1> DEFINE new == a \o b
           m == Len(a)
           l == n - k
<1>1. /\ m \in Nat /\ l \in Nat /\ Len(new) = m + l
      /\ \A i \in 1..m + l : new[i] = IF i <= m THEN a[i] ELSE b[i - m]
    <2>1. /\ Len(a) \in Nat /\ Len(a \o b) = Len(a) + Len(b)
          /\ \A i \in 1..Len(a) + Len(b) :
                 (a \o b)[i] = IF i <= Len(a) THEN a[i] ELSE b[i - Len(a)]
        BY ConcatProperties
    <2>2. Len(b) = l /\ l \in Nat
        OBVIOUS
    <2> HIDE DEF l
    <2> QED
        BY <2>1, <2>2
<1> HIDE DEF new
<1>2. \A i \in 1..m + l : new[i].kind = "put" =>
                              /\ i - m \in 1..l /\ ~ i <= m
                              /\ new[i].id = k + (i - m)
    <2> SUFFICES ASSUME NEW i \in 1..m + l, new[i].kind = "put"
                 PROVE  i - m \in 1..l /\ ~ i <= m /\ new[i].id = k + (i - m)
        OBVIOUS
    <2>1. ~ i <= m
        <3> SUFFICES ASSUME i <= m PROVE FALSE
            OBVIOUS
        <3>1. \A e \in 1..m : a[e].kind # "put"
            OBVIOUS
        <3> HIDE DEF m, l
        <3>2. i \in 1..m /\ new[i] = a[i]
            BY <1>1
        <3> QED
            BY <3>1, <3>2
    <2>2. i - m \in 1..l
        <3> HIDE DEF m, l
        <3> QED
            BY <1>1, <2>1
    <2> QED
        BY <1>1, <2>1, <2>2
<1>3. ASSUME NEW p \in k + 1..n
      PROVE  \E i \in 1..m + l : new[i].kind = "put" /\ new[i].id = p
    <2>1. p - k \in 1..l /\ k + (p - k) = p
        OBVIOUS
    <2>2. m + (p - k) \in 1..m + l /\ ~ m + (p - k) <= m /\ (m + (p - k)) - m = p - k
        <3> HIDE DEF m, l
        <3> QED
            BY <1>1, <2>1
    <2>3. new[m + (p - k)] = b[p - k]
        BY <1>1, <2>2
    <2> QED
        BY <2>1, <2>2, <2>3
<1>4. \A i \in 1..m + l : new[i].kind = "put" => new[i].id \in k + 1..n
    BY <1>2
<1>5. ASSUME NEW i \in 1..m + l, NEW j \in 1..m + l,
             i < j, new[i].kind = "put", new[j].kind = "put"
      PROVE  new[i].id < new[j].id
    <2> HIDE DEF m, l
    <2> QED
        BY <1>1, <1>2, <1>5
<1> HIDE DEF m, l
<1>6. PutsAre(new, k + 1..n)
    BY <1>1, <1>3, <1>4, <1>5 DEF PutsAre
<1> QED
    BY <1>6 DEF new

----------------------------------------------------------------------------
(* The steps of the messages                                               *)

\* What the messages have to do with the rest
BoxInv(box, st, owed, out) ==
    /\ RestoreFits(box, st)
    /\ owed = Count(box, "listen")
    /\ PutsAre(box, Given(st, out))

LEMMA MessageInvIs ==
    ASSUME MessageTypes
    PROVE  /\ InFlight = Box(down, up)
           /\ InFlight \in Seq(Requests)
           /\ MessageInv <=>
                 /\ BoxInv(Box(down, up), state, unacked, outstandingPuts)
                 /\ IsInterval(outstandingPuts, putCounter)
                 /\ WritesFit(outstandingPuts, putsToAck, allWrites, putCounter)
<1>1. InFlight = Box(down, up)
    BY DEF InFlight, Box
<1>2. Box(down, up) \in Seq(Requests)
    BY BoxIs DEF MessageTypes
<1>3. CountMatches <=> unacked = Count(Box(down, up), "listen")
    BY <1>1 DEF CountMatches, Count
<1> QED
    BY <1>1, <1>2, <1>3 DEF MessageInv, BoxInv

\* Nothing happens to the messages
LEMMA QuietStep ==
    ASSUME MessageTypes, MessageInv, listens' \subseteq listens,
           UNCHANGED <<made, unacked, wire, puts, writes>>,
           \/ state' = state
           \/ /\ state \notin {"Authenticating", "Connected"}
              /\ state' \notin {"Authenticating", "Connected"}
    PROVE  MessageTypes' /\ MessageInv'
<1>1. /\ made' = made /\ unacked' = unacked /\ up' = up /\ down' = down
      /\ putCounter' = putCounter /\ outstandingPuts' = outstandingPuts
      /\ putsToAck' = putsToAck /\ ran' = ran /\ last' = last
      /\ allWrites' = allWrites /\ visibleWrites' = visibleWrites
    BY DEF wire, puts, writes
<1>2. MessageTypes'
    <2>1. listens' \subseteq Queries /\ \A q \in listens' : made'[q] # 0
        BY <1>1 DEF MessageTypes
    <2> QED
        BY <1>1, <2>1 DEF MessageTypes
<1>3. InFlight' = InFlight
    BY <1>1 DEF InFlight
<1>4. CountMatches'
    BY <1>1, <1>3 DEF CountMatches, MessageInv
<1>5. /\ RestoreFits(InFlight, state) /\ PutsAre(InFlight, Given(state, outstandingPuts))
      /\ IsInterval(outstandingPuts, putCounter)
      /\ WritesFit(outstandingPuts, putsToAck, allWrites, putCounter)
    BY DEF MessageInv
<1>6. RestoreFits(InFlight', state')
    BY <1>3, <1>5 DEF RestoreFits
<1>7. Given(state', outstandingPuts') = Given(state, outstandingPuts)
    BY <1>1 DEF Given
<1>8. PutsAre(InFlight', Given(state', outstandingPuts'))
    BY <1>3, <1>5, <1>7
<1>9. /\ IsInterval(outstandingPuts', putCounter')
      /\ WritesFit(outstandingPuts', putsToAck', allWrites', putCounter')
    BY <1>1, <1>5
<1> QED
    BY <1>2, <1>4, <1>6, <1>8, <1>9 DEF MessageInv

\* The connection is lost
LEMMA LostStep ==
    ASSUME MessageTypes, MessageInv, NEW forced, NEW reasons, OnDisconnect(forced, reasons),
           UNCHANGED <<listens, made, puts, writes>>
    PROVE  MessageTypes' /\ MessageInv'
<1>1. /\ made' = made /\ listens' = listens /\ up' = <<>> /\ down' = <<>>
      /\ putCounter' = putCounter /\ outstandingPuts' = outstandingPuts
      /\ putsToAck' = putsToAck /\ ran' = ran /\ last' = last
      /\ allWrites' = allWrites /\ visibleWrites' = visibleWrites
      /\ unacked' = 0 /\ state' = "Disconnected"
    BY DEF OnDisconnect, puts, writes
<1>2. MessageTypes'
    BY <1>1 DEF MessageTypes
<1>3. Box(down', up') = <<>>
    BY <1>1, BoxEmpty
<1>4. BoxInv(<<>>, "Disconnected", 0, outstandingPuts)
    <2>1. RestoreFits(<<>>, "Disconnected")
        BY DEF RestoreFits
    <2>2. Given("Disconnected", outstandingPuts) = {}
        BY DEF Given
    <2>3. 0 = Count(<<>>, "listen")
        BY CountEmpty
    <2> QED
        BY <2>1, <2>2, <2>3, PutsEmpty DEF BoxInv
<1>5. BoxInv(Box(down', up'), state', unacked', outstandingPuts')
    BY <1>1, <1>3, <1>4
<1>6. /\ IsInterval(outstandingPuts', putCounter')
      /\ WritesFit(outstandingPuts', putsToAck', allWrites', putCounter')
    BY <1>1 DEF MessageInv
<1>7. InFlight' = Box(down', up')
    BY DEF InFlight, Box
<1> QED
    BY <1>2, <1>5, <1>6, <1>7 DEF MessageInv, BoxInv, CountMatches, Count

\* A request that is neither a put nor one that restores the state is sent
LEMMA BoxSent ==
    ASSUME NEW box \in Seq(Requests), NEW st \in {"Authenticating", "Connected"},
           NEW owed \in Nat, NEW out, BoxInv(box, st, owed, out),
           NEW r \in Requests, r.kind # "put", ~ IsRestore(r)
    PROVE  BoxInv(Append(box, r), st, IF r.kind = "listen" THEN owed + 1 ELSE owed, out)
<1>1. RestoreFits(Append(box, r), st)
    BY RestoreAppend DEF BoxInv
<1>2. PutsAre(Append(box, r), Given(st, out))
    BY PutsAppendOther DEF BoxInv
<1>3. Count(Append(box, r), "listen") =
         IF r.kind = "listen" THEN Count(box, "listen") + 1 ELSE Count(box, "listen")
    BY CountAppend
<1> QED
    BY <1>1, <1>2, <1>3 DEF BoxInv

LEMMA CountBoth ==
    \A a, b \in Seq(Requests) : \A kind :
        Count(a \o b, kind) = Count(a, kind) + Count(b, kind)
BY CountConcat

LEMMA ConcatThree ==
    \A a, b, c \in Seq(Requests) : (a \o b) \o c = a \o (b \o c)
BY ConcatAssociative

\* The state is restored: the listens, then the puts
LEMMA BoxRestored ==
    ASSUME NEW box \in Seq(Requests), \A i \in 1..Len(box) : ~ IsRestore(box[i]),
           \A i \in 1..Len(box) : box[i].kind # "put",
           NEW n \in 0..MaxPuts, NEW k \in 0..n,
           NEW L \in SUBSET Queries, made \in [Queries -> 0..MaxListens],
           \A q \in L : made[q] # 0, NEW order \in Orders(L)
    PROVE  LET sent == Listening(order) \o Putting(Sorted(k + 1..n)) IN
           /\ sent \in Seq(Requests) /\ Len(order) \in Nat
           /\ BoxInv(box \o sent, "Connected", Count(box, "listen") + Len(order), k + 1..n)
<1> DEFINE l == Listening(order)
           p == Putting(Sorted(k + 1..n))
           sent == l \o p
<1>1. k \in Nat /\ n \in Nat /\ k <= n
    BY ClientConstants
<1>2. /\ p \in Seq(Requests) /\ Len(p) = n - k
      /\ \A i \in 1..n - k : p[i].kind = "put" /\ p[i].id = k + i
    BY <1>1, PuttingIs
<1>3. /\ l \in Seq(Requests) /\ Len(l) = Len(order) /\ Len(order) \in Nat
      /\ \A i \in 1..Len(l) : l[i].kind = "listen"
    BY ListeningIs
<1> HIDE DEF l, p
<1>4. sent \in Seq(Requests)
    BY <1>2, <1>3, ConcatProperties
<1>5. \A i \in 1..Len(p) : p[i].kind = "put"
    BY <1>2
<1>6. box \o sent = (box \o l) \o p
    <2>1. l \in Seq(Requests) /\ p \in Seq(Requests)
        BY <1>2, <1>3
    <2>2. (box \o l) \o p = box \o (l \o p)
        BY <2>1, ConcatThree
    <2> QED
        BY <2>2 DEF sent
<1>7. /\ box \o l \in Seq(Requests) /\ Len(box \o l) = Len(box) + Len(l)
      /\ \A i \in 1..Len(box) + Len(l) :
            (box \o l)[i] = IF i <= Len(box) THEN box[i] ELSE l[i - Len(box)]
    BY <1>3, ConcatTwo
<1>8. \A i \in 1..Len(box \o l) : ~ IsRestore((box \o l)[i]) /\ (box \o l)[i].kind # "put"
    <2>1. Len(box) \in Nat /\ Len(l) \in Nat
        BY <1>3
    <2> SUFFICES ASSUME NEW i \in 1..Len(box) + Len(l)
                 PROVE  ~ IsRestore((box \o l)[i]) /\ (box \o l)[i].kind # "put"
        BY <1>7
    <2>2. CASE i <= Len(box)
        BY <1>7, <2>1, <2>2
    <2>3. CASE ~ i <= Len(box)
        <3>1. i - Len(box) \in 1..Len(l)
            BY <2>1, <2>3
        <3> QED
            BY <1>3, <1>7, <2>3, <3>1 DEF IsRestore
    <2> QED
        BY <2>2, <2>3
<1>9. RestoreFits((box \o l) \o p, "Connected")
    <2>1. \A i \in 1..Len(p) : p[i].kind # "auth"
        BY <1>5
    <2> QED
        BY <1>2, <1>7, <1>8, <2>1, RestoreConcat
<1>10. PutsAre((box \o l) \o p, k + 1..n)
    <2>1. \A i \in 1..Len(box \o l) : (box \o l)[i].kind # "put"
        BY <1>8
    <2> DEFINE c == box \o l
    <2>2. /\ c \in Seq(Requests) /\ \A i \in 1..Len(c) : c[i].kind # "put"
          /\ \A i \in 1..n - k : p[i].kind = "put" /\ p[i].id = k + i
          /\ p \in Seq(Requests) /\ Len(p) = n - k
        BY <1>2, <1>7, <2>1
    <2> HIDE DEF c
    <2>3. PutsAre(c \o p, k + 1..n)
        BY <1>1, <2>2, PutsConcat
    <2> QED
        BY <2>3 DEF c
<1>11. Count((box \o l) \o p, "listen") = Count(box, "listen") + Len(order)
    <2>1. Count((box \o l) \o p, "listen") = Count(box \o l, "listen") + Count(p, "listen")
        BY <1>2, <1>7, CountBoth
    <2>2. Count(box \o l, "listen") = Count(box, "listen") + Count(l, "listen")
        BY <1>3, CountBoth
    <2>3. Count(l, "listen") = Len(l)
        BY <1>3, CountAll
    <2>4. \A i \in 1..Len(p) : p[i].kind # "listen"
        BY <1>5
    <2>5. Count(p, "listen") = 0
        BY <1>2, <2>4, CountNone
    <2>6. Count(box, "listen") \in Nat
        BY PlacesFinite
    <2> QED
        BY <1>3, <2>1, <2>2, <2>3, <2>5, <2>6
<1>12. Given("Connected", k + 1..n) = k + 1..n
    BY DEF Given
<1>13. BoxInv(box \o sent, "Connected", Count(box, "listen") + Len(order), k + 1..n)
    BY <1>6, <1>9, <1>10, <1>11, <1>12 DEF BoxInv
<1> QED
    BY <1>3, <1>4, <1>13 DEF l, p

LEMMA RestoredStep ==
    ASSUME NEW d \in Seq(Answers), NEW u \in Seq(Requests), NEW box, box = Box(d, u),
           \A i \in 1..Len(box) : ~ IsRestore(box[i]),
           \A i \in 1..Len(box) : box[i].kind # "put",
           NEW n \in 0..MaxPuts, NEW k \in 0..n,
           NEW L \in SUBSET Queries, made \in [Queries -> 0..MaxListens],
           \A q \in L : made[q] # 0, NEW order \in Orders(L)
    PROVE  LET new == u \o Listening(order) \o Putting(Sorted(k + 1..n)) IN
           /\ new \in Seq(Requests) /\ Len(order) \in Nat
           /\ BoxInv(Box(d, new), "Connected", Count(box, "listen") + Len(order), k + 1..n)
<1> DEFINE l == Listening(order)
           p == Putting(Sorted(k + 1..n))
<1>1. k \in Nat /\ n \in Nat /\ k <= n
    BY ClientConstants
<1>2. p \in Seq(Requests)
    BY <1>1, PuttingIs
<1>3. l \in Seq(Requests)
    BY ListeningIs
<1>4. box \in Seq(Requests)
    BY BoxIs
<1>5. /\ l \o p \in Seq(Requests) /\ Len(order) \in Nat
      /\ BoxInv(box \o (l \o p), "Connected", Count(box, "listen") + Len(order), k + 1..n)
    BY <1>4, BoxRestored
<1> HIDE DEF l, p
<1>6. (u \o l) \o p = u \o (l \o p)
    BY <1>2, <1>3, ConcatThree
<1>7. u \o (l \o p) \in Seq(Requests)
    BY <1>5, ConcatProperties
<1>8. Box(d, u \o (l \o p)) = box \o (l \o p)
    BY <1>5, BoxConcat
<1> QED
    BY <1>5, <1>6, <1>7, <1>8 DEF l, p

\* A listen, or an authentication that restores nothing, is answered
LEMMA BoxTaken ==
    ASSUME NEW box \in Seq(Requests), box # <<>>, NEW st, NEW owed \in Nat, NEW out,
           BoxInv(box, st, owed, out), Head(box).kind # "put",
           Head(box).kind = "auth" => st = "Connected"
    PROVE  /\ st \in {"Authenticating", "Connected"}
           /\ BoxInv(Tail(box), st, IF Head(box).kind = "listen" THEN owed - 1 ELSE owed, out)
           /\ Head(box).kind = "listen" => owed # 0
<1>1. RestoreFits(Tail(box), st)
    BY RestoreTail DEF BoxInv
<1>2. PutsAre(Tail(box), Given(st, out))
    BY PutsTailOther DEF BoxInv
<1>3. Count(box, "listen") = IF Head(box).kind = "listen"
                             THEN Count(Tail(box), "listen") + 1
                             ELSE Count(Tail(box), "listen")
    BY CountTail
<1>4. Count(Tail(box), "listen") \in Nat
    BY PlacesFinite, HeadTailProperties
<1>5. st \in {"Authenticating", "Connected"}
    BY DEF BoxInv, RestoreFits
<1> QED
    BY <1>1, <1>2, <1>3, <1>4, <1>5 DEF BoxInv

\* A put is answered: a connection is given them only when it is Connected
LEMMA BoxPutTaken ==
    ASSUME NEW box \in Seq(Requests), box # <<>>, NEW st, NEW owed \in Nat,
           NEW out \in SUBSET Nat, BoxInv(box, st, owed, out), Head(box).kind = "put"
    PROVE  /\ st = "Connected"
           /\ Head(box).id \in out
           /\ \A p \in out \ {Head(box).id} : Head(box).id < p
           /\ BoxInv(Tail(box), st, owed, out \ {Head(box).id})
<1>1. st \in {"Authenticating", "Connected"}
    BY DEF BoxInv, RestoreFits
<1>2. Given(st, out) \in SUBSET Nat
    BY DEF Given
<1>3. /\ Head(box).id \in Given(st, out)
      /\ \A p \in Given(st, out) \ {Head(box).id} : Head(box).id < p
      /\ PutsAre(Tail(box), Given(st, out) \ {Head(box).id})
    <2>1. PutsAre(box, Given(st, out))
        BY DEF BoxInv
    <2> HIDE DEF Given
    <2> QED
        BY <1>2, <2>1, PutsTailFirst
<1>4. st = "Connected" /\ Given(st, out) = out
    BY <1>3 DEF Given
<1>5. Given(st, out \ {Head(box).id}) = out \ {Head(box).id}
    BY <1>4 DEF Given
<1>6. RestoreFits(Tail(box), st)
    BY RestoreTail DEF BoxInv
<1>7. Count(box, "listen") = Count(Tail(box), "listen")
    BY CountTail
<1> QED
    BY <1>3, <1>4, <1>5, <1>6, <1>7 DEF BoxInv

\* The parts that the writes and the blocks have in the invariant
LEMMA MessageInvFrom ==
    ASSUME BoxInv(Box(down', up'), state', unacked', outstandingPuts'),
           IsInterval(outstandingPuts', putCounter'),
           WritesFit(outstandingPuts', putsToAck', allWrites', putCounter')
    PROVE  MessageInv'
<1>1. InFlight' = Box(down', up')
    BY DEF InFlight, Box
<1> QED
    BY <1>1 DEF MessageInv, BoxInv, CountMatches, Count

\* The request that restores the state is the first one
LEMMA BoxAuth ==
    ASSUME NEW r \in Requests, IsRestore(r), NEW out
    PROVE  BoxInv(<<r>>, "Authenticating", 0, out)
<1>1. Len(<<r>>) = 1 /\ <<r>>[1] = r
    OBVIOUS
<1>2. RestoreFits(<<r>>, "Authenticating")
    <2>1. 1 \in 1..1 /\ \A j \in 1..1 : j = 1 /\ ~ j < 1
        OBVIOUS
    <2> DEFINE s == <<r>>
    <2>2. IsRestore(s[1]) /\ Len(s) = 1
        BY <1>1
    <2> HIDE DEF s
    <2>3. RestoreFits(s, "Authenticating")
        BY <2>1, <2>2 DEF RestoreFits
    <2> QED
        BY <2>3 DEF s
<1>3. r.kind = "auth"
    BY DEF IsRestore
<1>4. Given("Authenticating", out) = {}
    BY DEF Given
<1>5. PutsAre(<<r>>, {})
    BY <1>1, <1>3 DEF PutsAre
<1>6. Count(<<r>>, "listen") = 0
    BY <1>3, CountOne
<1> QED
    BY <1>2, <1>4, <1>5, <1>6 DEF BoxInv

LEMMA ReadyStep ==
    ASSUME authToken \in Tokens, MessageTypes, MessageInv, OnReady
    PROVE  MessageTypes' /\ MessageInv'
<1> DEFINE box == Box(down, up)
<1>1. /\ BoxInv(box, state, unacked, outstandingPuts)
      /\ IsInterval(outstandingPuts, putCounter)
      /\ WritesFit(outstandingPuts, putsToAck, allWrites, putCounter)
    BY MessageInvIs
<1>2. /\ up \in Seq(Requests) /\ down \in Seq(Answers)
      /\ made \in [Queries -> 0..MaxListens] /\ listens \in SUBSET Queries
      /\ \A q \in listens : made[q] # 0
      /\ unacked \in Nat /\ putCounter \in 0..MaxPuts
    BY DEF MessageTypes
<1>3. /\ made' = made /\ listens' = listens /\ down' = down
      /\ putCounter' = putCounter /\ outstandingPuts' = outstandingPuts
      /\ putsToAck' = putsToAck /\ ran' = ran /\ last' = last
      /\ allWrites' = allWrites /\ visibleWrites' = visibleWrites
      /\ state = "Connecting"
    BY DEF OnReady, puts, writes
<1>4. box = <<>>
    BY <1>1, <1>3 DEF BoxInv, RestoreFits
<1>5. unacked = Count(box, "listen") /\ Count(box, "listen") = 0
    BY <1>1, <1>4, CountEmpty DEF BoxInv
<1>6. \/ authToken = None /\ state' = "Connected" /\ RestoreState(up)
      \/ /\ authToken # None
         /\ state' = "Authenticating"
         /\ up' = Append(up, AuthRequest(authToken, TRUE))
         /\ unacked' = unacked
    BY DEF OnReady
<1>7. /\ up' \in Seq(Requests) /\ unacked' \in Nat
      /\ BoxInv(Box(down', up'), state', unacked', outstandingPuts')
    <2>1. CASE state' = "Connected" /\ RestoreState(up)
        <3> PICK order \in Orders(listens) :
                /\ up' = up \o Listening(order) \o Putting(Sorted(outstandingPuts))
                /\ unacked' = unacked + Len(order)
            BY <2>1 DEF RestoreState
        <3> PICK k \in 0..putCounter : outstandingPuts = k + 1..putCounter
            BY <1>1 DEF IsInterval
        <3> DEFINE new == up \o Listening(order) \o Putting(Sorted(k + 1..putCounter))
        <3>1. (\A i \in 1..Len(box) : ~ IsRestore(box[i])) /\ \A i \in 1..Len(box) : box[i].kind # "put"
            BY <1>4
        <3>2. /\ new \in Seq(Requests) /\ Len(order) \in Nat
              /\ BoxInv(Box(down, new), "Connected", Count(box, "listen") + Len(order),
                        k + 1..putCounter)
            <4> HIDE DEF box
            <4>1. box = Box(down, up)
                BY DEF box
            <4> QED
                BY <1>2, <3>1, <4>1, RestoredStep
        <3>3. new = up'
            OBVIOUS
        <3> HIDE DEF new, box
        <3> QED
            BY <1>2, <1>3, <1>5, <2>1, <3>2, <3>3
    <2>2. CASE /\ authToken # None /\ state' = "Authenticating"
               /\ up' = Append(up, AuthRequest(authToken, TRUE))
               /\ unacked' = unacked
        <3> DEFINE r == AuthRequest(authToken, TRUE)
        <3>1. r \in Requests /\ IsRestore(r)
            BY <2>2 DEF AuthRequest, Requests, AuthRequests, IsRestore
        <3> HIDE DEF r
        <3>2. up' = Append(up, r)
            BY <2>2 DEF r
        <3>3. up' \in Seq(Requests)
            BY <1>2, <3>1, <3>2, AppendProperties
        <3>4. Box(down, up') = Append(box, r)
            BY <1>2, <3>1, <3>2, BoxAppend
        <3>5. Append(box, r) = <<r>>
            BY <1>4
        <3>6. BoxInv(<<r>>, "Authenticating", 0, outstandingPuts)
            BY <3>1, BoxAuth
        <3> HIDE DEF box
        <3> QED
            BY <1>2, <1>3, <1>5, <2>2, <3>3, <3>4, <3>5, <3>6
    <2> QED
        BY <1>6, <2>1, <2>2
<1>8. MessageTypes'
    BY <1>3, <1>7 DEF MessageTypes
<1>9. MessageInv'
    BY <1>1, <1>3, <1>7, MessageInvFrom
<1> QED
    BY <1>8, <1>9

LEMMA RefreshStep ==
    ASSUME MessageTypes, MessageInv, NEW token \in {None, "good"}, RefreshAuthToken(token)
    PROVE  MessageTypes' /\ MessageInv'
<1> DEFINE box == Box(down, up)
           r == AuthRequest(token, FALSE)
<1>1. /\ BoxInv(box, state, unacked, outstandingPuts)
      /\ IsInterval(outstandingPuts, putCounter)
      /\ WritesFit(outstandingPuts, putsToAck, allWrites, putCounter)
      /\ box \in Seq(Requests)
    BY MessageInvIs
<1>2. up \in Seq(Requests) /\ down \in Seq(Answers) /\ unacked \in Nat
    BY DEF MessageTypes
<1>3. /\ made' = made /\ listens' = listens /\ down' = down /\ unacked' = unacked
      /\ putCounter' = putCounter /\ outstandingPuts' = outstandingPuts
      /\ putsToAck' = putsToAck /\ ran' = ran /\ last' = last
      /\ allWrites' = allWrites /\ visibleWrites' = visibleWrites
      /\ state' = state
    BY DEF RefreshAuthToken, puts, writes, queries, link
<1>4. /\ up' \in Seq(Requests)
      /\ BoxInv(Box(down', up'), state', unacked', outstandingPuts')
    <2>1. CASE connected /\ token # None /\ up' = Append(up, r)
        <3>1. state \in {"Authenticating", "Connected"}
            BY <2>1 DEF connected
        <3>2. r \in Requests /\ r.kind = "auth" /\ ~ IsRestore(r)
            BY <2>1 DEF AuthRequest, Requests, AuthRequests, IsRestore, Tokens
        <3> HIDE DEF r
        <3>3. up' \in Seq(Requests) /\ Box(down, up') = Append(box, r)
            BY <1>2, <2>1, <3>2, BoxAppend, AppendProperties
        <3> HIDE DEF box
        <3>4. BoxInv(Append(box, r), state, unacked, outstandingPuts)
            BY <1>1, <1>2, <3>1, <3>2, BoxSent
        <3> QED
            BY <1>3, <3>3, <3>4
    <2>2. CASE up' = up
        BY <1>1, <1>2, <1>3, <2>2
    <2> QED
        BY <2>1, <2>2 DEF RefreshAuthToken
<1>5. MessageTypes'
    BY <1>3, <1>4 DEF MessageTypes
<1> QED
    BY <1>1, <1>3, <1>4, <1>5, MessageInvFrom

\* A listen is sent on every connection that is open
LEMMA ListenStep ==
    ASSUME MessageTypes, MessageInv, NEW q \in Queries, Listen(q)
    PROVE  MessageTypes' /\ MessageInv'
<1> DEFINE box == Box(down, up)
           r == [ListenRequest(q) EXCEPT !.spec = made'[q]]
<1>1. /\ BoxInv(box, state, unacked, outstandingPuts)
      /\ IsInterval(outstandingPuts, putCounter)
      /\ WritesFit(outstandingPuts, putsToAck, allWrites, putCounter)
      /\ box \in Seq(Requests)
    BY MessageInvIs
<1>2. /\ up \in Seq(Requests) /\ down \in Seq(Answers) /\ unacked \in Nat
      /\ made \in [Queries -> 0..MaxListens] /\ listens \subseteq Queries
      /\ \A p \in listens : made[p] # 0
    BY DEF MessageTypes
<1>3. /\ made' = [made EXCEPT ![q] = @ + 1] /\ listens' = listens \cup {q}
      /\ down' = down
      /\ putCounter' = putCounter /\ outstandingPuts' = outstandingPuts
      /\ putsToAck' = putsToAck /\ ran' = ran /\ last' = last
      /\ allWrites' = allWrites /\ visibleWrites' = visibleWrites
      /\ state' = state /\ made[q] < MaxListens
      /\ up' = (IF connected THEN Append(up, r) ELSE up)
      /\ unacked' = IF connected THEN unacked + 1 ELSE unacked
    BY DEF Listen, puts, writes, link
<1>4. made[q] \in Nat /\ MaxListens \in Nat /\ made'[q] = made[q] + 1
    BY <1>2, <1>3, ClientConstants
<1>5. /\ made' \in [Queries -> 0..MaxListens] /\ listens' \subseteq Queries
      /\ \A p \in listens' : made'[p] # 0
    BY <1>2, <1>3, <1>4
<1>6. r \in Requests /\ r.kind = "listen" /\ r.kind # "put" /\ ~ IsRestore(r)
    <2>1. r = [kind |-> "listen", query |-> q, spec |-> made'[q]]
        BY DEF ListenRequest
    <2>2. made'[q] \in 1..MaxListens
        BY <1>3, <1>4
    <2> HIDE DEF r
    <2> QED
        BY <2>1, <2>2 DEF Requests, ListenRequests, IsRestore
<1> HIDE DEF r
<1>7. /\ up' \in Seq(Requests) /\ unacked' \in Nat
      /\ BoxInv(Box(down', up'), state', unacked', outstandingPuts')
    <2>1. CASE connected
        <3>1. state \in {"Authenticating", "Connected"}
            BY <2>1 DEF connected
        <3>3. up' \in Seq(Requests) /\ Box(down, up') = Append(box, r)
            BY <1>2, <1>3, <2>1, <1>6, BoxAppend, AppendProperties
        <3> HIDE DEF box
        <3>4. BoxInv(Append(box, r), state, unacked + 1, outstandingPuts)
            <4>1. BoxInv(Append(box, r), state,
                         IF r.kind = "listen" THEN unacked + 1 ELSE unacked, outstandingPuts)
                BY <1>1, <1>2, <1>6, <3>1, BoxSent
            <4> QED
                BY <1>6, <4>1
        <3>5. unacked' = unacked + 1 /\ unacked' \in Nat
            BY <1>2, <1>3, <2>1
        <3>6. Box(down', up') = Append(box, r)
            BY <1>3, <3>3
        <3> QED
            BY <1>3, <3>3, <3>4, <3>5, <3>6
    <2>2. CASE ~ connected
        BY <1>1, <1>2, <1>3, <2>2
    <2> QED
        BY <2>1, <2>2
<1>8. MessageTypes'
    BY <1>3, <1>5, <1>7 DEF MessageTypes
<1> QED
    BY <1>1, <1>3, <1>7, <1>8, MessageInvFrom

\* An answer takes the place of its request
LEMMA ServerStep ==
    ASSUME MessageTypes, MessageInv, NEW ok \in BOOLEAN, ServerAnswers(ok)
    PROVE  MessageTypes' /\ MessageInv'
<1> DEFINE r == Head(up)
           e == [request |-> r, ok |-> ok]
<1>1. /\ BoxInv(Box(down, up), state, unacked, outstandingPuts)
      /\ IsInterval(outstandingPuts, putCounter)
      /\ WritesFit(outstandingPuts, putsToAck, allWrites, putCounter)
    BY MessageInvIs
<1>2. up \in Seq(Requests) /\ down \in Seq(Answers) /\ unacked \in Nat
    BY DEF MessageTypes
<1>3. /\ made' = made /\ listens' = listens /\ unacked' = unacked
      /\ putCounter' = putCounter /\ outstandingPuts' = outstandingPuts
      /\ putsToAck' = putsToAck /\ ran' = ran
      /\ last' = (IF r.kind = "put" /\ ok THEN r.id ELSE last)
      /\ allWrites' = allWrites /\ visibleWrites' = visibleWrites
      /\ state' = state /\ up # <<>>
      /\ up' = Tail(up) /\ down' = Append(down, e)
    BY DEF ServerAnswers, writes, queries, link
<1>4. r \in Requests /\ up' \in Seq(Requests)
    BY <1>2, <1>3, HeadTailProperties
<1>5. e \in Answers
    BY <1>4 DEF Answers
<1>6. last' \in 0..MaxPuts
    <2>1. r.kind = "put" => r.id \in 1..MaxPuts
        BY <1>4 DEF Requests, AuthRequests, ListenRequests, PutRequests
    <2>2. last \in 0..MaxPuts /\ MaxPuts \in Nat
        BY ClientConstants DEF MessageTypes
    <2> HIDE DEF r
    <2> QED
        BY <1>3, <2>1, <2>2
<1>7. down' \in Seq(Answers)
    <2> HIDE DEF e
    <2> QED
        BY <1>2, <1>3, <1>5, AppendProperties
<1>8. Box(down', up') = Box(down, up)
    BY <1>2, <1>3, BoxAnswer
<1>9. MessageTypes'
    BY <1>3, <1>4, <1>6, <1>7 DEF MessageTypes
<1> QED
    BY <1>1, <1>3, <1>8, <1>9, MessageInvFrom

\* A put is sent when the connection is Connected, and its write is there
LEMMA PutStep ==
    ASSUME MessageTypes, MessageInv, NEW path \in Paths, PutData(path)
    PROVE  MessageTypes' /\ MessageInv'
<1> DEFINE box == Box(down, up)
           id == putCounter + 1
           r == PutRequest(id)
           w == [id |-> id, path |-> path]
<1>1. /\ BoxInv(box, state, unacked, outstandingPuts)
      /\ IsInterval(outstandingPuts, putCounter)
      /\ WritesFit(outstandingPuts, putsToAck, allWrites, putCounter)
      /\ box \in Seq(Requests)
    BY MessageInvIs
<1>2. /\ up \in Seq(Requests) /\ down \in Seq(Answers) /\ unacked \in Nat
      /\ putCounter \in 0..MaxPuts /\ outstandingPuts \subseteq 1..MaxPuts
      /\ putsToAck \in Seq(1..MaxPuts)
      /\ allWrites \in Seq(RecordsTo(MaxPuts)) /\ visibleWrites \in TreesTo(MaxPuts)
      /\ MaxPuts \in Nat
    BY ClientConstants DEF MessageTypes
<1>3. /\ made' = made /\ listens' = listens /\ unacked' = unacked /\ down' = down
      /\ putCounter' = id /\ outstandingPuts' = outstandingPuts \cup {id}
      /\ putsToAck' = putsToAck /\ ran' = ran /\ last' = last
      /\ allWrites' = Append(allWrites, w) /\ visibleWrites' = AddWrite(visibleWrites, w)
      /\ state' = state /\ putCounter < MaxPuts
      /\ up' = (IF state = "Connected" THEN Append(up, r) ELSE up)
    BY DEF PutData, AddOverwrite, queries, link, canSendWrites
<1>4. id \in 1..MaxPuts /\ putCounter \in Nat /\ id \in Nat
    BY <1>2, <1>3
<1>5. r \in Requests /\ r.kind = "put" /\ r.id = id
    BY <1>4 DEF PutRequest, Requests, PutRequests
<1>6. w \in RecordsTo(MaxPuts) /\ w.id = id
    BY <1>4 DEF RecordsTo
<1>7. AddWrite(visibleWrites, w) \in TreesTo(MaxPuts)
    BY <1>2, <1>4 DEF AddWrite, TreesTo
<1> HIDE DEF w, r
<1>8. /\ allWrites' \in Seq(RecordsTo(MaxPuts)) /\ visibleWrites' \in TreesTo(MaxPuts)
      /\ outstandingPuts' \subseteq 1..MaxPuts /\ putCounter' \in 0..MaxPuts
    BY <1>2, <1>3, <1>4, <1>6, <1>7
<1> PICK k \in 0..putCounter : outstandingPuts = k + 1..putCounter
    BY <1>1 DEF IsInterval
<1>9. /\ up' \in Seq(Requests)
      /\ BoxInv(Box(down', up'), state', unacked', outstandingPuts')
    <2>1. CASE state = "Connected"
        <3>1. up' \in Seq(Requests) /\ Box(down', up') = Append(box, r)
            BY <1>2, <1>3, <1>5, <2>1, BoxAppend, AppendProperties
        <3>2. PutsAre(box, outstandingPuts)
            BY <1>1, <2>1 DEF BoxInv, Given
        <3>3. \A p \in outstandingPuts : p < r.id
            BY <1>4, <1>5
        <3> HIDE DEF box
        <3>4. PutsAre(Append(box, r), outstandingPuts \cup {r.id})
            BY <1>1, <1>5, <3>2, <3>3, PutsAppendNext
        <3>5. Given(state, outstandingPuts') = outstandingPuts \cup {r.id}
            BY <1>3, <1>5, <2>1 DEF Given
        <3>6. RestoreFits(Append(box, r), state)
            <4>1. ~ IsRestore(r)
                BY <1>5 DEF IsRestore
            <4> QED
                BY <1>1, <1>5, <2>1, <4>1, RestoreAppend DEF BoxInv
        <3>7. Count(Append(box, r), "listen") = Count(box, "listen")
            BY <1>1, <1>5, CountAppend
        <3>8. unacked = Count(box, "listen")
            BY <1>1 DEF BoxInv
        <3>9. BoxInv(Append(box, r), state, unacked, outstandingPuts')
            BY <3>4, <3>5, <3>6, <3>7, <3>8 DEF BoxInv
        <3> QED
            BY <1>3, <3>1, <3>9
    <2>2. CASE state # "Connected"
        <3>1. Given(state, outstandingPuts') = Given(state, outstandingPuts)
            BY <2>2 DEF Given
        <3>2. BoxInv(box, state, unacked, outstandingPuts')
            BY <1>1, <3>1 DEF BoxInv
        <3> QED
            BY <1>2, <1>3, <2>2, <3>2
    <2> QED
        BY <2>1, <2>2
<1>10. IsInterval(outstandingPuts', putCounter')
    <2>1. outstandingPuts' = k + 1..id /\ k \in 0..id
        BY <1>3, <1>4
    <2> QED
        BY <1>3, <2>1 DEF IsInterval
<1>11. WritesFit(outstandingPuts', putsToAck', allWrites', putCounter')
    <2>1. \A p : Has(allWrites, p) \/ p = id => Has(allWrites', p)
        <3>1. /\ Len(allWrites') = Len(allWrites) + 1 /\ Len(allWrites) \in Nat
              /\ allWrites'[Len(allWrites) + 1] = w
              /\ \A i \in 1..Len(allWrites) : allWrites'[i] = allWrites[i]
            BY <1>2, <1>3, <1>6, AppendProperties
        <3>2. Has(allWrites', id)
            BY <1>6, <3>1 DEF Has
        <3>3. ASSUME NEW p, Has(allWrites, p) PROVE Has(allWrites', p)
            BY <3>1, <3>3 DEF Has
        <3> QED
            BY <3>2, <3>3
    <2>2. /\ \A i \in 1..Len(putsToAck) : putsToAck[i] \in 1..putCounter \ outstandingPuts
          /\ \A i, j \in 1..Len(putsToAck) : i # j => putsToAck[i] # putsToAck[j]
          /\ \A p \in outstandingPuts : Has(allWrites, p)
          /\ \A i \in 1..Len(putsToAck) : Has(allWrites, putsToAck[i])
        BY <1>1 DEF WritesFit
    <2>3. \A x \in 1..putCounter \ outstandingPuts : x \in 1..id \ (outstandingPuts \cup {id})
        BY <1>4
    <2>4. /\ \A i \in 1..Len(putsToAck) :
                 putsToAck[i] \in 1..id \ (outstandingPuts \cup {id})
          /\ \A p \in outstandingPuts \cup {id} : Has(allWrites', p)
          /\ \A i \in 1..Len(putsToAck) : Has(allWrites', putsToAck[i])
        BY <2>1, <2>2, <2>3
    <2> HIDE DEF id
    <2> QED
        BY <1>3, <2>2, <2>4 DEF WritesFit
<1>12. MessageTypes'
    BY <1>3, <1>8, <1>9 DEF MessageTypes
<1> QED
    BY <1>9, <1>10, <1>11, <1>12, MessageInvFrom

LEMMA RunBlocksTyped ==
    ASSUME MessageTypes, NEW ids \in Seq(1..MaxPuts), RunBlocks(ids),
           \A i \in 1..Len(ids) : Has(allWrites, ids[i]),
           \A i, j \in 1..Len(ids) : i # j => ids[i] # ids[j]
    PROVE  /\ ran' \in Seq(1..MaxPuts)
           /\ allWrites' \in Seq(RecordsTo(MaxPuts))
           /\ visibleWrites' \in TreesTo(MaxPuts)
           /\ \A p : Has(allWrites, p) /\ (\A i \in 1..Len(ids) : ids[i] # p) =>
                        Has(allWrites', p)
<1> DEFINE new == RemoveWrites([all |-> allWrites, visible |-> visibleWrites], ids)
<1>1. /\ MaxPuts \in Nat /\ allWrites \in Seq(RecordsTo(MaxPuts))
      /\ visibleWrites \in TreesTo(MaxPuts) /\ ran \in Seq(1..MaxPuts)
    BY ClientConstants DEF MessageTypes
<1>2. ran' = ran \o ids /\ allWrites' = new.all /\ visibleWrites' = new.visible
    BY DEF RunBlocks, AckUserWrites
<1>3. /\ new.all \in Seq(RecordsTo(MaxPuts)) /\ new.visible \in TreesTo(MaxPuts)
      /\ \A p : Has(allWrites, p) /\ (\A i \in 1..Len(ids) : ids[i] # p) => Has(new.all, p)
    BY <1>1, RemoveWritesTyped
<1>4. ran' \in Seq(1..MaxPuts)
    BY <1>1, <1>2, ConcatProperties
<1> QED
    BY <1>2, <1>3, <1>4

\* The oldest of the puts is answered; what runs or waits has its write
LEMMA PutAnsweredStep ==
    ASSUME MessageTypes, MessageInv, down # <<>>, NEW r, r = Head(down).request,
           r.kind = "put", PutAnswered(r), down' = Tail(down)
    PROVE  /\ MessageTypes' /\ MessageInv'
           /\ state = "Connected"
           /\ \E k \in Nat : /\ k < putCounter /\ r.id = k + 1
                             /\ outstandingPuts = k + 1..putCounter
                             /\ outstandingPuts' = (k + 1) + 1..putCounter
<1> DEFINE box == Box(down, up)
<1>1. /\ BoxInv(box, state, unacked, outstandingPuts)
      /\ IsInterval(outstandingPuts, putCounter)
      /\ WritesFit(outstandingPuts, putsToAck, allWrites, putCounter)
      /\ box \in Seq(Requests)
    BY MessageInvIs
<1>2. /\ up \in Seq(Requests) /\ down \in Seq(Answers) /\ unacked \in Nat
      /\ putCounter \in 0..MaxPuts /\ outstandingPuts \subseteq 1..MaxPuts
      /\ outstandingPuts \in SUBSET Nat
      /\ putsToAck \in Seq(1..MaxPuts) /\ ran \in Seq(1..MaxPuts)
      /\ allWrites \in Seq(RecordsTo(MaxPuts)) /\ visibleWrites \in TreesTo(MaxPuts)
      /\ MaxPuts \in Nat
    BY ClientConstants DEF MessageTypes
<1>3. /\ made' = made /\ listens' = listens /\ unacked' = unacked
      /\ putCounter' = putCounter /\ outstandingPuts' = outstandingPuts \ {r.id}
      /\ last' = last /\ state' = state /\ up' = up
    BY DEF PutAnswered, queries, link
<1>4. /\ down' \in Seq(Answers) /\ box # <<>> /\ Head(box) = r
      /\ Box(down', up') = Tail(box)
    BY <1>2, <1>3, BoxTail
<1>5. /\ state = "Connected" /\ r.id \in outstandingPuts
      /\ \A p \in outstandingPuts \ {r.id} : r.id < p
      /\ BoxInv(Tail(box), state, unacked, outstandingPuts \ {r.id})
    <2> HIDE DEF box
    <2> QED
        BY <1>1, <1>2, <1>4, BoxPutTaken
<1> HIDE DEF box
<1> PICK k \in 0..putCounter : outstandingPuts = k + 1..putCounter
    BY <1>1 DEF IsInterval
<1>6. /\ k \in Nat /\ putCounter \in Nat /\ r.id \in k + 1..putCounter
      /\ r.id \in 1..MaxPuts
    BY <1>2, <1>5
<1>7. r.id = k + 1
    <2>1. k + 1 \in outstandingPuts
        BY <1>6
    <2>2. ~ r.id < k + 1 => r.id = k + 1 \/ r.id > k + 1
        BY <1>6
    <2> QED
        BY <1>5, <1>6, <2>1, <2>2
<1>8. outstandingPuts' = (k + 1) + 1..putCounter /\ k + 1 \in 0..putCounter
    BY <1>3, <1>6, <1>7
<1>9. IsInterval(outstandingPuts', putCounter')
    BY <1>3, <1>8 DEF IsInterval
<1>10. /\ \A i \in 1..Len(putsToAck) : putsToAck[i] \in 1..putCounter \ outstandingPuts
       /\ \A i, j \in 1..Len(putsToAck) : i # j => putsToAck[i] # putsToAck[j]
       /\ \A p \in outstandingPuts : Has(allWrites, p)
       /\ \A i \in 1..Len(putsToAck) : Has(allWrites, putsToAck[i])
    BY <1>1 DEF WritesFit
<1>11. /\ putsToAck' \in Seq(1..MaxPuts) /\ ran' \in Seq(1..MaxPuts)
       /\ allWrites' \in Seq(RecordsTo(MaxPuts)) /\ visibleWrites' \in TreesTo(MaxPuts)
       /\ WritesFit(outstandingPuts', putsToAck', allWrites', putCounter')
    <2>1. CASE unacked = 0
        <3> DEFINE ids == <<r.id>>
        <3>1. RunBlocks(ids) /\ putsToAck' = putsToAck
            BY <2>1 DEF PutAnswered
        <3>2. ids \in Seq(1..MaxPuts) /\ Len(ids) = 1 /\ ids[1] = r.id
            BY <1>6
        <3>3. /\ \A i \in 1..Len(ids) : Has(allWrites, ids[i])
              /\ \A i, j \in 1..Len(ids) : i # j => ids[i] # ids[j]
            BY <1>5, <1>10, <3>2
        <3> HIDE DEF ids
        <3>4. /\ ran' \in Seq(1..MaxPuts)
              /\ allWrites' \in Seq(RecordsTo(MaxPuts))
              /\ visibleWrites' \in TreesTo(MaxPuts)
              /\ \A p : Has(allWrites, p) /\ (\A i \in 1..Len(ids) : ids[i] # p) =>
                           Has(allWrites', p)
            BY <3>1, <3>2, <3>3, RunBlocksTyped
        <3>5. \A p : Has(allWrites, p) /\ p # r.id => Has(allWrites', p)
            BY <3>2, <3>4
        <3>6. /\ \A i \in 1..Len(putsToAck) : putsToAck[i] # r.id
              /\ \A p \in outstandingPuts' : p # r.id
            BY <1>3, <1>5, <1>10
        <3>7. WritesFit(outstandingPuts', putsToAck, allWrites', putCounter)
            BY <1>3, <1>10, <3>5, <3>6 DEF WritesFit
        <3> QED
            BY <1>2, <1>3, <3>1, <3>4, <3>7
    <2>2. CASE unacked # 0
        <3> DEFINE n == Len(putsToAck)
        <3>1. /\ putsToAck' = Append(putsToAck, r.id) /\ ran' = ran
              /\ allWrites' = allWrites /\ visibleWrites' = visibleWrites
            BY <2>2 DEF PutAnswered, writes
        <3>2. /\ putsToAck' \in Seq(1..MaxPuts) /\ Len(putsToAck') = n + 1 /\ n \in Nat
              /\ putsToAck'[n + 1] = r.id
              /\ \A i \in 1..n : putsToAck'[i] = putsToAck[i]
            BY <1>2, <1>6, <3>1, AppendProperties
        <3>3. /\ \A i \in 1..n : putsToAck[i] \in 1..putCounter \ outstandingPuts
              /\ \A i, j \in 1..n : i # j => putsToAck[i] # putsToAck[j]
              /\ \A i \in 1..n : Has(allWrites, putsToAck[i])
              /\ \A i \in 1..n : putsToAck[i] # r.id
            BY <1>5, <1>10
        <3> HIDE DEF n
        <3>4. \A i \in 1..n + 1 : i \in 1..n \/ i = n + 1
            BY <3>2
        <3>5. /\ r.id \in 1..putCounter \ outstandingPuts'
              /\ \A x \in 1..putCounter \ outstandingPuts : x \in 1..putCounter \ outstandingPuts'
            BY <1>3, <1>6
        <3>6. \A i \in 1..n + 1 : putsToAck'[i] \in 1..putCounter \ outstandingPuts'
            BY <3>2, <3>3, <3>4, <3>5
        <3>7. \A i, j \in 1..n + 1 : i # j => putsToAck'[i] # putsToAck'[j]
            BY <3>2, <3>3, <3>4
        <3>8. \A i \in 1..n + 1 : Has(allWrites, putsToAck'[i])
            BY <1>5, <1>10, <3>2, <3>3, <3>4
        <3>9. \A p \in outstandingPuts' : Has(allWrites, p)
            BY <1>3, <1>10
        <3>10. WritesFit(outstandingPuts', putsToAck', allWrites, putCounter)
            BY <3>2, <3>6, <3>7, <3>8, <3>9 DEF WritesFit
        <3> QED
            BY <1>2, <1>3, <3>1, <3>2, <3>10
    <2> QED
        BY <2>1, <2>2
<1>12. BoxInv(Box(down', up'), state', unacked', outstandingPuts')
    BY <1>3, <1>4, <1>5
<1>13. MessageTypes'
    <2>1. outstandingPuts' \subseteq 1..MaxPuts
        BY <1>2, <1>3
    <2>2. \A q \in listens' : made'[q] # 0
        BY <1>3 DEF MessageTypes
    <2> QED
        BY <1>2, <1>3, <1>4, <1>11, <2>1, <2>2 DEF MessageTypes
<1>14. k < putCounter
    BY <1>6
<1> QED
    BY <1>5, <1>6, <1>7, <1>8, <1>9, <1>11, <1>12, <1>13, <1>14, MessageInvFrom

\* An answer to a listen: the last one runs the blocks that have waited
LEMMA ListenAnsweredStep ==
    ASSUME MessageTypes, MessageInv, down # <<>>, NEW r, r = Head(down).request,
           r.kind = "listen", NEW ok, ListenAnswered(r, ok), down' = Tail(down)
    PROVE  MessageTypes' /\ MessageInv' /\ unacked' \in Nat
<1> DEFINE box == Box(down, up)
<1>1. /\ BoxInv(box, state, unacked, outstandingPuts)
      /\ IsInterval(outstandingPuts, putCounter)
      /\ WritesFit(outstandingPuts, putsToAck, allWrites, putCounter)
      /\ box \in Seq(Requests)
    BY MessageInvIs
<1>2. /\ up \in Seq(Requests) /\ down \in Seq(Answers) /\ unacked \in Nat
      /\ putsToAck \in Seq(1..MaxPuts) /\ ran \in Seq(1..MaxPuts)
      /\ allWrites \in Seq(RecordsTo(MaxPuts)) /\ visibleWrites \in TreesTo(MaxPuts)
    BY DEF MessageTypes
<1>3. /\ made' = made /\ listens' \subseteq listens /\ unacked' = unacked - 1
      /\ putCounter' = putCounter /\ outstandingPuts' = outstandingPuts
      /\ last' = last /\ state' = state /\ up' = up
    BY DEF ListenAnswered, link
<1>4. /\ down' \in Seq(Answers) /\ box # <<>> /\ Head(box) = r
      /\ Box(down', up') = Tail(box)
    BY <1>2, <1>3, BoxTail
<1>5. unacked' \in Nat /\ BoxInv(Tail(box), state, unacked', outstandingPuts)
    <2> HIDE DEF box
    <2>1. /\ BoxInv(Tail(box), state,
                    IF Head(box).kind = "listen" THEN unacked - 1 ELSE unacked, outstandingPuts)
          /\ Head(box).kind = "listen" => unacked # 0
        BY <1>1, <1>2, <1>4, BoxTaken
    <2>2. unacked - 1 \in Nat
        BY <1>2, <1>4, <2>1
    <2> QED
        BY <1>3, <1>4, <2>1, <2>2
<1> HIDE DEF box
<1>6. /\ \A i \in 1..Len(putsToAck) : putsToAck[i] \in 1..putCounter \ outstandingPuts
      /\ \A i, j \in 1..Len(putsToAck) : i # j => putsToAck[i] # putsToAck[j]
      /\ \A p \in outstandingPuts : Has(allWrites, p)
      /\ \A i \in 1..Len(putsToAck) : Has(allWrites, putsToAck[i])
    BY <1>1 DEF WritesFit
<1>7. /\ putsToAck' \in Seq(1..MaxPuts) /\ ran' \in Seq(1..MaxPuts)
      /\ allWrites' \in Seq(RecordsTo(MaxPuts)) /\ visibleWrites' \in TreesTo(MaxPuts)
      /\ WritesFit(outstandingPuts', putsToAck', allWrites', putCounter')
    <2>1. CASE unacked' = 0
        <3>1. RunBlocks(putsToAck) /\ putsToAck' = <<>>
            BY <2>1 DEF ListenAnswered
        <3>2. /\ ran' \in Seq(1..MaxPuts)
              /\ allWrites' \in Seq(RecordsTo(MaxPuts))
              /\ visibleWrites' \in TreesTo(MaxPuts)
              /\ \A p : Has(allWrites, p) /\ (\A i \in 1..Len(putsToAck) : putsToAck[i] # p) =>
                           Has(allWrites', p)
            BY <1>2, <1>6, <3>1, RunBlocksTyped
        <3>3. \A p \in outstandingPuts : Has(allWrites', p)
            BY <1>6, <3>2
        <3>4. WritesFit(outstandingPuts, <<>>, allWrites', putCounter)
            <4> DEFINE s == <<>>
            <4>1. Len(s) = 0 /\ 1..0 = {}
                OBVIOUS
            <4> HIDE DEF s
            <4>2. WritesFit(outstandingPuts, s, allWrites', putCounter)
                BY <3>3, <4>1 DEF WritesFit
            <4> QED
                BY <4>2 DEF s
        <3> QED
            BY <1>3, <3>1, <3>2, <3>4
    <2>2. CASE unacked' # 0
        <3>1. /\ putsToAck' = putsToAck /\ ran' = ran
              /\ allWrites' = allWrites /\ visibleWrites' = visibleWrites
            BY <2>2 DEF ListenAnswered, writes
        <3> QED
            BY <1>1, <1>2, <1>3, <3>1
    <2> QED
        BY <2>1, <2>2
<1>8. BoxInv(Box(down', up'), state', unacked', outstandingPuts')
    BY <1>3, <1>4, <1>5
<1>9. IsInterval(outstandingPuts', putCounter')
    BY <1>1, <1>3
<1>10. MessageTypes'
    <2>1. listens' \subseteq Queries /\ \A q \in listens' : made'[q] # 0
        BY <1>3 DEF MessageTypes
    <2>2. /\ made' \in [Queries -> 0..MaxListens] /\ putCounter' \in 0..MaxPuts
          /\ outstandingPuts' \subseteq 1..MaxPuts /\ last' \in 0..MaxPuts
          /\ up' \in Seq(Requests)
        BY <1>3 DEF MessageTypes
    <2> QED
        BY <1>4, <1>5, <1>7, <2>1, <2>2 DEF MessageTypes
<1> QED
    BY <1>5, <1>7, <1>8, <1>9, <1>10, MessageInvFrom

\* An authentication that restores nothing is one of a restored connection
LEMMA AuthKind ==
    ASSUME MessageTypes, MessageInv, down # <<>>,
           Head(down).request.kind = "auth", ~ Head(down).request.restore
    PROVE  state = "Connected"
<1> DEFINE box == Box(down, up)
<1>1. BoxInv(box, state, unacked, outstandingPuts) /\ box \in Seq(Requests)
    BY MessageInvIs
<1>2. box # <<>> /\ Head(box) = Head(down).request
    BY BoxTail DEF MessageTypes
<1> HIDE DEF box
<1>3. state # "Authenticating"
    BY <1>1, <1>2, RestoreFirst DEF BoxInv, IsRestore
<1> QED
    BY <1>1, <1>2, <1>3 DEF BoxInv, RestoreFits

\* The answer to an authentication that restores comes when no put is sent
LEMMA AuthAnsweredStep ==
    ASSUME MessageTypes, MessageInv, down # <<>>, NEW r, r = Head(down).request,
           r.kind = "auth", NEW ok, AuthAnswered(r, ok)
    PROVE  MessageTypes' /\ MessageInv'
<1> DEFINE box == Box(down, up)
<1>1. /\ BoxInv(box, state, unacked, outstandingPuts)
      /\ IsInterval(outstandingPuts, putCounter)
      /\ WritesFit(outstandingPuts, putsToAck, allWrites, putCounter)
      /\ box \in Seq(Requests)
    BY MessageInvIs
<1>2. /\ up \in Seq(Requests) /\ down \in Seq(Answers) /\ unacked \in Nat
      /\ made \in [Queries -> 0..MaxListens] /\ listens \in SUBSET Queries
      /\ \A q \in listens : made[q] # 0
      /\ putCounter \in 0..MaxPuts
    BY DEF MessageTypes
<1>3. /\ made' = made /\ listens' = listens
      /\ putCounter' = putCounter /\ outstandingPuts' = outstandingPuts
      /\ putsToAck' = putsToAck /\ ran' = ran /\ last' = last
      /\ allWrites' = allWrites /\ visibleWrites' = visibleWrites
    BY DEF AuthAnswered, puts, writes
<1>4. /\ Tail(down) \in Seq(Answers) /\ box # <<>> /\ Head(box) = r
      /\ Box(Tail(down), up) = Tail(box) /\ Tail(box) \in Seq(Requests)
    <2>1. /\ Tail(down) \in Seq(Answers) /\ box # <<>> /\ Head(box) = r
          /\ Box(Tail(down), up) = Tail(box)
        BY <1>2, BoxTail
    <2> HIDE DEF box
    <2> QED
        BY <1>1, <2>1, HeadTailProperties
<1>6. ASSUME state' = "Connected", down' = Tail(down), up' \in Seq(Requests),
             unacked' \in Nat,
             BoxInv(Box(Tail(down), up'), "Connected", unacked', outstandingPuts)
      PROVE  MessageTypes' /\ MessageInv'
    <2>1. MessageTypes'
        BY <1>3, <1>4, <1>6 DEF MessageTypes
    <2> QED
        BY <1>1, <1>3, <1>6, <2>1, MessageInvFrom
<1>7. CASE /\ state' = "Connected" /\ down' = Tail(down) /\ r.restore /\ RestoreState(up)
    <2>1. state = "Authenticating"
        <3>1. box[1] = r /\ 1 \in 1..Len(box)
            BY <1>1, <1>4
        <3>2. IsRestore(r)
            BY <1>7 DEF IsRestore
        <3> HIDE DEF box
        <3> QED
            BY <1>1, <1>4, <3>1, <3>2 DEF BoxInv, RestoreFits
    <2>2. \A i \in 1..Len(Tail(box)) : ~ IsRestore(Tail(box)[i])
        <3> HIDE DEF box
        <3> QED
            BY <1>1, <1>4, <2>1, RestoreFirst DEF BoxInv
    <2>3. PutsAre(Tail(box), {})
        <3>1. Given(state, outstandingPuts) = {}
            BY <2>1 DEF Given
        <3> HIDE DEF box
        <3>2. PutsAre(box, {})
            BY <1>1, <3>1 DEF BoxInv
        <3> QED
            BY <1>1, <1>4, <3>2, PutsTailOther
    <2>4. \A i \in 1..Len(Tail(box)) : Tail(box)[i].kind # "put"
        <3> HIDE DEF box
        <3> QED
            BY <2>3 DEF PutsAre
    <2>5. unacked = Count(Tail(box), "listen")
        <3> HIDE DEF box
        <3>1. Count(box, "listen") = Count(Tail(box), "listen")
            BY <1>1, <1>4, CountTail
        <3> QED
            BY <1>1, <3>1 DEF BoxInv
    <2> PICK order \in Orders(listens) :
            /\ up' = up \o Listening(order) \o Putting(Sorted(outstandingPuts))
            /\ unacked' = unacked + Len(order)
        BY <1>7 DEF RestoreState
    <2> PICK k \in 0..putCounter : outstandingPuts = k + 1..putCounter
        BY <1>1 DEF IsInterval
    <2> DEFINE new == up \o Listening(order) \o Putting(Sorted(k + 1..putCounter))
               t == Tail(box)
    <2>6. /\ new \in Seq(Requests) /\ Len(order) \in Nat
          /\ BoxInv(Box(Tail(down), new), "Connected", Count(t, "listen") + Len(order),
                    k + 1..putCounter)
        <3>1. /\ t = Box(Tail(down), up)
              /\ \A i \in 1..Len(t) : ~ IsRestore(t[i])
              /\ \A i \in 1..Len(t) : t[i].kind # "put"
            BY <1>4, <2>2, <2>4
        <3> HIDE DEF t
        <3> QED
            BY <1>2, <1>4, <3>1, RestoredStep
    <2>7. new = up'
        OBVIOUS
    <2> HIDE DEF new, box, t
    <2>8. unacked = Count(t, "listen")
        BY <2>5 DEF t
    <2> QED
        BY <1>2, <1>6, <1>7, <2>6, <2>7, <2>8
<1>8. CASE state' = "Connected" /\ down' = Tail(down) /\ ~ r.restore /\ UNCHANGED <<up, unacked>>
    <2>2. state = "Connected"
        BY <1>8, AuthKind
    <2>3. BoxInv(Tail(box), "Connected", unacked, outstandingPuts)
        <3> HIDE DEF box
        <3>1. BoxInv(Tail(box), state,
                     IF Head(box).kind = "listen" THEN unacked - 1 ELSE unacked, outstandingPuts)
            BY <1>1, <1>2, <1>4, <2>2, BoxTaken
        <3> QED
            BY <1>4, <2>2, <3>1
    <2> HIDE DEF box
    <2> QED
        BY <1>2, <1>4, <1>6, <1>8, <2>3
<1> HIDE DEF box
<1>9. \/ /\ ok /\ state' = "Connected" /\ down' = Tail(down)
         /\ IF r.restore THEN RestoreState(up) ELSE UNCHANGED <<up, unacked>>
      \/ OnDisconnect(TRUE, interruptReasons)
    BY DEF AuthAnswered
<1>10. CASE OnDisconnect(TRUE, interruptReasons)
    <2>1. UNCHANGED <<listens, made, puts, writes>>
        BY DEF AuthAnswered
    <2> QED
        BY <1>10, <2>1, LostStep
<1> QED
    BY <1>7, <1>8, <1>9, <1>10

LEMMA MessageStep ==
    ASSUME LinkInv, LinkTypes, MessageTypes, MessageInv, [Next]_vars
    PROVE  MessageTypes' /\ MessageInv'
<1>1. NeverStranded /\ WireInv /\ authToken \in Tokens
    BY DEF LinkInv, LinkTypes
<1>2. CASE Resume
    <2>1. /\ listens' \subseteq listens /\ UNCHANGED <<made, unacked, wire, puts, writes>>
          /\ state' = state
        BY <1>2 DEF Resume, ResumeForReason, queries
    <2> QED
        BY <2>1, QuietStep
<1>3. CASE Interrupt
    <2> PICK r \in {"repo_interrupt", "server_kill"} : InterruptForReason(r)
        BY <1>3 DEF Interrupt
    <2>1. CASE OnDisconnect(forceRefresh, interruptReasons')
        <3>1. UNCHANGED <<listens, made, puts, writes>>
            BY DEF InterruptForReason
        <3> QED
            BY <2>1, <3>1, LostStep
    <2>2. CASE state \notin Realtime /\ state' = "Disconnected" /\ UNCHANGED <<wire, unacked>>
        <3>1. /\ listens' \subseteq listens /\ UNCHANGED <<made, unacked, wire, puts, writes>>
              /\ state \notin {"Authenticating", "Connected"}
              /\ state' \notin {"Authenticating", "Connected"}
            BY <2>2 DEF InterruptForReason, Realtime
        <3> QED
            BY <3>1, QuietStep
    <2> QED
        BY <2>1, <2>2 DEF InterruptForReason
<1>4. CASE Reachable
    <2>1. /\ listens' \subseteq listens /\ UNCHANGED <<made, unacked, wire, puts, writes>>
          /\ state' = state
        BY <1>4 DEF Reachable, queries
    <2> QED
        BY <2>1, QuietStep
<1>5. CASE FetchToken
    <2>1. /\ listens' \subseteq listens /\ UNCHANGED <<made, unacked, wire, puts, writes>>
          /\ state = "Disconnected" /\ state' = "GettingToken"
        BY <1>1, <1>5 DEF FetchToken, queries, NeverStranded
    <2> QED
        BY <2>1, QuietStep
<1>6. ASSUME NEW f \in fetching, TokenFetched(f)
      PROVE  MessageTypes' /\ MessageInv'
    <2>1. /\ listens' \subseteq listens /\ UNCHANGED <<made, unacked, wire, puts, writes>>
          /\ \/ state = "GettingToken" /\ state' = "Connecting"
             \/ state' = state
        BY <1>6 DEF TokenFetched, queries
    <2> QED
        BY <2>1, QuietStep
<1>7. ASSUME NEW f \in fetching, TokenFailed(f)
      PROVE  MessageTypes' /\ MessageInv'
    <2>1. /\ listens' \subseteq listens /\ UNCHANGED <<made, unacked, wire, puts, writes>>
          /\ \/ f.n = attempt /\ state' = "Disconnected"
             \/ state' = state
        BY <1>7 DEF TokenFailed, queries
    <2>2. f.n = attempt => state \notin {"Authenticating", "Connected"}
        BY DEF LinkInv, FetchInv, Realtime
    <2> QED
        BY <2>1, <2>2, QuietStep
<1>8. CASE OnReady
    BY <1>1, <1>8, ReadyStep
<1>9. CASE ConnectionLost
    <2>1. OnDisconnect(forceRefresh, interruptReasons) /\ UNCHANGED <<listens, made, puts, writes>>
        BY <1>9 DEF ConnectionLost
    <2> QED
        BY <2>1, LostStep
<1>10. CASE AuthRevoked
    <2>1. OnDisconnect(TRUE, interruptReasons) /\ UNCHANGED <<listens, made, puts, writes>>
        BY <1>10 DEF AuthRevoked
    <2> QED
        BY <2>1, LostStep
<1>11. ASSUME NEW path \in Paths, PutData(path)
       PROVE  MessageTypes' /\ MessageInv'
    BY <1>11, PutStep
<1>12. ASSUME NEW q \in Queries, Listen(q)
       PROVE  MessageTypes' /\ MessageInv'
    BY <1>12, ListenStep
<1>13. ASSUME NEW q \in Queries, Unlisten(q)
       PROVE  MessageTypes' /\ MessageInv'
    <2>1. /\ listens' \subseteq listens /\ UNCHANGED <<made, unacked, wire, puts, writes>>
          /\ state' = state
        BY <1>13 DEF Unlisten, link
    <2> QED
        BY <2>1, QuietStep
<1>14. ASSUME NEW token \in {None, "good"}, RefreshAuthToken(token)
       PROVE  MessageTypes' /\ MessageInv'
    BY <1>14, RefreshStep
<1>15. ASSUME NEW ok \in BOOLEAN, ServerAnswers(ok)
       PROVE  MessageTypes' /\ MessageInv'
    BY <1>15, ServerStep
<1>16. CASE OnDataMessage
    <2> DEFINE r == Head(down).request
               ok == Head(down).ok
    <2>1. /\ down # <<>>
          /\ \/ r.kind = "put" /\ PutAnswered(r) /\ down' = Tail(down)
             \/ r.kind = "listen" /\ ListenAnswered(r, ok) /\ down' = Tail(down)
             \/ r.kind = "auth" /\ AuthAnswered(r, ok)
        BY <1>16 DEF OnDataMessage
    <2>2. r = Head(down).request
        OBVIOUS
    <2> HIDE DEF r, ok
    <2>3. CASE r.kind = "put" /\ PutAnswered(r) /\ down' = Tail(down)
        BY <2>1, <2>2, <2>3, PutAnsweredStep
    <2>4. CASE r.kind = "listen" /\ ListenAnswered(r, ok) /\ down' = Tail(down)
        BY <2>1, <2>2, <2>4, ListenAnsweredStep
    <2>5. CASE r.kind = "auth" /\ AuthAnswered(r, ok)
        BY <2>1, <2>2, <2>5, AuthAnsweredStep
    <2> QED
        BY <2>1, <2>3, <2>4, <2>5
<1>17. CASE UNCHANGED vars
    <2>1. /\ listens' \subseteq listens /\ UNCHANGED <<made, unacked, wire, puts, writes>>
          /\ state' = state
        BY <1>17 DEF vars, link, queries
    <2> QED
        BY <2>1, QuietStep
<1> QED
    BY <1>2, <1>3, <1>4, <1>5, <1>6, <1>7, <1>8, <1>9, <1>10, <1>11, <1>12, <1>13,
       <1>14, <1>15, <1>16, <1>17 DEF Next, App, Server, TokenAnswers
ClientInv == LinkInv /\ LinkTypes /\ MessageTypes /\ MessageInv

LEMMA ClientInit == Init => ClientInv
<1> SUFFICES ASSUME Init PROVE ClientInv
    OBVIOUS
<1> USE DEF Init
<1>1. LinkInv
    <2>1. NeverStranded /\ WireInv
        BY DEF NeverStranded, WireInv, Realtime
    <2>2. FetchInv
        BY DEF FetchInv
    <2> QED
        BY <2>1, <2>2 DEF LinkInv
<1>2. LinkTypes
    <2>1. authToken \in Tokens /\ credential \in Tokens
        BY DEF Tokens
    <2>2. fetching \subseteq [n : Nat, forced : BOOLEAN]
        OBVIOUS
    <2>3. faults \in 0..MaxFaults /\ attempt \in Nat
        BY ClientConstants
    <2>6. forceRefresh \in BOOLEAN
        BY Zenon
    <2>4. state \in States /\ interruptReasons \subseteq Reasons
        BY DEF States, Reasons
    <2>5. retry \in {"none", "plain", "forced"}
        OBVIOUS
    <2> QED
        BY <2>1, <2>2, <2>3, <2>4, <2>5, <2>6 DEF LinkTypes
<1>3. MessageTypes
    <2>1. made \in [Queries -> 0..MaxListens] /\ \A q \in listens : made[q] # 0
        BY ClientConstants
    <2>2. visibleWrites \in TreesTo(MaxPuts) /\ allWrites \in Seq(RecordsTo(MaxPuts))
        BY ClientConstants DEF WritesInit, EmptyWrite, TreesTo
    <2>3. 0 \in 0..MaxPuts
        BY ClientConstants
    <2> QED
        BY <2>1, <2>2, <2>3, ClientConstants DEF MessageTypes
<1>4. InFlight = <<>>
    BY BoxEmpty DEF InFlight, Box
<1>5. RestoreFits(InFlight, state)
    BY <1>4 DEF RestoreFits
<1>6. CountMatches
    BY <1>4, CountEmpty DEF CountMatches, Count
<1>7. PutsAre(InFlight, Given(state, outstandingPuts))
    BY <1>4, PutsEmpty DEF Given
<1>8. IsInterval(outstandingPuts, putCounter)
    BY DEF IsInterval
<1>9. WritesFit(outstandingPuts, putsToAck, allWrites, putCounter)
    <2>1. Len(putsToAck) = 0 /\ 1..0 = {}
        OBVIOUS
    <2> QED
        BY <2>1 DEF WritesFit
<1> QED
    BY <1>1, <1>2, <1>3, <1>5, <1>6, <1>7, <1>8, <1>9 DEF ClientInv, MessageInv

LEMMA ClientStep == ClientInv /\ [Next]_vars => ClientInv'
BY StrandedStep, FetchStep, WireStep, LinkTypesStep, MessageStep DEF ClientInv, LinkInv

\* In every state the client's variables have their types: a count of listens
\* that is never negative, writes and trees of puts that were made.
THEOREM ClientTypeOK == Spec => []TypeOK
<1>1. ClientInv => TypeOK
    BY DEF ClientInv, LinkTypes, MessageTypes, TypeOK, Answers, RecordsTo, TreesTo
<1> QED
    BY <1>1, ClientInit, ClientStep, PTL DEF Spec

\* However often connections are lost, listens sent again and observers gone,
\* unackedListensCount is the number of answers to listens that are owed, so
\* an answer never takes it below zero (FPersistentConnection.m:813).
THEOREM ListensCounted == Spec => []CountMatches
<1>1. ClientInv => CountMatches
    BY DEF ClientInv, MessageInv
<1> QED
    BY <1>1, ClientInit, ClientStep, PTL DEF Spec

\* On each connection the puts are sent once the state is restored, all that
\* are outstanding, and in their order.
THEOREM PutsSentInOrder == Spec => []PutsInOrder
<1>1. ClientInv => PutsInOrder
    <2> SUFFICES ASSUME ClientInv PROVE PutsInOrder
        OBVIOUS
    <2> DEFINE box == InFlight
               sent == Places(box, "put")
    <2>1. /\ box \in Seq(Requests)
          /\ PutsAre(box, IF canSendWrites THEN outstandingPuts ELSE {})
        BY MessageInvIs DEF ClientInv, MessageInv, Given, canSendWrites
    <2> HIDE DEF box
    <2>2. sent = {i \in 1..Len(box) : box[i].kind = "put"}
        BY <2>1, PlacesFinite
    <2>3. {box[i].id : i \in sent} = IF canSendWrites THEN outstandingPuts ELSE {}
        BY <2>1, <2>2 DEF PutsAre
    <2>4. \A i, j \in sent : i < j => box[i].id < box[j].id
        BY <2>1, <2>2 DEF PutsAre
    <2> QED
        BY <2>3, <2>4 DEF PutsInOrder, box
<1> QED
    BY <1>1, ClientInit, ClientStep, PTL DEF Spec

----------------------------------------------------------------------------
(* The order of the blocks, with a listen that stays                       *)

LEMMA ListensStayStep ==
    ASSUME MessageTypes, ListensStay, [Next]_vars
    PROVE  ListensStay'
<1>1. /\ down \in Seq(Answers) /\ up \in Seq(Requests)
      /\ Permanent \subseteq listens
      /\ \A i \in 1..Len(down) :
            down[i].request.kind = "listen" /\ ~ down[i].ok => down[i].request.query \in Denied
    BY DEF MessageTypes, ListensStay
<1>2. ASSUME Permanent \subseteq listens', down' \in {down, <<>>}
      PROVE  ListensStay'
    <2>1. CASE down' = down
        BY <1>1, <1>2, <2>1 DEF ListensStay
    <2>2. CASE down' = <<>>
        <3>1. Len(down') = 0 /\ 1..0 = {}
            BY <2>2
        <3> QED
            BY <1>2, <3>1 DEF ListensStay
    <2> QED
        BY <1>2, <2>1, <2>2
<1>3. ASSUME down # <<>>, down' = Tail(down), Permanent \subseteq listens'
      PROVE  ListensStay'
    <2>1. /\ Len(down) \in Nat \ {0} /\ Len(down') = Len(down) - 1
          /\ \A i \in 1..Len(down) - 1 : down'[i] = down[i + 1]
        BY <1>1, <1>3, HeadTailProperties
    <2>2. \A i \in 1..Len(down) - 1 : i + 1 \in 1..Len(down)
        BY <2>1
    <2> QED
        BY <1>1, <1>3, <2>1, <2>2 DEF ListensStay
<1>4. ASSUME NEW forced, NEW reasons, OnDisconnect(forced, reasons), listens' = listens
      PROVE  ListensStay'
    BY <1>1, <1>2, <1>4 DEF OnDisconnect
<1>5. CASE Resume \/ Reachable \/ FetchToken
    BY <1>1, <1>2, <1>5 DEF Resume, ResumeForReason, Reachable, FetchToken, queries, wire
<1>6. CASE Interrupt
    <2> PICK r \in {"repo_interrupt", "server_kill"} : InterruptForReason(r)
        BY <1>6 DEF Interrupt
    <2>1. listens' = listens
        BY DEF InterruptForReason
    <2>2. \/ OnDisconnect(forceRefresh, interruptReasons')
          \/ UNCHANGED wire
        BY DEF InterruptForReason
    <2> QED
        BY <1>1, <1>2, <1>4, <2>1, <2>2 DEF wire
<1>7. ASSUME NEW f \in fetching, TokenFetched(f) \/ TokenFailed(f)
      PROVE  ListensStay'
    BY <1>1, <1>2, <1>7 DEF TokenFetched, TokenFailed, queries, wire
<1>8. CASE OnReady
    BY <1>1, <1>2, <1>8 DEF OnReady
<1>9. CASE ConnectionLost \/ AuthRevoked
    BY <1>4, <1>9 DEF ConnectionLost, AuthRevoked
<1>10. CASE App
    <2>1. ASSUME NEW path, PutData(path) PROVE ListensStay'
        BY <1>1, <1>2, <2>1 DEF PutData, queries
    <2>2. ASSUME NEW q, Listen(q) \/ Unlisten(q) PROVE ListensStay'
        BY <1>1, <1>2, <2>2 DEF Listen, Unlisten, wire
    <2>3. ASSUME NEW token, RefreshAuthToken(token) PROVE ListensStay'
        BY <1>1, <1>2, <2>3 DEF RefreshAuthToken, queries
    <2> QED
        BY <1>10, <2>1, <2>2, <2>3 DEF App
<1>11. ASSUME NEW ok \in BOOLEAN, ServerAnswers(ok)
       PROVE  ListensStay'
    <2> DEFINE r == Head(up)
               e == [request |-> r, ok |-> ok]
    <2>1. /\ up # <<>> /\ down' = Append(down, e) /\ listens' = listens
          /\ r.kind = "listen" /\ r.query \notin Denied => ok
        BY <1>11 DEF ServerAnswers, queries
    <2>2. r \in Requests
        BY <1>1, <2>1, HeadTailProperties
    <2>3. e \in Answers /\ e.request = r /\ e.ok = ok
        BY <2>2 DEF Answers
    <2> HIDE DEF e, r
    <2>4. /\ Len(down') = Len(down) + 1 /\ Len(down) \in Nat /\ down'[Len(down) + 1] = e
          /\ \A i \in 1..Len(down) : down'[i] = down[i]
        BY <1>1, <2>1, <2>3, AppendProperties
    <2>5. e.request.kind = "listen" /\ ~ e.ok => e.request.query \in Denied
        BY <2>1, <2>3
    <2>6. \A i \in 1..Len(down) + 1 : i \in 1..Len(down) \/ i = Len(down) + 1
        BY <2>4
    <2>7. \A i \in 1..Len(down) + 1 :
             down'[i].request.kind = "listen" /\ ~ down'[i].ok =>
                down'[i].request.query \in Denied
        BY <1>1, <2>4, <2>5, <2>6
    <2> QED
        BY <1>1, <2>1, <2>4, <2>7 DEF ListensStay
<1>12. CASE OnDataMessage
    <2> DEFINE r == Head(down).request
               ok == Head(down).ok
    <2>1. /\ down # <<>>
          /\ \/ r.kind = "put" /\ PutAnswered(r) /\ down' = Tail(down)
             \/ r.kind = "listen" /\ ListenAnswered(r, ok) /\ down' = Tail(down)
             \/ r.kind = "auth" /\ AuthAnswered(r, ok)
        BY <1>12 DEF OnDataMessage
    <2>2. down[1] = Head(down) /\ 1 \in 1..Len(down)
        BY <1>1, <2>1, HeadTailProperties
    <2>3. r.kind = "listen" /\ ~ ok => r.query \in Denied
        BY <1>1, <2>2
    <2> HIDE DEF r, ok
    <2>4. CASE PutAnswered(r) /\ down' = Tail(down)
        BY <1>1, <1>3, <2>1, <2>4 DEF PutAnswered, queries
    <2>5. CASE r.kind = "listen" /\ ListenAnswered(r, ok) /\ down' = Tail(down)
        <3>1. \/ listens' = listens
              \/ ~ ok /\ listens' = listens \ {r.query}
            BY <2>5 DEF ListenAnswered
        <3>2. Permanent \subseteq listens'
            BY <1>1, <2>3, <2>5, <3>1, ClientConstants
        <3> QED
            BY <1>3, <2>1, <2>5, <3>2
    <2>6. CASE AuthAnswered(r, ok)
        <3>1. /\ listens' = listens
              /\ down' = Tail(down) \/ OnDisconnect(TRUE, interruptReasons)
            BY <2>6 DEF AuthAnswered
        <3> QED
            BY <1>1, <1>3, <1>4, <2>1, <3>1
    <2> QED
        BY <2>1, <2>4, <2>5, <2>6
<1>13. CASE UNCHANGED vars
    BY <1>1, <1>2, <1>13 DEF vars, queries, wire
<1> QED
    BY <1>5, <1>6, <1>7, <1>8, <1>9, <1>10, <1>11, <1>12, <1>13
       DEF Next, TokenAnswers, Server

\* The blocks of the oldest writes run
LEMMA RunStep ==
    ASSUME MessageTypes, NEW ids \in Seq(1..MaxPuts), RunBlocks(ids),
           \A i \in 1..Len(ran) : ran[i] = i,
           \A i \in 1..Len(ids) : ids[i] = Len(ran) + i,
           Len(ran) + Len(ids) <= putCounter,
           WritesAre(allWrites, ran, putCounter), VisibleIsLayered
    PROVE  /\ Len(ran') = Len(ran) + Len(ids)
           /\ \A i \in 1..Len(ran') : ran'[i] = i
           /\ WritesAre(allWrites', ran', putCounter)
           /\ VisibleIsLayered'
<1> DEFINE new == RemoveWrites([all |-> allWrites, visible |-> LayerTree(allWrites)], ids)
           n == Len(ran)
           m == Len(ids)
<1>1. /\ ran \in Seq(1..MaxPuts) /\ putCounter \in Nat /\ n \in Nat /\ m \in Nat
      /\ n + m <= putCounter
    BY ClientConstants DEF MessageTypes
<1>2. /\ ran' = ran \o ids /\ allWrites' = new.all /\ visibleWrites' = new.visible
    BY DEF RunBlocks, AckUserWrites, VisibleIsLayered
<1>3. allWrites \in Seq(Records)
    <2>1. RecordsTo(MaxPuts) \subseteq Records
        BY ClientConstants DEF RecordsTo, Records
    <2> QED
        BY <2>1, SeqMonotonic DEF MessageTypes
<1>4. ids \in Seq(Nat)
    <2>1. 1..MaxPuts \subseteq Nat
        BY ClientConstants
    <2> QED
        BY <2>1, SeqMonotonic
<1>5. /\ Len(allWrites) = putCounter - n
      /\ \A i \in 1..Len(allWrites) : allWrites[i].id = n + i
    BY DEF WritesAre
<1>6. /\ Len(ids) <= Len(allWrites)
      /\ \A i \in 1..Len(ids) : ids[i] = allWrites[i].id
      /\ \A i, j \in 1..Len(allWrites) : i < j => allWrites[i].id # allWrites[j].id
    BY <1>1, <1>5
<1>7. /\ Len(new.all) = Len(allWrites) - Len(ids)
      /\ \A i \in 1..Len(new.all) : new.all[i] = allWrites[Len(ids) + i]
      /\ new.visible = LayerTree(new.all)
    BY <1>3, <1>4, <1>6, RemoveOldestWrites
<1>8. /\ Len(ran') = n + m
      /\ \A i \in 1..n + m : ran'[i] = IF i <= n THEN ran[i] ELSE ids[i - n]
    <2>1. /\ Len(ran \o ids) = Len(ran) + Len(ids)
          /\ \A i \in 1..Len(ran) + Len(ids) :
                (ran \o ids)[i] = IF i <= Len(ran) THEN ran[i] ELSE ids[i - Len(ran)]
        BY <1>1, ConcatProperties
    <2> QED
        BY <1>2, <2>1
<1> HIDE DEF new, n, m
<1>9. \A i \in 1..n + m : ran'[i] = i
    <2> SUFFICES ASSUME NEW i \in 1..n + m PROVE ran'[i] = i
        OBVIOUS
    <2>1. CASE i <= n
        BY <1>1, <1>8, <2>1 DEF n
    <2>2. CASE ~ i <= n
        <3>1. i - n \in 1..m /\ n + (i - n) = i
            BY <1>1, <2>2
        <3> QED
            BY <1>8, <2>2, <3>1 DEF n, m
    <2> QED
        BY <2>1, <2>2
<1>10. WritesAre(new.all, ran', putCounter)
    <2>1. Len(new.all) = putCounter - (n + m)
        BY <1>1, <1>5, <1>7 DEF m
    <2>2. ASSUME NEW i \in 1..putCounter - (n + m)
          PROVE  new.all[i].id = (n + m) + i
        <3>1. m + i \in 1..putCounter - n /\ n + (m + i) = (n + m) + i
            BY <1>1
        <3> QED
            BY <1>5, <1>7, <2>1, <3>1 DEF m
    <2> QED
        BY <1>8, <2>1, <2>2 DEF WritesAre
<1>11. VisibleIsLayered'
    BY <1>2, <1>7 DEF VisibleIsLayered
<1> QED
    BY <1>2, <1>8, <1>9, <1>10, <1>11 DEF n, m

\* The order is kept when no put is made or answered and no block runs
LEMMA OrderStays ==
    ASSUME OrderInv, ListensStay', UNCHANGED <<puts, writes>>,
           \/ state' # "Connected" \/ unacked' # 0
           \/ state' = state /\ unacked' = unacked
    PROVE  OrderInv'
<1>1. /\ putCounter' = putCounter /\ outstandingPuts' = outstandingPuts
      /\ putsToAck' = putsToAck /\ ran' = ran
      /\ allWrites' = allWrites /\ visibleWrites' = visibleWrites
    BY DEF puts, writes
<1>2. state' = "Connected" /\ unacked' = 0 => putsToAck' = <<>>
    BY <1>1 DEF OrderInv
<1>3. BlocksFit(ran', putsToAck', outstandingPuts', putCounter')
    BY <1>1 DEF OrderInv
<1>4. WritesAre(allWrites', ran', putCounter') /\ VisibleIsLayered'
    BY <1>1 DEF OrderInv, VisibleIsLayered
<1> QED
    BY <1>2, <1>3, <1>4 DEF OrderInv

\* A state is restored with a listen at least
LEMMA RestoresListen ==
    ASSUME MessageTypes, ListensStay, Permanent # {}, NEW sent, RestoreState(sent)
    PROVE  unacked' # 0
<1> PICK order \in Orders(listens) : unacked' = unacked + Len(order)
    BY DEF RestoreState
<1>1. /\ listens \in SUBSET Queries /\ listens # {} /\ unacked \in Nat
      /\ made \in [Queries -> 0..MaxListens] /\ \A q \in listens : made[q] # 0
    BY DEF MessageTypes, ListensStay
<1>2. IsFiniteSet(listens) /\ Len(order) = Cardinality(listens) /\ Len(order) \in Nat
    BY <1>1, ListeningIs
<1>3. Cardinality(listens) # 0
    BY <1>1, <1>2, FS_EmptySet
<1> QED
    BY <1>1, <1>2, <1>3

LEMMA PutKeepsOrder ==
    ASSUME MessageTypes, OrderInv, ListensStay', NEW path \in Paths, PutData(path)
    PROVE  OrderInv'
<1> DEFINE id == putCounter + 1
           w == [id |-> id, path |-> path]
           n == Len(ran)
           m == Len(putsToAck)
<1>1. /\ putCounter' = id /\ outstandingPuts' = outstandingPuts \cup {id}
      /\ putsToAck' = putsToAck /\ ran' = ran
      /\ allWrites' = Append(allWrites, w) /\ visibleWrites' = AddWrite(visibleWrites, w)
      /\ state' = state /\ unacked' = unacked
    BY DEF PutData, AddOverwrite, queries, link
<1>2. /\ putCounter \in Nat /\ n \in Nat /\ m \in Nat
      /\ allWrites \in Seq(RecordsTo(MaxPuts))
    BY ClientConstants DEF MessageTypes
<1>3. allWrites \in Seq(Records) /\ Len(allWrites) \in Nat
    <2>1. RecordsTo(MaxPuts) \subseteq Records
        BY ClientConstants DEF RecordsTo, Records
    <2> QED
        BY <1>2, <2>1, SeqMonotonic
<1>4. w \in Records /\ w.id = id
    BY <1>2 DEF Records
<1> HIDE DEF w
<1>5. state' = "Connected" /\ unacked' = 0 => putsToAck' = <<>>
    BY <1>1 DEF OrderInv
<1>6. /\ \A i \in 1..n : ran[i] = i
      /\ \A i \in 1..m : putsToAck[i] = n + i
      /\ n + m <= putCounter
      /\ outstandingPuts = n + m + 1..putCounter
    BY DEF OrderInv, BlocksFit
<1>7. BlocksFit(ran', putsToAck', outstandingPuts', putCounter')
    <2>1. outstandingPuts \cup {id} = n + m + 1..id /\ n + m <= id
        BY <1>2, <1>6
    <2> HIDE DEF id
    <2> QED
        BY <1>1, <1>6, <2>1 DEF BlocksFit
<1>8. WritesAre(allWrites', ran', putCounter')
    <2>1. /\ Len(allWrites) = putCounter - n
          /\ \A i \in 1..Len(allWrites) : allWrites[i].id = n + i
        BY DEF OrderInv, WritesAre
    <2>2. /\ Len(allWrites') = Len(allWrites) + 1
          /\ allWrites'[Len(allWrites) + 1] = w
          /\ \A i \in 1..Len(allWrites) : allWrites'[i] = allWrites[i]
        BY <1>1, <1>3, <1>4, AppendProperties
    <2>3. Len(allWrites') = id - n
        BY <1>2, <2>1, <2>2
    <2>4. \A i \in 1..Len(allWrites) + 1 : i \in 1..Len(allWrites) \/ i = Len(allWrites) + 1
        BY <1>3
    <2>5. n + (Len(allWrites) + 1) = id
        BY <1>2, <2>1
    <2> HIDE DEF id
    <2>6. \A i \in 1..Len(allWrites) + 1 : allWrites'[i].id = n + i
        BY <1>4, <2>1, <2>2, <2>4, <2>5
    <2> QED
        BY <1>1, <2>2, <2>3, <2>6 DEF WritesAre
<1>9. VisibleIsLayered'
    <2>1. LayerTree(Append(allWrites, w)) = AddWrite(LayerTree(allWrites), w)
        BY <1>3, <1>4, LayerOfAppend
    <2>2. visibleWrites = LayerTree(allWrites)
        BY DEF OrderInv, VisibleIsLayered
    <2>3. visibleWrites' = LayerTree(allWrites')
        BY <1>1, <2>1, <2>2
    <2> QED
        BY <2>3 DEF VisibleIsLayered
<1> QED
    BY <1>5, <1>7, <1>8, <1>9 DEF OrderInv

\* The answer to the oldest put: its block is the next to run, or to wait
LEMMA PutAnswerKeepsOrder ==
    ASSUME MessageTypes, MessageInv, OrderInv, ListensStay', down # <<>>,
           NEW r, r = Head(down).request, r.kind = "put", PutAnswered(r), down' = Tail(down)
    PROVE  OrderInv'
<1> DEFINE n == Len(ran)
           m == Len(putsToAck)
<1>1. PICK k \in Nat : /\ k < putCounter /\ r.id = k + 1
                       /\ outstandingPuts = k + 1..putCounter
                       /\ outstandingPuts' = (k + 1) + 1..putCounter
    BY PutAnsweredStep
<1>2. state = "Connected"
    BY PutAnsweredStep
<1>3. /\ putCounter' = putCounter /\ unacked' = unacked /\ state' = state
    BY DEF PutAnswered, queries, link
<1>4. /\ ran \in Seq(1..MaxPuts) /\ putsToAck \in Seq(1..MaxPuts) /\ unacked \in Nat
      /\ putCounter \in 0..MaxPuts /\ putCounter \in Nat /\ MaxPuts \in Nat
      /\ n \in Nat /\ m \in Nat
    BY ClientConstants DEF MessageTypes
<1>5. /\ \A i \in 1..n : ran[i] = i
      /\ \A i \in 1..m : putsToAck[i] = n + i
      /\ n + m <= putCounter
      /\ outstandingPuts = n + m + 1..putCounter
      /\ WritesAre(allWrites, ran, putCounter) /\ VisibleIsLayered
    BY DEF OrderInv, BlocksFit
<1>6. k = n + m
    <2>1. k + 1 \in n + m + 1..putCounter /\ putCounter \in k + 1..putCounter
        BY <1>1, <1>4, <1>5
    <2>2. n + m + 1 \in k + 1..putCounter
        <3>1. n + m + 1 \in n + m + 1..putCounter
            BY <1>4, <2>1
        <3> QED
            BY <1>1, <1>5, <3>1
    <2> QED
        BY <1>1, <1>4, <2>1, <2>2
<1>7. r.id \in 1..MaxPuts
    BY <1>1, <1>4
<1>8. CASE unacked = 0
    <2> DEFINE ids == <<r.id>>
    <2>1. RunBlocks(ids) /\ putsToAck' = putsToAck
        BY <1>8 DEF PutAnswered
    <2>2. putsToAck = <<>> /\ m = 0
        BY <1>2, <1>8 DEF OrderInv
    <2>3. ids \in Seq(1..MaxPuts) /\ Len(ids) = 1 /\ ids[1] = r.id
        BY <1>7
    <2>4. \A i \in 1..Len(ids) : ids[i] = n + i
        BY <1>1, <1>4, <1>6, <2>2, <2>3
    <2> HIDE DEF ids
    <2>5. n + Len(ids) <= putCounter
        BY <1>1, <1>4, <1>6, <2>2, <2>3
    <2>6. /\ Len(ran') = n + 1
          /\ \A i \in 1..Len(ran') : ran'[i] = i
          /\ WritesAre(allWrites', ran', putCounter)
          /\ VisibleIsLayered'
        <3>1. /\ Len(ran') = Len(ran) + Len(ids)
              /\ \A i \in 1..Len(ran') : ran'[i] = i
              /\ WritesAre(allWrites', ran', putCounter)
              /\ VisibleIsLayered'
            BY <1>5, <2>1, <2>3, <2>4, <2>5, RunStep
        <3> QED
            BY <2>3, <3>1
    <2>7. BlocksFit(ran', putsToAck', outstandingPuts', putCounter')
        <3>1. /\ (n + 1) + 0 <= putCounter
              /\ outstandingPuts' = (n + 1) + 0 + 1..putCounter
            BY <1>1, <1>4, <1>6, <2>2
        <3>2. Len(putsToAck') = 0 /\ 1..0 = {}
            BY <2>1, <2>2
        <3> QED
            BY <1>3, <2>6, <3>1, <3>2 DEF BlocksFit
    <2> QED
        BY <1>3, <2>1, <2>2, <2>6, <2>7 DEF OrderInv
<1>9. CASE unacked # 0
    <2>1. /\ putsToAck' = Append(putsToAck, r.id) /\ ran' = ran
          /\ allWrites' = allWrites /\ visibleWrites' = visibleWrites
        BY <1>9 DEF PutAnswered, writes
    <2>2. /\ Len(putsToAck') = m + 1 /\ putsToAck'[m + 1] = r.id
          /\ \A i \in 1..m : putsToAck'[i] = putsToAck[i]
        BY <1>4, <1>7, <2>1, AppendProperties
    <2>3. \A i \in 1..m + 1 : i \in 1..m \/ i = m + 1
        BY <1>4
    <2>4. r.id = n + (m + 1)
        BY <1>1, <1>4, <1>6
    <2>5. /\ n + (m + 1) <= putCounter
          /\ outstandingPuts' = n + (m + 1) + 1..putCounter
        BY <1>1, <1>4, <1>6
    <2> HIDE DEF n, m
    <2>6. \A i \in 1..m + 1 : putsToAck'[i] = n + i
        BY <1>5, <2>2, <2>3, <2>4
    <2>7. BlocksFit(ran', putsToAck', outstandingPuts', putCounter')
        BY <1>3, <1>5, <2>1, <2>2, <2>5, <2>6 DEF BlocksFit, n
    <2>8. WritesAre(allWrites', ran', putCounter') /\ VisibleIsLayered'
        BY <1>3, <1>5, <2>1 DEF VisibleIsLayered
    <2> QED
        BY <1>3, <1>9, <2>7, <2>8 DEF OrderInv
<1> QED
    BY <1>8, <1>9

\* The last answer that is owed: all the blocks that wait run
LEMMA ListenAnswerKeepsOrder ==
    ASSUME MessageTypes, MessageInv, OrderInv, ListensStay', down # <<>>,
           NEW r, r = Head(down).request, r.kind = "listen", NEW ok,
           ListenAnswered(r, ok), down' = Tail(down)
    PROVE  OrderInv'
<1> DEFINE n == Len(ran)
           m == Len(putsToAck)
<1>1. /\ putCounter' = putCounter /\ outstandingPuts' = outstandingPuts
    BY DEF ListenAnswered
<1>2. /\ ran \in Seq(1..MaxPuts) /\ putsToAck \in Seq(1..MaxPuts)
      /\ putCounter \in Nat /\ n \in Nat /\ m \in Nat
    BY ClientConstants DEF MessageTypes
<1>3. /\ \A i \in 1..n : ran[i] = i
      /\ \A i \in 1..m : putsToAck[i] = n + i
      /\ n + m <= putCounter
      /\ outstandingPuts = n + m + 1..putCounter
      /\ WritesAre(allWrites, ran, putCounter) /\ VisibleIsLayered
      /\ BlocksFit(ran, putsToAck, outstandingPuts, putCounter)
    BY DEF OrderInv, BlocksFit
<1>4. CASE unacked' = 0
    <2>1. RunBlocks(putsToAck) /\ putsToAck' = <<>>
        BY <1>4 DEF ListenAnswered
    <2>2. /\ Len(ran') = n + m
          /\ \A i \in 1..Len(ran') : ran'[i] = i
          /\ WritesAre(allWrites', ran', putCounter)
          /\ VisibleIsLayered'
        BY <1>2, <1>3, <2>1, RunStep
    <2>3. Len(putsToAck') = 0 /\ 1..0 = {}
        BY <2>1
    <2>4. BlocksFit(ran', putsToAck', outstandingPuts', putCounter')
        <3>1. (n + m) + 0 <= putCounter /\ outstandingPuts = (n + m) + 0 + 1..putCounter
            BY <1>2, <1>3
        <3> QED
            BY <1>1, <2>2, <2>3, <3>1 DEF BlocksFit
    <2> QED
        BY <1>1, <2>1, <2>2, <2>4 DEF OrderInv
<1>5. CASE unacked' # 0
    <2>1. /\ putsToAck' = putsToAck /\ ran' = ran
          /\ allWrites' = allWrites /\ visibleWrites' = visibleWrites
        BY <1>5 DEF ListenAnswered, writes
    <2> QED
        BY <1>1, <1>3, <1>5, <2>1 DEF OrderInv, VisibleIsLayered
<1> QED
    BY <1>4, <1>5

LEMMA OrderStep ==
    ASSUME ClientInv, OrderInv, Permanent # {}, [Next]_vars
    PROVE  OrderInv'
<1>1. MessageTypes /\ MessageInv /\ ListensStay /\ LinkInv
    BY DEF ClientInv, OrderInv
<1>2. ListensStay'
    BY <1>1, ListensStayStep
<1>3. ASSUME UNCHANGED <<puts, writes>>,
             \/ state' # "Connected" \/ unacked' # 0
             \/ state' = state /\ unacked' = unacked
      PROVE  OrderInv'
    BY <1>2, <1>3, OrderStays
<1>4. ASSUME NEW forced, NEW reasons, OnDisconnect(forced, reasons), UNCHANGED <<puts, writes>>
      PROVE  OrderInv'
    BY <1>3, <1>4 DEF OnDisconnect
<1>5. CASE Resume \/ Reachable \/ FetchToken
    BY <1>3, <1>5 DEF Resume, ResumeForReason, Reachable, FetchToken, queries
<1>6. CASE Interrupt
    <2> PICK r \in {"repo_interrupt", "server_kill"} : InterruptForReason(r)
        BY <1>6 DEF Interrupt
    <2>1. UNCHANGED <<puts, writes>> /\ state' = "Disconnected"
        BY DEF InterruptForReason, OnDisconnect
    <2> QED
        BY <1>3, <2>1
<1>7. ASSUME NEW f \in fetching, TokenFetched(f)
      PROVE  OrderInv'
    <2>1. /\ UNCHANGED <<puts, writes>> /\ unacked' = unacked
          /\ state' = "Connecting" \/ state' = state
        BY <1>7 DEF TokenFetched, queries
    <2> QED
        BY <1>3, <2>1
<1>8. ASSUME NEW f \in fetching, TokenFailed(f)
      PROVE  OrderInv'
    <2>1. /\ UNCHANGED <<puts, writes>> /\ unacked' = unacked
          /\ state' = "Disconnected" \/ state' = state
        BY <1>8 DEF TokenFailed, queries
    <2> QED
        BY <1>3, <2>1
<1>9. CASE OnReady
    <2>1. UNCHANGED <<puts, writes>> /\ (RestoreState(up) \/ state' = "Authenticating")
        BY <1>9 DEF OnReady
    <2>2. CASE RestoreState(up)
        BY <1>1, <1>3, <2>1, <2>2, RestoresListen
    <2> QED
        BY <1>3, <2>1, <2>2
<1>10. CASE ConnectionLost \/ AuthRevoked
    BY <1>4, <1>10 DEF ConnectionLost, AuthRevoked
<1>11. ASSUME NEW path \in Paths, PutData(path) PROVE OrderInv'
    BY <1>1, <1>2, <1>11, PutKeepsOrder
<1>12. ASSUME NEW q \in Queries, Listen(q) \/ Unlisten(q) PROVE OrderInv'
    <2>1. unacked \in Nat
        BY <1>1 DEF MessageTypes
    <2>2. /\ UNCHANGED <<puts, writes>> /\ state' = state
          /\ unacked' = unacked \/ unacked' = unacked + 1
        BY <1>12 DEF Listen, Unlisten, link
    <2> QED
        BY <1>3, <2>1, <2>2
<1>13. ASSUME NEW token \in {None, "good"}, RefreshAuthToken(token) PROVE OrderInv'
    BY <1>3, <1>13 DEF RefreshAuthToken, link, queries
<1>14. ASSUME NEW ok \in BOOLEAN, ServerAnswers(ok) PROVE OrderInv'
    <2>1. /\ state' = state /\ unacked' = unacked
          /\ putCounter' = putCounter /\ outstandingPuts' = outstandingPuts
          /\ putsToAck' = putsToAck /\ ran' = ran
          /\ allWrites' = allWrites /\ visibleWrites' = visibleWrites
        BY <1>14 DEF ServerAnswers, link, queries, writes
    <2>2. state' = "Connected" /\ unacked' = 0 => putsToAck' = <<>>
        BY <2>1 DEF OrderInv
    <2>3. BlocksFit(ran', putsToAck', outstandingPuts', putCounter')
        BY <2>1 DEF OrderInv
    <2>4. WritesAre(allWrites', ran', putCounter') /\ VisibleIsLayered'
        BY <2>1 DEF OrderInv, VisibleIsLayered
    <2> QED
        BY <1>2, <2>2, <2>3, <2>4 DEF OrderInv
<1>15. CASE OnDataMessage
    <2> DEFINE r == Head(down).request
               ok == Head(down).ok
    <2>1. /\ down # <<>>
          /\ \/ r.kind = "put" /\ PutAnswered(r) /\ down' = Tail(down)
             \/ r.kind = "listen" /\ ListenAnswered(r, ok) /\ down' = Tail(down)
             \/ r.kind = "auth" /\ AuthAnswered(r, ok)
        BY <1>15 DEF OnDataMessage
    <2>2. r = Head(down).request
        OBVIOUS
    <2> HIDE DEF r, ok
    <2>3. CASE r.kind = "put" /\ PutAnswered(r) /\ down' = Tail(down)
        BY <1>1, <1>2, <2>1, <2>2, <2>3, PutAnswerKeepsOrder
    <2>4. CASE r.kind = "listen" /\ ListenAnswered(r, ok) /\ down' = Tail(down)
        BY <1>1, <1>2, <2>1, <2>2, <2>4, ListenAnswerKeepsOrder
    <2>5. CASE r.kind = "auth" /\ AuthAnswered(r, ok)
        <3>1. /\ UNCHANGED <<puts, writes>>
              /\ \/ /\ state' = "Connected"
                    /\ IF r.restore THEN RestoreState(up) ELSE UNCHANGED <<up, unacked>>
                 \/ OnDisconnect(TRUE, interruptReasons)
            BY <2>5 DEF AuthAnswered
        <3>2. CASE RestoreState(up)
            BY <1>1, <1>3, <3>1, <3>2, RestoresListen
        <3>3. CASE state' = "Connected" /\ ~ r.restore /\ unacked' = unacked
            <4>1. state = "Connected"
                BY <1>1, <2>1, <2>2, <2>5, <3>3, AuthKind
            <4> QED
                BY <1>3, <3>1, <3>3, <4>1
        <3> QED
            BY <1>4, <3>1, <3>2, <3>3
    <2> QED
        BY <2>1, <2>3, <2>4, <2>5
<1>16. CASE UNCHANGED vars
    BY <1>3, <1>16 DEF vars, link, queries
<1> QED
    BY <1>5, <1>6, <1>7, <1>8, <1>9, <1>10, <1>11, <1>12, <1>13, <1>14, <1>15, <1>16
       DEF Next, App, Server, TokenAnswers

LEMMA OrderInit == Init => OrderInv
<1> SUFFICES ASSUME Init PROVE OrderInv
    OBVIOUS
<1>1. /\ listens = Permanent /\ down = <<>> /\ putsToAck = <<>> /\ ran = <<>>
      /\ outstandingPuts = {} /\ putCounter = 0
      /\ allWrites = <<>> /\ visibleWrites = EmptyWrite
    BY DEF Init, WritesInit
<1>3. ListensStay
    <2>1. Len(down) = 0 /\ 1..0 = {}
        BY <1>1
    <2> QED
        BY <1>1, <2>1 DEF ListensStay
<1>4. BlocksFit(ran, putsToAck, outstandingPuts, putCounter)
    <2>1. Len(ran) = 0 /\ Len(putsToAck) = 0 /\ 1..0 = {} /\ 0 + 0 <= 0 /\ 0 + 0 + 1..0 = {}
        BY <1>1
    <2> QED
        BY <1>1, <2>1 DEF BlocksFit
<1>5. WritesAre(allWrites, ran, putCounter)
    <2>1. Len(ran) = 0 /\ Len(allWrites) = 0 /\ 1..0 = {} /\ 0 - 0 = 0
        BY <1>1
    <2> QED
        BY <1>1, <2>1 DEF WritesAre
<1>6. VisibleIsLayered
    <2> DEFINE s == <<>>
    <2>1. s \in Seq(Records) /\ Len(s) = 0 /\ 0 \in 0..Len(s)
        OBVIOUS
    <2> HIDE DEF s
    <2>2. Layered(LayerTree(s), s, 0)
        BY <2>1, LayerTreeLayered
    <2>3. Layered(EmptyWrite, s, 0)
        BY EmptyLayered
    <2>4. LayerTree(s) = EmptyWrite
        BY <2>1, <2>2, <2>3, LayeredUnique
    <2> QED
        BY <1>1, <2>4 DEF VisibleIsLayered, s
<1> QED
    BY <1>1, <1>3, <1>4, <1>5, <1>6 DEF OrderInv

\* With a listen that stays, the completion block of the i-th setValue is the
\* i-th that runs: none is left out, overtaken or run twice, whatever is lost
\* and sent again.
THEOREM BlocksRunInOrder == Spec => []BlocksInOrder
<1>1. CASE Permanent = {}
    <2>1. ClientInv => BlocksInOrder
        BY <1>1 DEF BlocksInOrder
    <2> QED
        BY <2>1, ClientInit, ClientStep, PTL DEF Spec
<1>2. CASE Permanent # {}
    <2>1. ClientInv /\ OrderInv /\ [Next]_vars => OrderInv'
        BY <1>2, OrderStep
    <2>2. ClientInv /\ OrderInv => BlocksInOrder
        <3> SUFFICES ASSUME ClientInv, OrderInv PROVE BlocksInOrder
            OBVIOUS
        <3>1. ran \in Seq(1..MaxPuts) /\ \A i \in 1..Len(ran) : ran[i] = i
            BY DEF ClientInv, MessageTypes, OrderInv, BlocksFit
        <3>2. ran = [i \in DOMAIN ran |-> i]
            BY <3>1
        <3> QED
            BY <3>2 DEF BlocksInOrder
    <2> QED
        BY <2>1, <2>2, ClientInit, ClientStep, OrderInit, PTL DEF Spec
<1> QED
    BY <1>1, <1>2

\* With a listen that stays, the tree that the app sees is what its outstanding
\* writes give when they are layered in their order: the writes are removed
\* oldest first, so removeWriteId leaves nothing behind and takes nothing away.
THEOREM TreeIsLayered ==
    ASSUME Permanent # {}
    PROVE  Spec => []VisibleIsLayered
<1>1. ClientInv /\ OrderInv /\ [Next]_vars => OrderInv'
    BY OrderStep
<1>2. OrderInv => VisibleIsLayered
    BY DEF OrderInv
<1> QED
    BY <1>1, <1>2, ClientInit, ClientStep, OrderInit, PTL DEF Spec

----------------------------------------------------------------------------
(* The client is a queue of puts                                           *)

\* The numbers after b, up to n
Line(b, n) == [i \in 1..n - b |-> b + i]

Stored(answers) == Cardinality({i \in DOMAIN answers : answers[i].request.kind = "put"})

LEMMA LineIs ==
    ASSUME NEW b \in Nat, NEW n \in Nat, b <= n
    PROVE  /\ Line(b, n) \in Seq(Nat) /\ Len(Line(b, n)) = n - b
           /\ \A i \in 1..n - b : Line(b, n)[i] = b + i
<1>1. n - b \in Nat /\ \A i \in 1..n - b : b + i \in Nat
    OBVIOUS
<1> QED
    BY <1>1 DEF Line

LEMMA QueueIs ==
    ASSUME NEW n \in Nat, NEW done \in Seq(Nat), NEW waiting \in Seq(Nat), NEW out,
           BlocksFit(done, waiting, out, n)
    PROVE  /\ waiting \o Sorted(out) = Line(Len(done), n)
           /\ Len(done) + Len(waiting) <= n
<1> DEFINE b == Len(done)
           m == Len(waiting)
           s == Sorted(out)
           q == waiting \o s
<1>1. b \in Nat /\ m \in Nat /\ b + m \in Nat /\ b + m <= n
    BY DEF BlocksFit
<1>2. s = [i \in 1..n - (b + m) |-> (b + m) + i]
    <2>1. out = (b + m) + 1..n
        BY DEF BlocksFit
    <2> HIDE DEF b, m
    <2> QED
        BY <1>1, <2>1, SortedIs
<1>3. \A i \in 1..m : waiting[i] = b + i
    BY DEF BlocksFit
<1> HIDE DEF s, b, m
<1>4. s \in Seq(Nat) /\ Len(s) = n - (b + m)
    <2> DEFINE l == n - (b + m)
    <2>1. l \in Nat /\ \A i \in 1..l : (b + m) + i \in Nat
        BY <1>1
    <2>2. s = [i \in 1..l |-> (b + m) + i]
        BY <1>2
    <2> HIDE DEF l
    <2>3. s \in Seq(Nat) /\ Len(s) = l
        BY <2>1, <2>2
    <2> QED
        BY <2>3 DEF l
<1>5. /\ q \in Seq(Nat) /\ Len(q) = m + (n - (b + m))
      /\ \A i \in 1..m + (n - (b + m)) : q[i] = IF i <= m THEN waiting[i] ELSE s[i - m]
    <2>1. /\ waiting \o s \in Seq(Nat) /\ Len(waiting \o s) = Len(waiting) + Len(s)
          /\ \A i \in 1..Len(waiting) + Len(s) :
                (waiting \o s)[i] = IF i <= Len(waiting) THEN waiting[i] ELSE s[i - Len(waiting)]
        BY <1>4, ConcatProperties
    <2> QED
        BY <1>4, <2>1 DEF m
<1>6. m + (n - (b + m)) = n - b /\ n - b \in Nat
    BY <1>1
<1> HIDE DEF q
<1>7. ASSUME NEW i \in 1..n - b PROVE q[i] = b + i
    <2>1. CASE i <= m
        <3>1. i \in 1..m
            BY <1>6, <2>1
        <3> QED
            BY <1>3, <1>5, <1>6, <2>1, <3>1
    <2>2. CASE ~ i <= m
        <3>1. i - m \in 1..n - (b + m) /\ (b + m) + (i - m) = b + i
            BY <1>1, <1>6, <2>2
        <3> QED
            BY <1>2, <1>5, <1>6, <2>2, <3>1
    <2> QED
        BY <2>1, <2>2
<1>8. q = Line(b, n)
    <2>1. Len(q) = n - b
        BY <1>5, <1>6
    <2>2. b <= n
        BY <1>1
    <2>3. /\ Line(b, n) \in Seq(Nat) /\ Len(Line(b, n)) = n - b
          /\ \A i \in 1..n - b : Line(b, n)[i] = b + i
        BY <1>1, <2>2, LineIs
    <2> QED
        BY <1>5, <1>7, <2>1, <2>3, SeqEqual
<1> QED
    BY <1>1, <1>8 DEF q, s, b, m

LEMMA LineAppend ==
    ASSUME NEW b \in Nat, NEW n \in Nat, b <= n
    PROVE  Line(b, n + 1) = Append(Line(b, n), n + 1)
<1> DEFINE q == Line(b, n)
           p == Line(b, n + 1)
<1>1. q \in Seq(Nat) /\ Len(q) = n - b /\ n - b \in Nat /\ \A i \in 1..n - b : q[i] = b + i
    BY LineIs
<1>2. p \in Seq(Nat) /\ Len(p) = (n - b) + 1 /\ \A i \in 1..(n - b) + 1 : p[i] = b + i
    <2>1. (n + 1) - b = (n - b) + 1 /\ b <= n + 1 /\ n + 1 \in Nat
        OBVIOUS
    <2>2. Line(b, n + 1) \in Seq(Nat) /\ Len(Line(b, n + 1)) = (n + 1) - b
          /\ \A i \in 1..(n + 1) - b : Line(b, n + 1)[i] = b + i
        BY <2>1, LineIs
    <2> QED
        BY <2>1, <2>2
<1> HIDE DEF q, p
<1>3. /\ Append(q, n + 1) \in Seq(Nat) /\ Len(Append(q, n + 1)) = (n - b) + 1
      /\ Append(q, n + 1)[(n - b) + 1] = n + 1
      /\ \A i \in 1..n - b : Append(q, n + 1)[i] = q[i]
    BY <1>1, AppendProperties
<1>4. \A i \in 1..(n - b) + 1 : i \in 1..n - b \/ i = (n - b) + 1
    BY <1>1
<1>5. b + ((n - b) + 1) = n + 1
    OBVIOUS
<1>6. \A i \in 1..(n - b) + 1 : p[i] = Append(q, n + 1)[i]
    BY <1>1, <1>2, <1>3, <1>4, <1>5
<1>7. p = Append(q, n + 1)
    BY <1>2, <1>3, <1>6, SeqEqual
<1> QED
    BY <1>7 DEF p, q

LEMMA LineRest ==
    ASSUME NEW b \in Nat, NEW n \in Nat, NEW m \in Nat, b + m <= n
    PROVE  Line(b + m, n) = SubSeq(Line(b, n), m + 1, Len(Line(b, n)))
<1> DEFINE q == Line(b, n)
           p == Line(b + m, n)
           l == n - b
<1>1. q \in Seq(Nat) /\ Len(q) = l /\ l \in Nat /\ \A i \in 1..l : q[i] = b + i /\ m <= l
    BY LineIs
<1>2. n - (b + m) = l - m /\ m <= l
    OBVIOUS
<1>3. /\ p \in Seq(Nat) /\ Len(p) = l - m
      /\ \A i \in 1..l - m : p[i] = (b + m) + i
    <2>1. /\ Line(b + m, n) \in Seq(Nat) /\ Len(Line(b + m, n)) = n - (b + m)
          /\ \A i \in 1..n - (b + m) : Line(b + m, n)[i] = (b + m) + i
        <3>1. b + m \in Nat
            OBVIOUS
        <3> QED
            BY <3>1, LineIs
    <2> HIDE DEF l
    <2> QED
        BY <1>2, <2>1
<1> HIDE DEF p, q, l
<1>4. /\ SubSeq(q, m + 1, l) \in Seq(Nat) /\ Len(SubSeq(q, m + 1, l)) = l - m
      /\ \A i \in 1..l - m : SubSeq(q, m + 1, l)[i] = q[m + i]
    <2> DEFINE u == SubSeq(q, m + 1, l)
    <2>1. m + 1 \in Int /\ l \in Int /\ \A i \in m + 1..l : q[i] \in Nat
        BY <1>1
    <2>2. /\ u \in Seq(Nat)
          /\ Len(u) = IF m + 1 <= l THEN l - (m + 1) + 1 ELSE 0
          /\ \A i \in 1..l - (m + 1) + 1 : u[i] = q[(m + 1) + i - 1]
        BY <2>1, SubSeqProperties
    <2> HIDE DEF u
    <2>5. Len(u) = l - m /\ l - (m + 1) + 1 = l - m
        <3>1. l \in Nat /\ m <= l
            BY <1>1, <1>2
        <3>2. l - (m + 1) + 1 = l - m /\ (~ m + 1 <= l => l - m = 0)
            BY <3>1
        <3> QED
            BY <2>2, <3>2
    <2>3. \A i \in 1..l - m : (m + 1) + i - 1 = m + i
        BY <1>1
    <2>4. \A i \in 1..l - m : u[i] = q[m + i]
        BY <2>2, <2>3, <2>5
    <2> QED
        BY <2>2, <2>4, <2>5 DEF u
<1>5. \A i \in 1..l - m : m + i \in 1..l /\ b + (m + i) = (b + m) + i
    BY <1>1
<1>6. \A i \in 1..l - m : p[i] = SubSeq(q, m + 1, l)[i]
    BY <1>1, <1>3, <1>4, <1>5
<1>7. p = SubSeq(q, m + 1, l)
    BY <1>3, <1>4, <1>6, SeqEqual
<1> QED
    BY <1>1, <1>7 DEF p, q

\* The puts that are answered are counted like messages
LEMMA StoredIs ==
    ASSUME NEW d \in Seq(Answers)
    PROVE  /\ Stored(d) \in Nat
           /\ \A e \in Answers : Stored(Append(d, e)) =
                 IF e.request.kind = "put" THEN Stored(d) + 1 ELSE Stored(d)
           /\ d # <<>> => Stored(d) = IF Head(d).request.kind = "put"
                                      THEN Stored(Tail(d)) + 1 ELSE Stored(Tail(d))
<1> DEFINE Asked(c) == [i \in DOMAIN c |-> c[i].request]
<1>1. ASSUME NEW c \in Seq(Answers)
      PROVE  /\ Asked(c) \in Seq(Requests) /\ Len(Asked(c)) = Len(c)
             /\ \A i \in 1..Len(c) : Asked(c)[i] = c[i].request
             /\ Stored(c) = Count(Asked(c), "put") /\ Stored(c) \in Nat
    <2>1. /\ Len(c) \in Nat /\ DOMAIN c = 1..Len(c)
          /\ \A i \in 1..Len(c) : c[i].request \in Requests
        <3>1. Len(c) \in Nat /\ DOMAIN c = 1..Len(c) /\ \A i \in 1..Len(c) : c[i] \in Answers
            OBVIOUS
        <3>2. \A e \in Answers : e.request \in Requests
            BY DEF Answers
        <3> QED
            BY <3>1, <3>2
    <2>2. /\ Asked(c) \in Seq(Requests) /\ Len(Asked(c)) = Len(c)
          /\ \A i \in 1..Len(c) : Asked(c)[i] = c[i].request
        <3> DEFINE n == Len(c)
        <3>1. Asked(c) = [i \in 1..n |-> c[i].request] /\ n \in Nat
            BY <2>1
        <3> HIDE DEF n, Asked
        <3> QED
            BY <2>1, <3>1 DEF n
    <2>3. Places(Asked(c), "put") = {i \in 1..Len(c) : c[i].request.kind = "put"}
        <3>1. Places(Asked(c), "put") = {i \in 1..Len(Asked(c)) : Asked(c)[i].kind = "put"}
            <4> HIDE DEF Asked
            <4> QED
                BY <2>2, PlacesFinite
        <3> HIDE DEF Asked
        <3> QED
            BY <2>2, <3>1
    <2>4. Stored(c) = Count(Asked(c), "put")
        <3> HIDE DEF Asked
        <3> QED
            BY <2>1, <2>3 DEF Stored, Count
    <2>5. Count(Asked(c), "put") \in Nat
        <3> HIDE DEF Asked
        <3> QED
            BY <2>2, PlacesFinite
    <2> QED
        BY <2>2, <2>4, <2>5
<1> HIDE DEF Asked
<1>2. ASSUME NEW e \in Answers
      PROVE  Stored(Append(d, e)) =
                 IF e.request.kind = "put" THEN Stored(d) + 1 ELSE Stored(d)
    <2>1. /\ Append(d, e) \in Seq(Answers) /\ Len(Append(d, e)) = Len(d) + 1
          /\ Append(d, e)[Len(d) + 1] = e /\ Len(d) \in Nat
          /\ \A i \in 1..Len(d) : Append(d, e)[i] = d[i]
        BY AppendProperties
    <2>2. e.request \in Requests
        BY DEF Answers
    <2> DEFINE a == Asked(d)
               b == Asked(Append(d, e))
               c == Append(a, e.request)
    <2>3. a \in Seq(Requests) /\ Len(a) = Len(d) /\ \A i \in 1..Len(d) : a[i] = d[i].request
        BY <1>1
    <2>4. /\ b \in Seq(Requests) /\ Len(b) = Len(d) + 1
          /\ \A i \in 1..Len(d) + 1 : b[i] = Append(d, e)[i].request
        BY <1>1, <2>1
    <2> HIDE DEF a, b
    <2>5. /\ c \in Seq(Requests) /\ Len(c) = Len(d) + 1 /\ c[Len(d) + 1] = e.request
          /\ \A i \in 1..Len(d) : c[i] = a[i]
        BY <2>2, <2>3, AppendProperties
    <2> HIDE DEF c
    <2>6. \A i \in 1..Len(d) + 1 : i \in 1..Len(d) \/ i = Len(d) + 1
        BY <2>1
    <2>7. \A i \in 1..Len(d) + 1 : b[i] = c[i]
        BY <2>1, <2>3, <2>4, <2>5, <2>6
    <2>8. b = c
        BY <2>4, <2>5, <2>7, SeqEqual
    <2>9. Count(c, "put") = IF e.request.kind = "put" THEN Count(a, "put") + 1 ELSE Count(a, "put")
        BY <2>2, <2>3, CountAppend DEF c
    <2>10. Stored(d) = Count(a, "put") /\ Stored(Append(d, e)) = Count(b, "put")
        BY <1>1, <2>1 DEF a, b
    <2> QED
        BY <2>8, <2>9, <2>10
<1>3. ASSUME d # <<>>
      PROVE  Stored(d) = IF Head(d).request.kind = "put"
                         THEN Stored(Tail(d)) + 1 ELSE Stored(Tail(d))
    <2>1. /\ Tail(d) \in Seq(Answers) /\ Len(Tail(d)) = Len(d) - 1 /\ Len(d) \in Nat \ {0}
          /\ \A i \in 1..Len(d) - 1 : Tail(d)[i] = d[i + 1]
          /\ Head(d) = d[1]
        BY <1>3, HeadTailProperties
    <2> DEFINE a == Asked(d)
               b == Asked(Tail(d))
    <2>2. a \in Seq(Requests) /\ Len(a) = Len(d) /\ \A i \in 1..Len(d) : a[i] = d[i].request
        BY <1>1
    <2>3. /\ b \in Seq(Requests) /\ Len(b) = Len(d) - 1
          /\ \A i \in 1..Len(d) - 1 : b[i] = Tail(d)[i].request
        BY <1>1, <2>1
    <2>4. Stored(d) = Count(a, "put") /\ Stored(Tail(d)) = Count(b, "put")
        BY <1>1, <2>1
    <2> HIDE DEF a, b
    <2>5. /\ Tail(a) \in Seq(Requests) /\ Len(Tail(a)) = Len(d) - 1 /\ a # <<>>
          /\ Head(a) = a[1] /\ 1 \in 1..Len(d)
          /\ \A i \in 1..Len(d) - 1 : Tail(a)[i] = a[i + 1] /\ i + 1 \in 1..Len(d)
        BY <2>1, <2>2, HeadTailProperties
    <2>6. \A i \in 1..Len(d) - 1 : Tail(a)[i] = b[i]
        BY <2>1, <2>2, <2>3, <2>5
    <2>7. Tail(a) = b
        BY <2>3, <2>5, <2>6, SeqEqual
    <2>8. Head(a) = Head(d).request
        BY <2>1, <2>2, <2>5
    <2>9. Count(a, "put") = IF Head(a).kind = "put"
                            THEN Count(Tail(a), "put") + 1 ELSE Count(Tail(a), "put")
        BY <2>2, <2>5, CountTail
    <2> QED
        BY <2>4, <2>7, <2>8, <2>9
<1> QED
    BY <1>1, <1>2, <1>3

\* The next put that the server takes comes after those it has answered
LEMMA HeadRank ==
    ASSUME NEW d \in Seq(Answers), NEW u \in Seq(Requests), u # <<>>, Head(u).kind = "put",
           NEW k \in Nat, NEW n \in Nat, PutsAre(Box(d, u), k + 1..n)
    PROVE  Head(u).id = k + Stored(d) + 1 /\ Head(u).id <= n
<1> DEFINE box == Box(d, u)
           l == Len(d)
           p == Head(u).id
           S == {i \in DOMAIN d : d[i].request.kind = "put"}
           f == [i \in S |-> d[i].request.id]
<1>1. /\ box \in Seq(Requests) /\ Len(box) = l + Len(u)
      /\ \A i \in 1..l + Len(u) : box[i] = IF i <= l THEN d[i].request ELSE u[i - l]
    BY BoxIs
<1>2. l \in Nat /\ Len(u) \in Nat \ {0} /\ DOMAIN d = 1..l /\ u[1] = Head(u)
    OBVIOUS
<1> HIDE DEF box
<1>3. /\ \A i \in 1..l + Len(u) : box[i].kind = "put" => box[i].id \in k + 1..n
      /\ \A q \in k + 1..n : \E i \in 1..l + Len(u) : box[i].kind = "put" /\ box[i].id = q
      /\ \A i, j \in 1..l + Len(u) :
            i < j /\ box[i].kind = "put" /\ box[j].kind = "put" => box[i].id < box[j].id
    BY <1>1 DEF PutsAre, box
<1> HIDE DEF l
<1>4. l + 1 \in 1..l + Len(u) /\ ~ l + 1 <= l /\ (l + 1) - l = 1
    BY <1>2
<1>5. box[l + 1] = Head(u)
    BY <1>1, <1>2, <1>4
<1>6. p \in k + 1..n
    BY <1>3, <1>4, <1>5
<1>7. \A i \in 1..l : i \in 1..l + Len(u) /\ box[i] = d[i].request /\ i < l + 1
    BY <1>1, <1>2
<1>8. S = {i \in 1..l : box[i].kind = "put"}
    BY <1>2, <1>7
<1>9. \A i \in S : f[i] = box[i].id
    BY <1>7, <1>8
<1> HIDE DEF S, f
<1>10. \A i \in S : f[i] \in k + 1..p - 1
    <2> SUFFICES ASSUME NEW i \in S PROVE f[i] \in k + 1..p - 1
        OBVIOUS
    <2>1. box[i].id \in k + 1..n /\ box[i].id < p
        BY <1>3, <1>4, <1>5, <1>7, <1>8
    <2> HIDE DEF p
    <2> QED
        BY <1>6, <1>9, <2>1
<1>11. f \in [S -> k + 1..p - 1]
    BY <1>10 DEF f
<1>12. \A x, y \in S : f[x] = f[y] => x = y
    <2> SUFFICES ASSUME NEW x \in S, NEW y \in S, f[x] = f[y], x # y PROVE FALSE
        OBVIOUS
    <2>1. x \in 1..l /\ y \in 1..l /\ box[x].kind = "put" /\ box[y].kind = "put"
        BY <1>8
    <2>2. box[x].id = box[y].id /\ box[x].id \in Nat
        BY <1>3, <1>7, <1>9, <2>1
    <2>3. x < y \/ y < x
        BY <1>2, <2>1
    <2>4. box[x].id < box[y].id \/ box[y].id < box[x].id
        BY <1>3, <1>7, <2>1, <2>3
    <2> QED
        BY <2>2, <2>4
<1>13. ASSUME NEW q \in k + 1..p - 1 PROVE \E x \in S : f[x] = q
    <2>1. q \in k + 1..n /\ q < p /\ q \in Nat /\ p \in Nat
        <3> HIDE DEF p
        <3> QED
            BY <1>6
    <2> PICK i \in 1..l + Len(u) : box[i].kind = "put" /\ box[i].id = q
        BY <1>3, <2>1
    <2>2. i # l + 1
        BY <1>5, <2>1
    <2>3. ~ l + 1 < i
        <3> SUFFICES ASSUME l + 1 < i PROVE FALSE
            OBVIOUS
        <3>1. box[l + 1].id < box[i].id
            BY <1>3, <1>4, <1>5
        <3> HIDE DEF p
        <3> QED
            BY <1>5, <2>1, <3>1 DEF p
    <2>4. i \in 1..l
        BY <1>2, <2>2, <2>3
    <2> QED
        BY <1>8, <1>9, <2>4
<1>14. IsFiniteSet(S)
    <2>1. IsFiniteSet(1..l)
        BY <1>2, FS_Interval
    <2> QED
        BY <1>8, <2>1, FS_Subset
<1>15. Cardinality(k + 1..p - 1) = Cardinality(S)
    <2> DEFINE T == k + 1..p - 1
    <2>1. f \in [S -> T] /\ \A z \in T : \E x \in S : f[x] = z
        BY <1>11, <1>13
    <2> HIDE DEF T
    <2>2. Cardinality(T) = Cardinality(S)
        BY <1>12, <1>14, <2>1, SameCount
    <2> QED
        BY <2>2 DEF T
<1>16. p \in Nat /\ k + 1 <= p /\ p <= n
    <2> HIDE DEF p
    <2> QED
        BY <1>6
<1> HIDE DEF p
<1>17. Cardinality(k + 1..p - 1) = p - 1 - k
    <2>1. Cardinality(k + 1..p - 1) = IF k + 1 > p - 1 THEN 0 ELSE p - 1 - (k + 1) + 1
        BY <1>16, FS_Interval
    <2> QED
        BY <1>16, <2>1
<1>18. Stored(d) = Cardinality(S)
    BY DEF Stored, S
<1>19. Stored(d) = p - 1 - k
    BY <1>15, <1>17, <1>18
<1>20. p = k + Stored(d) + 1
    BY <1>16, <1>19
<1> QED
    BY <1>16, <1>20 DEF p

LEMMA QueueStep ==
    ASSUME ClientInv, OrderInv, Permanent # {}, [Next]_vars
    PROVE  [Queue!Next]_<<putsToAck \o Sorted(outstandingPuts), Len(putsToAck),
                          Len(putsToAck) + Stored(down), last>>
<1> DEFINE Q == putsToAck \o Sorted(outstandingPuts)
           b == Len(ran)
           n == putCounter
           m == Len(putsToAck)
           c == Stored(down)
           Stays == UNCHANGED <<Q, m, m + c, last>>
           Goal == Queue!Next \/ Stays
<1>1. MessageTypes /\ MessageInv /\ LinkInv /\ ClientInv' /\ OrderInv'
    BY ClientStep, OrderStep DEF ClientInv
<1>2. /\ MessageTypes'
      /\ BlocksFit(ran, putsToAck, outstandingPuts, putCounter)
      /\ BlocksFit(ran', putsToAck', outstandingPuts', putCounter')
    BY <1>1 DEF ClientInv, OrderInv
<1>3. /\ ran \in Seq(Nat) /\ putsToAck \in Seq(Nat) /\ ran' \in Seq(Nat) /\ putsToAck' \in Seq(Nat)
      /\ n \in Nat /\ n' \in Nat
    <2>1. 1..MaxPuts \subseteq Nat /\ MaxPuts \in Nat
        BY ClientConstants
    <2>2. /\ ran \in Seq(1..MaxPuts) /\ putsToAck \in Seq(1..MaxPuts)
          /\ ran' \in Seq(1..MaxPuts) /\ putsToAck' \in Seq(1..MaxPuts)
          /\ n \in 0..MaxPuts /\ n' \in 0..MaxPuts
        BY <1>1, <1>2 DEF MessageTypes
    <2>3. Seq(1..MaxPuts) \subseteq Seq(Nat)
        BY <2>1, SeqMonotonic
    <2> QED
        BY <2>1, <2>2, <2>3
<1>4. /\ Q = Line(b, n) /\ b + m <= n /\ b \in Nat /\ m \in Nat
      /\ Q' = Line(b', n') /\ b' + m' <= n' /\ b' \in Nat /\ m' \in Nat
    <2>1. /\ putsToAck \o Sorted(outstandingPuts) = Line(Len(ran), n) /\ Len(ran) + Len(putsToAck) <= n
        BY <1>2, <1>3, QueueIs
    <2>2. /\ putsToAck' \o Sorted(outstandingPuts') = Line(Len(ran'), n')
          /\ Len(ran') + Len(putsToAck') <= n'
        BY <1>2, <1>3, QueueIs
    <2> QED
        BY <1>3, <2>1, <2>2
<1>5. /\ down \in Seq(Answers) /\ up \in Seq(Requests) /\ c \in Nat
      /\ down' \in Seq(Answers) /\ c' \in Nat
    <2>1. down \in Seq(Answers) /\ up \in Seq(Requests) /\ down' \in Seq(Answers)
        BY <1>1, <1>2 DEF MessageTypes
    <2>2. Stored(down) \in Nat /\ Stored(down') \in Nat
        BY <2>1, StoredIs
    <2> QED
        BY <2>1, <2>2
<1>6. Q \in Seq(Nat) /\ Len(Q) = n - b /\ \A i \in 1..n - b : Q[i] = b + i
    <2>1. b <= n
        BY <1>3, <1>4
    <2>2. /\ Line(b, n) \in Seq(Nat) /\ Len(Line(b, n)) = n - b
          /\ \A i \in 1..n - b : Line(b, n)[i] = b + i
        BY <1>3, <1>4, <2>1, LineIs
    <2> QED
        BY <1>4, <2>2
<1> HIDE DEF Q, b, m, c, Stays, Goal
<1> SUFFICES Goal
    BY DEF Goal, Stays, Q, m, c
<1>0. m \in Nat /\ c \in Nat /\ m' \in Nat /\ c' \in Nat
    BY <1>4, <1>5
<1>7. ASSUME UNCHANGED puts, c' = c
      PROVE  Goal
    <2>1. /\ putsToAck' = putsToAck /\ outstandingPuts' = outstandingPuts /\ last' = last
        BY <1>7 DEF puts
    <2>2. Q' = Q /\ m' = m
        BY <2>1 DEF Q, m
    <2>3. (m + c)' = m + c
        BY <1>7, <2>2
    <2> QED
        BY <2>1, <2>2, <2>3 DEF Goal, Stays
<1>8. ASSUME UNCHANGED puts, down' = <<>>
      PROVE  Goal
    <2>1. /\ putsToAck' = putsToAck /\ outstandingPuts' = outstandingPuts /\ last' = last
        BY <1>8 DEF puts
    <2>2. c' = 0
        <3>1. Stored(<<>>) = 0
            <4>1. {i \in DOMAIN <<>> : <<>>[i].request.kind = "put"} = {}
                OBVIOUS
            <4> QED
                BY <4>1, FS_EmptySet DEF Stored
        <3> QED
            BY <1>8, <3>1 DEF c
    <2>3. Q' = Q /\ m' = m
        BY <2>1 DEF Q, m
    <2>4. (m + c)' = m
        BY <1>4, <2>2, <2>3
    <2>5. Queue!Lose
        BY <2>1, <2>3, <2>4 DEF Queue!Lose, Q, m, c, Stored
    <2> QED
        BY <2>5 DEF Queue!Next, Goal
<1>9. ASSUME NEW forced, NEW reasons, OnDisconnect(forced, reasons), UNCHANGED puts
      PROVE  Goal
    <2>1. down' = <<>>
        BY <1>9 DEF OnDisconnect
    <2> QED
        BY <1>8, <1>9, <2>1
<1>10. ASSUME UNCHANGED puts, down' = down
       PROVE  Goal
    BY <1>7, <1>10 DEF c
<1>11. ASSUME down # <<>>, down' = Tail(down), Head(down).request.kind # "put"
       PROVE  c' = c
    BY <1>5, <1>11, StoredIs DEF c
<1>12. CASE Resume \/ Reachable \/ FetchToken
    BY <1>10, <1>12 DEF Resume, ResumeForReason, Reachable, FetchToken, wire
<1>13. CASE Interrupt
    <2> PICK r \in {"repo_interrupt", "server_kill"} : InterruptForReason(r)
        BY <1>13 DEF Interrupt
    <2>1. UNCHANGED puts /\ (OnDisconnect(forceRefresh, interruptReasons') \/ down' = down)
        BY DEF InterruptForReason, wire
    <2> QED
        BY <1>9, <1>10, <2>1
<1>14. ASSUME NEW f \in fetching, TokenFetched(f) \/ TokenFailed(f)
       PROVE  Goal
    BY <1>10, <1>14 DEF TokenFetched, TokenFailed, wire
<1>15. CASE OnReady
    BY <1>10, <1>15 DEF OnReady
<1>16. CASE ConnectionLost \/ AuthRevoked
    BY <1>9, <1>16 DEF ConnectionLost, AuthRevoked
<1>17. ASSUME NEW path \in Paths, PutData(path)
       PROVE  Goal
    <2>1. /\ putCounter' = putCounter + 1 /\ putsToAck' = putsToAck /\ ran' = ran
          /\ last' = last /\ down' = down /\ putCounter < MaxPuts
        BY <1>17 DEF PutData
    <2>2. m' = m /\ c' = c /\ b' = b /\ n' = n + 1 /\ n + 1 \in 1..MaxPuts
        BY <1>3, <2>1, ClientConstants DEF m, c, b
    <2>3. b <= n
        BY <1>3, <1>4
    <2>4. Q' = Append(Q, n + 1)
        BY <1>3, <1>4, <2>2, <2>3, LineAppend
    <2>5. (m + c)' = m + c
        BY <2>2
    <2>6. Queue!Put
        BY <2>1, <2>2, <2>4, <2>5 DEF Queue!Put, Q, m, c, Stored
    <2> QED
        BY <2>6 DEF Queue!Next, Goal
<1>18. ASSUME NEW q \in Queries, Listen(q) \/ Unlisten(q)
       PROVE  Goal
    BY <1>10, <1>18 DEF Listen, Unlisten, wire
<1>19. ASSUME NEW token \in {None, "good"}, RefreshAuthToken(token)
       PROVE  Goal
    BY <1>10, <1>19 DEF RefreshAuthToken
<1>20. ASSUME NEW ok \in BOOLEAN, ServerAnswers(ok)
       PROVE  Goal
    <2> DEFINE r == Head(up)
               e == [request |-> r, ok |-> ok]
    <2>1. /\ up # <<>> /\ down' = Append(down, e)
          /\ putCounter' = putCounter /\ outstandingPuts' = outstandingPuts
          /\ putsToAck' = putsToAck /\ ran' = ran
          /\ last' = (IF r.kind = "put" /\ ok THEN r.id ELSE last)
        BY <1>20 DEF ServerAnswers
    <2>2. r \in Requests
        BY <1>5, <2>1, HeadTailProperties
    <2>3. e \in Answers /\ e.request = r
        BY <2>2 DEF Answers
    <2> HIDE DEF e
    <2>4. c' = IF r.kind = "put" THEN c + 1 ELSE c
        BY <1>5, <2>1, <2>3, StoredIs DEF c
    <2>5. Q' = Q /\ m' = m
        BY <2>1 DEF Q, m
    <2>6. CASE r.kind # "put"
        <3>1. (m + c)' = m + c /\ last' = last
            BY <2>1, <2>4, <2>5, <2>6
        <3> QED
            BY <2>5, <3>1 DEF Goal, Stays
    <2>7. CASE r.kind = "put"
        <3>1. BoxInv(Box(down, up), state, unacked, outstandingPuts)
            BY <1>1, MessageInvIs
        <3>2. PutsAre(Box(down, up), Given(state, outstandingPuts))
            BY <3>1 DEF BoxInv
        <3>3. state = "Connected"
            <4> SUFFICES ASSUME state # "Connected" PROVE FALSE
                OBVIOUS
            <4>1. PutsAre(Box(down, up), {})
                BY <3>2 DEF Given
            <4>2. /\ Len(Box(down, up)) = Len(down) + Len(up)
                  /\ \A i \in 1..Len(down) + Len(up) :
                        Box(down, up)[i] = IF i <= Len(down) THEN down[i].request
                                           ELSE up[i - Len(down)]
                BY <1>5, BoxIs
            <4>3. /\ Len(down) \in Nat /\ Len(up) \in Nat \ {0} /\ up[1] = r
                BY <1>5, <2>1
            <4>4. /\ Len(down) + 1 \in 1..Len(down) + Len(up) /\ ~ Len(down) + 1 <= Len(down)
                  /\ (Len(down) + 1) - Len(down) = 1
                BY <4>3
            <4>5. Box(down, up)[Len(down) + 1] = r
                BY <4>2, <4>3, <4>4
            <4> HIDE DEF r
            <4> QED
                BY <2>7, <4>1, <4>2, <4>4, <4>5 DEF PutsAre
        <3>4. outstandingPuts = (b + m) + 1..n
            BY <1>2 DEF BlocksFit, b, m
        <3>5. PutsAre(Box(down, up), (b + m) + 1..n)
            BY <3>2, <3>3, <3>4 DEF Given
        <3>6. b + m \in Nat
            BY <1>4
        <3>7. r.id = (b + m) + c + 1 /\ r.id <= n
            BY <1>3, <1>5, <2>1, <2>7, <3>5, <3>6, HeadRank DEF c
        <3> HIDE DEF r
        <3>8. m + c < Len(Q) /\ (m + c) + 1 \in 1..n - b /\ b + ((m + c) + 1) = r.id
            BY <1>3, <1>4, <1>5, <1>6, <3>7
        <3>9. (m + c)' = (m + c) + 1
            BY <1>4, <1>5, <2>4, <2>5, <2>7
        <3>10. Q[(m + c)'] = r.id
            BY <1>6, <3>8, <3>9
        <3>11. last' \in {last, Q[(m + c)']}
            BY <2>1, <3>10
        <3>12. Queue!Store
            BY <2>5, <3>8, <3>9, <3>11 DEF Queue!Store, Q, m, c, Stored
        <3> QED
            BY <3>12 DEF Queue!Next, Goal
    <2> QED
        BY <2>6, <2>7
<1>21. ASSUME NEW r, down # <<>>, r = Head(down).request, r.kind = "put", PutAnswered(r),
              down' = Tail(down)
       PROVE  Goal
    <2>1. n' = n /\ last' = last
        BY <1>21 DEF PutAnswered
    <2>2. c = c' + 1
        BY <1>5, <1>21, StoredIs DEF c
    <2>3. state = "Connected" /\ r.id \in Nat
        BY <1>1, <1>21, PutAnsweredStep
    <2>4. CASE unacked = 0
        <3>1. putsToAck = <<>> /\ putsToAck' = putsToAck /\ ran' = ran \o <<r.id>>
            BY <1>21, <2>3, <2>4 DEF PutAnswered, OrderInv, RunBlocks
        <3>2. m = 0 /\ m' = 0
            BY <3>1 DEF m
        <3>3. b' = b + 1
            <4>1. <<r.id>> \in Seq(Nat) /\ Len(<<r.id>>) = 1
                BY <2>3
            <4> QED
                BY <1>3, <3>1, <4>1, ConcatProperties DEF b
        <3>4. b + 1 <= n
            BY <1>3, <1>4, <2>1, <3>2, <3>3
        <3>5. Q' = SubSeq(Q, 1 + 1, Len(Q))
            <4>1. Line(b + 1, n) = SubSeq(Line(b, n), 1 + 1, Len(Line(b, n)))
                BY <1>3, <1>4, <3>4, LineRest
            <4> QED
                BY <1>4, <2>1, <3>3, <4>1
        <3>6. 1 \in 1..m + c /\ (m + c)' = (m + c) - 1 /\ m' = IF 1 <= m THEN m - 1 ELSE 0
            <4>1. (m + c)' = m' + c'
                OBVIOUS
            <4>2. m' + c' = (m + c) - 1
                BY <1>0, <2>2, <3>2
            <4>3. 1 \in 1..m + c
                <5>1. \A x, y, z \in Nat : x = y + 1 => 1 \in 1..z + x
                    OBVIOUS
                <5>2. c \in Nat /\ c' \in Nat /\ m \in Nat /\ c = c' + 1
                    BY <1>0, <2>2
                <5> QED
                    BY <5>1, <5>2, Zenon
            <4>4. m' = IF 1 <= m THEN m - 1 ELSE 0
                BY <3>2
            <4> QED
                BY <4>1, <4>2, <4>3, <4>4
        <3>7. Queue!Run(1)
            BY <2>1, <3>5, <3>6 DEF Queue!Run, Q, m, c, Stored
        <3> QED
            BY <3>6, <3>7 DEF Queue!Next, Goal, m, c, Stored
    <2>5. CASE unacked # 0
        <3>1. putsToAck' = Append(putsToAck, r.id) /\ ran' = ran
            BY <1>21, <2>5 DEF PutAnswered
        <3>2. m' = m + 1 /\ b' = b
            BY <1>3, <2>3, <3>1, AppendProperties DEF m, b
        <3>3. Q' = Q
            BY <1>4, <2>1, <3>2
        <3>4. m < m + c /\ (m + c)' = m + c
            <4>1. (m + c)' = m' + c'
                OBVIOUS
            <4>2. m' + c' = m + c
                BY <1>0, <2>2, <3>2
            <4>3. m < m + c
                <5>1. \A x, y, z \in Nat : x = y + 1 => z < z + x
                    OBVIOUS
                <5>2. c \in Nat /\ c' \in Nat /\ m \in Nat /\ c = c' + 1
                    BY <1>0, <2>2
                <5> QED
                    BY <5>1, <5>2, Zenon
            <4> QED
                BY <4>1, <4>2, <4>3
        <3>5. Queue!Answer
            BY <2>1, <3>2, <3>3, <3>4 DEF Queue!Answer, Q, m, c, Stored
        <3> QED
            BY <3>5 DEF Queue!Next, Goal
    <2> QED
        BY <2>4, <2>5
<1>22. ASSUME NEW r, down # <<>>, r = Head(down).request, r.kind = "listen", NEW ok,
              ListenAnswered(r, ok), down' = Tail(down)
       PROVE  Goal
    <2>1. n' = n /\ last' = last
        BY <1>22 DEF ListenAnswered
    <2>2. c' = c
        BY <1>11, <1>22
    <2>3. CASE unacked' = 0
        <3>1. putsToAck' = <<>> /\ ran' = ran \o putsToAck
            BY <1>22, <2>3 DEF ListenAnswered, RunBlocks
        <3>2. m' = 0
            BY <3>1 DEF m
        <3>3. b' = b + m
            BY <1>3, <3>1, ConcatProperties DEF b, m
        <3>4. Q' = SubSeq(Q, m + 1, Len(Q))
            <4>1. Line(b + m, n) = SubSeq(Line(b, n), m + 1, Len(Line(b, n)))
                BY <1>3, <1>4, LineRest
            <4> QED
                BY <1>4, <2>1, <3>3, <4>1
        <3>5. (m + c)' = (m + c) - m
            BY <1>4, <1>5, <2>2, <3>2
        <3>6. CASE m = 0
            <4>1. Q' = Q
                BY <1>4, <2>1, <3>3, <3>6
            <4>2. m' = m /\ (m + c)' = m + c
                BY <1>0, <2>2, <3>2, <3>6
            <4> QED
                BY <2>1, <4>1, <4>2 DEF Goal, Stays
        <3>7. CASE m # 0
            <4>1. m \in 1..m + c /\ m' = IF m <= m THEN m - m ELSE 0
                BY <1>4, <1>5, <3>2, <3>7
            <4>2. Queue!Run(m)
                BY <2>1, <3>4, <3>5, <4>1 DEF Queue!Run, Q, m, c, Stored
            <4> QED
                BY <4>1, <4>2 DEF Queue!Next, Goal, m, c, Stored
        <3> QED
            BY <3>6, <3>7
    <2>4. CASE unacked' # 0
        <3>1. UNCHANGED puts
            BY <1>22, <2>4 DEF ListenAnswered, puts
        <3> QED
            BY <1>7, <2>2, <3>1
    <2> QED
        BY <2>3, <2>4
<1>23. CASE OnDataMessage
    <2> DEFINE r == Head(down).request
               ok == Head(down).ok
    <2>1. /\ down # <<>>
          /\ \/ r.kind = "put" /\ PutAnswered(r) /\ down' = Tail(down)
             \/ r.kind = "listen" /\ ListenAnswered(r, ok) /\ down' = Tail(down)
             \/ r.kind = "auth" /\ AuthAnswered(r, ok)
        BY <1>23 DEF OnDataMessage
    <2>2. r = Head(down).request
        OBVIOUS
    <2> HIDE DEF r, ok
    <2>3. CASE r.kind = "put" /\ PutAnswered(r) /\ down' = Tail(down)
        BY <1>21, <2>1, <2>2, <2>3
    <2>4. CASE r.kind = "listen" /\ ListenAnswered(r, ok) /\ down' = Tail(down)
        BY <1>22, <2>1, <2>2, <2>4
    <2>5. CASE r.kind = "auth" /\ AuthAnswered(r, ok)
        <3>1. UNCHANGED puts /\ (down' = Tail(down) \/ OnDisconnect(TRUE, interruptReasons))
            BY <2>5 DEF AuthAnswered
        <3>2. CASE down' = Tail(down)
            <4>1. c' = c
                BY <1>11, <2>1, <2>2, <2>5, <3>2
            <4> QED
                BY <1>7, <3>1, <4>1
        <3> QED
            BY <1>9, <3>1, <3>2
    <2> QED
        BY <2>1, <2>3, <2>4, <2>5
<1>24. CASE UNCHANGED vars
    BY <1>10, <1>24 DEF vars, wire
<1> QED
    BY <1>12, <1>13, <1>14, <1>15, <1>16, <1>17, <1>18, <1>19, <1>20, <1>23, <1>24
       DEF Next, App, Server, TokenAnswers

\* With a listen that stays, the client, its connections and the server keep
\* the promise of PutQueue: puts are stored and answered in the order of the
\* setValues, one at a time, and their blocks run in that order.
THEOREM ClientImplementsQueue ==
    ASSUME Permanent # {}
    PROVE  Spec => ImplementsQueue
<1>1. ClientInv /\ OrderInv /\ [Next]_vars => OrderInv'
    BY OrderStep
<1>2. Init => Queue!Init
    <2> SUFFICES ASSUME Init PROVE Queue!Init
        OBVIOUS
    <2>1. putsToAck = <<>> /\ outstandingPuts = {} /\ down = <<>> /\ last = 0
        BY DEF Init
    <2>2. BlocksFit(ran, putsToAck, outstandingPuts, putCounter)
        BY OrderInit DEF OrderInv
    <2>3. putsToAck \o Sorted(outstandingPuts) = <<>> /\ Len(putsToAck) = 0
        <3>1. ran = <<>> /\ putsToAck = <<>> /\ putCounter = 0 /\ Len(ran) = 0
            BY DEF Init
        <3>2. ran \in Seq(Nat) /\ putsToAck \in Seq(Nat) /\ putCounter \in Nat
            BY <3>1
        <3>3. putsToAck \o Sorted(outstandingPuts) = Line(Len(ran), putCounter)
            BY <2>2, <3>2, QueueIs
        <3>4. Line(Len(ran), putCounter) = <<>>
            BY <3>1 DEF Line
        <3> QED
            BY <3>1, <3>3, <3>4
    <2>4. Cardinality({i \in DOMAIN down : down[i].request.kind = "put"}) = 0
        <3>1. {i \in DOMAIN down : down[i].request.kind = "put"} = {}
            BY <2>1
        <3> QED
            BY <3>1, FS_EmptySet
    <2> QED
        BY <2>1, <2>2, <2>3, <2>4 DEF Queue!Init
<1>3. ClientInv /\ OrderInv /\ [Next]_vars =>
          [Queue!Next]_<<putsToAck \o Sorted(outstandingPuts), Len(putsToAck),
                         Len(putsToAck) +
                         Cardinality({i \in DOMAIN down : down[i].request.kind = "put"}), last>>
    BY QueueStep DEF Stored
<1> QED
    BY <1>1, <1>2, <1>3, ClientInit, ClientStep, OrderInit, PTL DEF Spec, ImplementsQueue, Queue!Spec
=============================================================================

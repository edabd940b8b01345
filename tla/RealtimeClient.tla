--------------------------- MODULE RealtimeClient ---------------------------
(***************************************************************************)
(* FPersistentConnection of the Firebase client, below every setValue and  *)
(* observe of DatabaseManager: one connection at a time, its puts and      *)
(* listens, and what is sent again when it is lost.                        *)
(*                                                                         *)
(*   Disconnected -> GettingToken -> Connecting -> (Authenticating ->)     *)
(*   Connected, and from each of them back to Disconnected                 *)
(*                                                                         *)
(* A put is named by its index in outstandingPuts, which is also the order *)
(* of the write ids of WriteTree.  Requests that no block waits for        *)
(* (unlisten, unauth) are not followed to the server.                      *)
(***************************************************************************)
EXTENDS WriteTree, FiniteSets

CONSTANTS
    Queries,    \* locations that are listened to
    Permanent,  \* those whose observer is there from the start and stays
    Denied,     \* those the server may refuse to listen to
    MaxPuts,    \* setValues in a behaviour
    MaxListens, \* times a location may be listened to
    MaxFaults,  \* lost connections, interrupts, errors and changes of tokens
    None

ASSUME ClientConstants ==
    /\ IsFiniteSet(Queries) /\ Permanent \subseteq Queries
    /\ Denied \subseteq Queries \ Permanent
    /\ MaxPuts \in Nat /\ MaxListens \in Nat \ {0} /\ MaxFaults \in Nat
    /\ None \notin {"good", "stale"}

VARIABLES
    state,            \* connectionState
    interruptReasons,
    retry,            \* the retry helper's task: "none", "plain" or "forced"
    attempt,          \* currentFetchTokenAttempt
    fetching,         \* the fetches of a token under way: [n, forced]
    authToken,        \* None, "good", or "stale": refused by the server
    forceRefresh,     \* forceAuthTokenRefresh
    credential,       \* the token Firebase Auth has
    up, down,         \* requests to, and answers from, the server
    listens,          \* the locations in self.listens
    made,             \* made[q]: how often q was listened to
    unacked,          \* unackedListensCount
    putCounter,
    outstandingPuts,
    putsToAck,        \* answered puts whose blocks wait for the listens
    ran,              \* the puts whose blocks have run, in that order
    last,             \* the last put the server has stored
    faults            \* how many faults there have been

tokens == <<authToken, forceRefresh, credential>>
link == <<state, interruptReasons, retry, attempt, fetching>>
wire == <<up, down>>
queries == <<listens, made, unacked>>
puts == <<putCounter, outstandingPuts, putsToAck, ran, last>>
writes == <<allWrites, visibleWrites>>
vars == <<tokens, link, wire, queries, puts, writes, faults>>

----------------------------------------------------------------------------

Realtime == {"Connecting", "Authenticating", "Connected"}  \* self.realtime
connected == state \in {"Authenticating", "Connected"}
canSendWrites == state = "Connected"
Opened == "waiting_for_open" \notin interruptReasons

Tokens == {None, "good", "stale"}
Reasons == {"waiting_for_open", "server_kill", "repo_interrupt"}
AuthRequests == [kind : {"auth"}, token : Tokens \ {None}, restore : BOOLEAN]
ListenRequests == [kind : {"listen"}, query : Queries, spec : 1..MaxListens]
PutRequests == [kind : {"put"}, id : 1..MaxPuts]
Requests == AuthRequests \cup ListenRequests \cup PutRequests

AuthRequest(token, restore) ==
    [kind |-> "auth", token |-> token, restore |-> restore]
ListenRequest(q) == [kind |-> "listen", query |-> q, spec |-> made[q]]
PutRequest(id) == [kind |-> "put", id |-> id]

Fault == faults < MaxFaults /\ faults' = faults + 1

\* tryScheduleReconnect, given the flag and the reasons: the task takes the
\* flag with it, and takes the place of one that is there
TryScheduleReconnect(forced, reasons) ==
    IF reasons = {}
    THEN /\ retry' = IF forced THEN "forced" ELSE "plain"
         /\ forceRefresh' = FALSE
    ELSE /\ forceRefresh' = forced
         /\ UNCHANGED retry

\* Mutant: the listens of the lost connection are still counted
OnDisconnectKeepsCount(forced, reasons) ==
    /\ state' = "Disconnected"
    /\ up' = <<>> /\ down' = <<>>
    /\ TryScheduleReconnect(forced, reasons)
    /\ UNCHANGED unacked

\* onDisconnect: the connection's requests and their blocks are dropped
OnDisconnect(forced, reasons) ==
    /\ state' = "Disconnected"
    /\ up' = <<>> /\ down' = <<>>
    /\ unacked' = 0
    /\ TryScheduleReconnect(forced, reasons)

\* The orders in which a dictionary may enumerate its keys
Orders(S) == {s \in [1..Cardinality(S) -> S] : \A q \in S : \E i \in DOMAIN s : s[i] = q}

\* The puts in the order of their indexes
Sorted(ids) ==
    CHOOSE s \in Orders(ids) : \A i, j \in DOMAIN s : i < j => s[i] < s[j]

Listening(order) == [i \in DOMAIN order |-> ListenRequest(order[i])]
Putting(ids) == [i \in DOMAIN ids |-> PutRequest(ids[i])]

\* Mutant: only the puts are sent again
RestoreStatePutsOnly(sent) ==
    /\ up' = sent \o Putting(Sorted(outstandingPuts))
    /\ UNCHANGED unacked

\* restoreState: the listens, then the puts, behind what is already sent
RestoreState(sent) ==
    \E order \in Orders(listens) :
        /\ up' = sent \o Listening(order) \o Putting(Sorted(outstandingPuts))
        /\ unacked' = unacked + Len(order)

\* The completion blocks of some puts: the writes go, the app's blocks run
RunBlocks(ids) ==
    /\ ran' = ran \o ids
    /\ AckUserWrites(ids)

----------------------------------------------------------------------------

Init ==
    /\ WritesInit
    /\ state = "Disconnected"
    /\ interruptReasons = {"waiting_for_open"}
    /\ retry = "none"
    /\ attempt = 0
    /\ fetching = {}
    /\ authToken = None
    /\ forceRefresh = FALSE
    /\ credential \in Tokens
    /\ up = <<>> /\ down = <<>>
    /\ listens = Permanent
    /\ made = [q \in Queries |-> IF q \in Permanent THEN 1 ELSE 0]
    /\ unacked = 0
    /\ putCounter = 0
    /\ outstandingPuts = {}
    /\ putsToAck = <<>>
    /\ ran = <<>>
    /\ last = 0
    /\ faults = 0

----------------------------------------------------------------------------
(* The connection                                                          *)

\* resumeForReason
ResumeForReason(r) ==
    /\ r \in interruptReasons
    /\ interruptReasons' = interruptReasons \ {r}
    /\ IF state = "Disconnected"
       THEN TryScheduleReconnect(forceRefresh, interruptReasons')
       ELSE UNCHANGED <<retry, forceRefresh>>
    /\ UNCHANGED <<state, attempt, fetching, authToken, credential, wire,
                   queries, puts, writes, faults>>

\* open, and goOnline
Resume == \E r \in {"waiting_for_open", "repo_interrupt"} : ResumeForReason(r)

\* interruptForReason: a connection is closed, a task of the retry helper
\* cancelled; a fetch of a token goes on
InterruptForReason(r) ==
    /\ Fault
    /\ r \notin interruptReasons
    /\ interruptReasons' = interruptReasons \cup {r}
    /\ \/ /\ state \in Realtime
          /\ OnDisconnect(forceRefresh, interruptReasons')
       \/ /\ state \notin Realtime
          /\ state' = "Disconnected"
          /\ retry' = "none"
          /\ UNCHANGED <<forceRefresh, wire, unacked>>
    /\ UNCHANGED <<attempt, fetching, authToken, credential, listens, made,
                   puts, writes>>

\* goOffline, and onKill: the server shuts the connection down for good
Interrupt == \/ Opened /\ InterruptForReason("repo_interrupt")
             \/ state \in Realtime /\ InterruptForReason("server_kill")

\* reachabilityCallback and enteringForeground: a waiting task is replaced,
\* and the new one forces no refresh
Reachable ==
    /\ state = "Disconnected"
    /\ Fault
    /\ TryScheduleReconnect(forceRefresh, interruptReasons)
    /\ UNCHANGED <<state, interruptReasons, attempt, fetching, authToken,
                   credential, wire, queries, puts, writes>>

\* The retry helper's task: fetch a token
FetchToken ==
    /\ retry # "none"
    /\ retry' = "none"
    /\ state' = "GettingToken"
    /\ attempt' = attempt + 1
    /\ fetching' = fetching \cup {[n |-> attempt', forced |-> retry = "forced"]}
    /\ UNCHANGED <<interruptReasons, tokens, wire, queries, puts, writes, faults>>

\* Mutant: the result of every attempt is used
TokenFetchedByAny(f) ==
    /\ fetching' = fetching \ {f}
    /\ credential' = IF f.forced /\ credential # None THEN "good" ELSE credential
    /\ IF state = "GettingToken"
       THEN state' = "Connecting" /\ authToken' = credential'
       ELSE UNCHANGED <<state, authToken>>
    /\ UNCHANGED <<interruptReasons, retry, attempt, forceRefresh, wire,
                   queries, puts, writes, faults>>

\* The token is there: unless the attempt is an old one, or was interrupted,
\* openNetworkConnectionWithToken
TokenFetched(f) ==
    /\ fetching' = fetching \ {f}
    /\ credential' = IF f.forced /\ credential # None THEN "good" ELSE credential
    /\ IF f.n = attempt /\ state = "GettingToken"
       THEN state' = "Connecting" /\ authToken' = credential'
       ELSE UNCHANGED <<state, authToken>>
    /\ UNCHANGED <<interruptReasons, retry, attempt, forceRefresh, wire,
                   queries, puts, writes, faults>>

\* Mutant: nothing is scheduled after an error
TokenFailedStops(f) ==
    /\ Fault
    /\ fetching' = fetching \ {f}
    /\ IF f.n = attempt THEN state' = "Disconnected" ELSE UNCHANGED state
    /\ UNCHANGED <<interruptReasons, retry, attempt, tokens, wire, queries,
                   puts, writes>>

\* There is none: try again
TokenFailed(f) ==
    /\ Fault
    /\ fetching' = fetching \ {f}
    /\ IF f.n = attempt
       THEN state' = "Disconnected" /\ TryScheduleReconnect(forceRefresh, interruptReasons)
       ELSE UNCHANGED <<state, retry, forceRefresh>>
    /\ UNCHANGED <<interruptReasons, attempt, authToken, credential, wire,
                   queries, puts, writes>>

\* onReady, restoreAuth: authenticate, or restore the state at once
OnReady ==
    /\ state = "Connecting"
    /\ \/ /\ authToken = None
          /\ state' = "Connected"
          /\ RestoreState(up)
       \/ /\ authToken # None
          /\ state' = "Authenticating"
          /\ up' = Append(up, AuthRequest(authToken, TRUE))
          /\ UNCHANGED unacked
    /\ UNCHANGED <<interruptReasons, retry, attempt, fetching, tokens, down,
                   listens, made, puts, writes, faults>>

\* The connection, or the attempt to open it, fails or is reset
ConnectionLost ==
    /\ Fault
    /\ state \in Realtime
    /\ OnDisconnect(forceRefresh, interruptReasons)
    /\ UNCHANGED <<interruptReasons, attempt, fetching, authToken, credential,
                   listens, made, puts, writes>>

\* onAuthRevoked: the server no longer takes the token
AuthRevoked ==
    /\ Fault
    /\ connected
    /\ authToken # None
    /\ authToken' = None
    /\ credential' = "stale"
    /\ OnDisconnect(TRUE, interruptReasons)
    /\ UNCHANGED <<interruptReasons, attempt, fetching, listens, made, puts, writes>>

\* refreshAuthToken: the user signs in or out
RefreshAuthToken(token) ==
    /\ Opened
    /\ Fault
    /\ token # credential
    /\ credential' = token
    /\ authToken' = token
    /\ up' = IF connected /\ token # None
             THEN Append(up, AuthRequest(token, FALSE)) ELSE up
    /\ UNCHANGED <<link, forceRefresh, down, queries, puts, writes>>

----------------------------------------------------------------------------
(* Puts and listens                                                        *)

\* Mutant: a put is also sent while the connection authenticates
PutDataSendsEarly(path) ==
    /\ Opened
    /\ putCounter < MaxPuts
    /\ putCounter' = putCounter + 1
    /\ outstandingPuts' = outstandingPuts \cup {putCounter'}
    /\ up' = IF connected THEN Append(up, PutRequest(putCounter')) ELSE up
    /\ AddOverwrite(putCounter', path)
    /\ UNCHANGED <<tokens, link, down, queries, putsToAck, ran, last, faults>>

\* setValue: the write is visible at once; it is sent when the connection is
\* Connected, otherwise when the state is restored
PutData(path) ==
    /\ Opened
    /\ putCounter < MaxPuts
    /\ putCounter' = putCounter + 1
    /\ outstandingPuts' = outstandingPuts \cup {putCounter'}
    /\ up' = IF canSendWrites THEN Append(up, PutRequest(putCounter')) ELSE up
    /\ AddOverwrite(putCounter', path)
    /\ UNCHANGED <<tokens, link, down, queries, putsToAck, ran, last, faults>>

\* Mutant: the listen of a new observer is not counted
ListenUncounted(q) ==
    /\ Opened
    /\ q \notin listens
    /\ made[q] < MaxListens
    /\ listens' = listens \cup {q}
    /\ made' = [made EXCEPT ![q] = @ + 1]
    /\ up' = IF connected
             THEN Append(up, [ListenRequest(q) EXCEPT !.spec = made'[q]]) ELSE up
    /\ UNCHANGED <<tokens, link, down, unacked, puts, writes, faults>>

\* The first observer of a location: listen, sent at once when connected
Listen(q) ==
    /\ Opened
    /\ q \notin listens
    /\ made[q] < MaxListens
    /\ listens' = listens \cup {q}
    /\ made' = [made EXCEPT ![q] = @ + 1]
    /\ up' = IF connected
             THEN Append(up, [ListenRequest(q) EXCEPT !.spec = made'[q]]) ELSE up
    /\ unacked' = IF connected THEN unacked + 1 ELSE unacked
    /\ UNCHANGED <<tokens, link, down, puts, writes, faults>>

\* The last observer goes: unlisten.  The event of a single observer may come
\* from the local writes or from data sent before the answer, so this may
\* happen while the listen is still unanswered.
Unlisten(q) ==
    /\ q \in listens \ Permanent
    /\ listens' = listens \ {q}
    /\ UNCHANGED <<tokens, link, wire, made, unacked, puts, writes, faults>>

\* The server takes the next request
ServerAnswers(ok) ==
    LET r == Head(up) IN
    /\ up # <<>>
    /\ r.kind = "auth" => ok = (r.token = "good")
    /\ r.kind = "listen" /\ r.query \notin Denied => ok
    /\ last' = IF r.kind = "put" /\ ok THEN r.id ELSE last
    /\ up' = Tail(up)
    /\ down' = Append(down, [request |-> r, ok |-> ok])
    /\ UNCHANGED <<tokens, link, queries, putCounter, outstandingPuts,
                   putsToAck, ran, writes, faults>>

----------------------------------------------------------------------------
(* The answers                                                             *)

\* sendPut's block: the put's block runs, or waits for the listens
PutAnswered(r) ==
    /\ outstandingPuts' = outstandingPuts \ {r.id}
    /\ IF unacked = 0
       THEN RunBlocks(<<r.id>>) /\ UNCHANGED putsToAck
       ELSE putsToAck' = Append(putsToAck, r.id) /\ UNCHANGED <<ran, writes>>
    /\ UNCHANGED <<link, tokens, up, queries, putCounter, last>>

\* sendListen's onResponse: a refused listen goes, if it is the same one; the
\* last answer runs the blocks that have waited (ackPuts)
ListenAnswered(r, ok) ==
    /\ listens' = IF ~ok /\ made[r.query] = r.spec
                  THEN listens \ {r.query} ELSE listens
    /\ unacked' = unacked - 1
    /\ IF unacked' = 0
       THEN RunBlocks(putsToAck) /\ putsToAck' = <<>>
       ELSE UNCHANGED <<ran, putsToAck, writes>>
    /\ UNCHANGED <<link, tokens, up, made, putCounter, outstandingPuts, last>>

\* The block of sendAuthAndRestoreState: restore the state, or drop the token
\* and the connection
AuthAnswered(r, ok) ==
    /\ \/ /\ ok
          /\ state' = "Connected"
          /\ IF r.restore THEN RestoreState(up) ELSE UNCHANGED <<up, unacked>>
          /\ down' = Tail(down)
          /\ UNCHANGED <<retry, authToken, forceRefresh>>
       \/ /\ ~ok
          /\ authToken' = None
          /\ OnDisconnect(TRUE, interruptReasons)
    /\ UNCHANGED <<interruptReasons, attempt, fetching, credential, listens,
                   made, puts, writes>>

\* onDataMessage: the block of the request that is answered
OnDataMessage ==
    LET r == Head(down).request
        ok == Head(down).ok IN
    /\ down # <<>>
    /\ \/ r.kind = "put" /\ PutAnswered(r) /\ down' = Tail(down)
       \/ r.kind = "listen" /\ ListenAnswered(r, ok) /\ down' = Tail(down)
       \/ r.kind = "auth" /\ AuthAnswered(r, ok)
    /\ UNCHANGED faults

----------------------------------------------------------------------------

TokenAnswers == \E f \in fetching : TokenFetched(f)
Server == \E ok \in BOOLEAN : ServerAnswers(ok)
App == \/ \E path \in Paths : PutData(path)
       \/ \E q \in Queries : Listen(q) \/ Unlisten(q)
       \/ \E token \in {None, "good"} : RefreshAuthToken(token)

Next == \/ Resume \/ Interrupt \/ Reachable \/ FetchToken \/ TokenAnswers
        \/ \E f \in fetching : TokenFailed(f)
        \/ OnReady \/ ConnectionLost \/ AuthRevoked
        \/ App \/ Server \/ OnDataMessage

Spec == Init /\ [][Next]_vars

\* open is called, tasks and fetches end, a connection is established, and
\* the server and the client take their messages; no fault has to happen
FairSpec ==
    /\ Spec
    /\ WF_vars(ResumeForReason("waiting_for_open"))
    /\ WF_vars(FetchToken) /\ WF_vars(TokenAnswers) /\ WF_vars(OnReady)
    /\ WF_vars(Server) /\ WF_vars(OnDataMessage)

----------------------------------------------------------------------------
(* What the rest of the client, and the app, rely on                       *)

States == Realtime \cup {"Disconnected", "GettingToken"}

TypeOK ==
    /\ state \in States
    /\ interruptReasons \subseteq Reasons
    /\ retry \in {"none", "plain", "forced"}
    /\ attempt \in Nat
    /\ fetching \subseteq [n : Nat, forced : BOOLEAN]
    /\ authToken \in Tokens
    /\ forceRefresh \in BOOLEAN
    /\ credential \in Tokens
    /\ up \in Seq(Requests)
    /\ down \in Seq([request : Requests, ok : BOOLEAN])
    /\ listens \subseteq Queries
    /\ made \in [Queries -> 0..MaxListens]
    /\ unacked \in Nat
    /\ putCounter \in 0..MaxPuts
    /\ outstandingPuts \subseteq 1..MaxPuts
    /\ putsToAck \in Seq(1..MaxPuts)
    /\ ran \in Seq(1..MaxPuts)
    /\ last \in 0..MaxPuts
    /\ faults \in 0..MaxFaults
    /\ allWrites \in Seq([id : 1..MaxPuts, path : Paths])
    /\ visibleWrites \in [roots : SUBSET Paths, value : [Leaves -> 0..MaxPuts]]

\* Whatever is interrupted, resumed, retried or refused while a token is
\* fetched: without a reason to stay away, a client that is not connected has
\* a task that will connect it, and one that waits for a token has a fetch
\* whose result it will use ("Not in disconnected state", "Trying to open
\* network connection while in wrong state": the asserts of
\* FPersistentConnection.m:448, 455, 507 do not fail either).
NeverStranded ==
    /\ retry # "none" => state = "Disconnected" /\ interruptReasons = {}
    /\ state = "Disconnected" /\ interruptReasons = {} => retry # "none"
    /\ state = "GettingToken" => \E f \in fetching : f.n = attempt
    /\ state # "Disconnected" => interruptReasons = {}

\* The requests that the client has no answer to, oldest first
InFlight == [i \in DOMAIN down |-> down[i].request] \o up
Places(messages, kind) == {i \in DOMAIN messages : messages[i].kind = kind}

\* unackedListensCount is the number of listens whose answer this connection
\* owes, over reconnections, listens that are sent twice and listens whose
\* observer is gone ("unackedListensCount decremented to be negative",
\* FPersistentConnection.m:813, compares an unsigned number).
CountMatches == unacked = Cardinality(Places(InFlight, "listen"))

\* The puts on their way are those of outstandingPuts, in the order of the
\* setValues, none left out: the server never gets a put before an older one
\* that it has not answered.
PutsInOrder ==
    LET sent == Places(InFlight, "put") IN
    /\ {InFlight[i].id : i \in sent} = IF canSendWrites THEN outstandingPuts ELSE {}
    /\ \A i, j \in sent : i < j => InFlight[i].id < InFlight[j].id

\* The completion blocks run once and in the order of the setValues.  This
\* needs an observer that is listened to on every connection: an answered put
\* in putsToAck outlives its connection, but only an answer to a listen takes
\* it from there.
BlocksInOrder ==
    Permanent # {} => ran = [i \in DOMAIN ran |-> i]

\* The client's puts as a queue: those in putsToAck are answered, those whose
\* answer is on its way are stored
Queue == INSTANCE PutQueue WITH
             Puts <- 1..MaxPuts,
             queue <- putsToAck \o Sorted(outstandingPuts),
             answered <- Len(putsToAck),
             stored <- Len(putsToAck) +
                 Cardinality({i \in DOMAIN down : down[i].request.kind = "put"})

\* Over lost connections, repeated and refused puts, changed tokens and
\* listens that come and go, the client and the server are the queue of puts
\* that ChatDatabase and Accounts take setValue to be.
ImplementsQueue == Queue!Spec

\* Every completion block runs, unless the database is offline or was killed.
BlocksRun ==
    \A p \in 1..MaxPuts :
        p \in outstandingPuts ~> \/ \E i \in DOMAIN ran : ran[i] = p
                                 \/ interruptReasons # {}
=============================================================================

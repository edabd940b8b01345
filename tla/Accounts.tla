------------------------------ MODULE Accounts ------------------------------
(***************************************************************************)
(* Signing in and out: AppDelegate.sign (Google), LoginViewController (by  *)
(* password), ProfileViewController's logout, validateAuth, and the account *)
(* operations of DatabaseManager that they call (userExists, insertUser,   *)
(* getDataFor).                                                            *)
(*                                                                         *)
(* A Google sign-in starts two chains that know nothing of each other, and *)
(* a sign-in by password one:                                              *)
(*                                                                         *)
(*   insertion:  existsRead -> nodeWrite -> usersRead -> usersWrite        *)
(*                          -> inserted                                    *)
(*   Auth:       asked -> granted -> (nameRead ->) over                    *)
(*                                                                         *)
(* The device keeps who is signed in twice: Auth.currentUser, and "email"  *)
(* and "name" in UserDefaults, which is what the other screens read.       *)
(*                                                                         *)
(* Puts are queued, applied, answered and sent again as in ChatDatabase.   *)
(***************************************************************************)
EXTENDS Naturals, Sequences

CONSTANTS
    Accounts,   \* e-mail addresses
    Devices,
    Attempts,   \* sign-ins, each tapped once
    Older,      \* accounts whose node has "first_name" (no code here writes it)
    Patient,    \* devices whose user waits for Auth before the next attempt
    Refusing,   \* devices whose puts the server may refuse
    Restarting, \* devices whose app may end in the middle of something
    Talking,    \* accounts that may get conversations
    Serial,     \* TRUE: an attempt waits until nothing is in progress
    None

ASSUME AccountConstants ==
    /\ Older \subseteq Accounts
    /\ Patient \subseteq Devices
    /\ Refusing \subseteq Devices
    /\ Restarting \subseteq Devices
    /\ Talking \subseteq Accounts
    /\ Serial \in BOOLEAN
    /\ None \notin Accounts \cup Devices

VARIABLES
    node,     \* node[a]: the keys below a's node, {} when there is none
    draft,    \* draft[a]: the node that createNewConversation read for a and
              \* puts back with a row, {} when there is none
    users,    \* the array at "users"; an entry is named by its attempt
    outbox,   \* outbox[d]: the puts of d that have no answer yet
    applied,  \* applied[d]: how many of them this connection has applied
    who,      \* who[s]: the account of attempt s
    dev,      \* dev[s]: its device
    how,      \* how[s]: "google" or "password"
    ins,      \* ins[s]: what the insertion of attempt s waits for
    auth,     \* auth[s]: what its Auth chain waits for
    alive,    \* alive[s]: its login screen has not been dismissed
    current,  \* current[d]: Auth.currentUser
    email,    \* email[d]: "email" in UserDefaults
    name,     \* name[d]: whose names "name" in UserDefaults has
    login,    \* login[d]: the login screen is in front
    front     \* front[d]: the screen below it

server == <<node, draft, users, outbox, applied>>
chains == <<who, dev, how, ins, auth>>
defaults == <<current, email, name>>
screens == <<alive, login, front>>
vars == <<server, chains, defaults, screens>>

----------------------------------------------------------------------------
(* The data                                                                *)

Fields == {"first_name", "firset_name", "last_name", "conversations"}

\* What insertUser stores at the account's node, in place of all it had
NewNode == {"firset_name", "last_name"}

Puts == [by : Attempts, to : {"node"}] \cup
        [by : Attempts, to : {"users"}, array : Seq(Attempts)]

Waiting == {"existsRead", "nodeWrite", "usersRead", "usersWrite"}
Pending == {"asked", "granted", "nameRead"}

\* Whether the node is a String, which a dictionary or nothing never is
Exists(fields) == FALSE

\* What d reads at a's node and at "users": its own last put, if there is one
SeenNode(d, a) ==
    IF \E i \in DOMAIN outbox[d] : /\ outbox[d][i].to = "node"
                                   /\ who[outbox[d][i].by] = a
    THEN NewNode ELSE node[a]

LastArray(d) ==
    {i \in DOMAIN outbox[d] :
        /\ outbox[d][i].to = "users"
        /\ \A j \in DOMAIN outbox[d] : outbox[d][j].to = "users" => j <= i}
SeenUsers(d) ==
    IF LastArray(d) = {} THEN users
    ELSE outbox[d][CHOOSE i \in LastArray(d) : TRUE].array

\* setValue, and the answer to the first put
Put(d, p) == /\ outbox' = [outbox EXCEPT ![d] = Append(@, p)]
             /\ UNCHANGED applied
Answered(d) == /\ outbox' = [outbox EXCEPT ![d] = Tail(@)]
               /\ applied' = [applied EXCEPT ![d] = IF @ = 0 THEN 0 ELSE @ - 1]

Insertion(s, step) == ins' = [ins EXCEPT ![s] = step]
Auth(s, step) == auth' = [auth EXCEPT ![s] = step]

Quiet == /\ \A s \in Attempts : ins[s] \notin Waiting /\ auth[s] \notin Pending
         /\ \A d \in Devices : outbox[d] = <<>>

\* The user taps: the login screen is in front
MayTap(s, d) ==
    /\ who[s] = None
    /\ login[d]
    /\ d \in Patient => \A t \in Attempts : dev[t] = d => auth[t] \notin Pending
    /\ Serial => Quiet

\* dismiss: the screen below appears, and the main screen's viewDidAppear
\* calls validateAuth
Dismiss(d) ==
    /\ login' = [login EXCEPT ![d] = front[d] = "main" /\ current[d] = None]
    /\ alive' = [s \in Attempts |-> alive[s] /\ dev[s] # d]
    /\ UNCHANGED front

----------------------------------------------------------------------------

\* The app starts with validateAuth; nobody has signed in on the device yet
Init ==
    /\ node = [a \in Accounts |->
                  IF a \in Older THEN {"first_name", "last_name"} ELSE {}]
    /\ draft = [a \in Accounts |-> {}]
    /\ users = <<>>
    /\ outbox = [d \in Devices |-> <<>>]
    /\ applied = [d \in Devices |-> 0]
    /\ who = [s \in Attempts |-> None]
    /\ dev = [s \in Attempts |-> None]
    /\ how = [s \in Attempts |-> "none"]
    /\ ins = [s \in Attempts |-> "none"]
    /\ auth = [s \in Attempts |-> "none"]
    /\ alive = [s \in Attempts |-> FALSE]
    /\ current = [d \in Devices |-> None]
    /\ email = [d \in Devices |-> None]
    /\ name = [d \in Devices |-> None]
    /\ login = [d \in Devices |-> TRUE]
    /\ front = [d \in Devices |-> "main"]

\* Mutant: "email" waits for an answer that never sets it
GoogleSignInNoEmail(s, d, a) ==
    /\ MayTap(s, d)
    /\ who' = [who EXCEPT ![s] = a]
    /\ dev' = [dev EXCEPT ![s] = d]
    /\ how' = [how EXCEPT ![s] = "google"]
    /\ Insertion(s, "existsRead")
    /\ Auth(s, "asked")
    /\ UNCHANGED <<server, defaults, screens>>

\* Google has identified the user: "email" is set, userExists is asked, and
\* the credential is sent to Auth
GoogleSignIn(s, d, a) ==
    /\ MayTap(s, d)
    /\ who' = [who EXCEPT ![s] = a]
    /\ dev' = [dev EXCEPT ![s] = d]
    /\ how' = [how EXCEPT ![s] = "google"]
    /\ email' = [email EXCEPT ![d] = a]
    /\ Insertion(s, "existsRead")
    /\ Auth(s, "asked")
    /\ UNCHANGED <<server, current, name, screens>>

\* loginButtonTapped
PasswordSignIn(s, d, a) ==
    /\ MayTap(s, d)
    /\ who' = [who EXCEPT ![s] = a]
    /\ dev' = [dev EXCEPT ![s] = d]
    /\ how' = [how EXCEPT ![s] = "password"]
    /\ alive' = [alive EXCEPT ![s] = TRUE]
    /\ Auth(s, "asked")
    /\ UNCHANGED <<server, ins, defaults, login, front>>

----------------------------------------------------------------------------
(* Inserting the account                                                   *)

\* userExists answers; insertUser puts the node
ExistsArrives(s) ==
    /\ ins[s] = "existsRead"
    /\ IF Exists(SeenNode(dev[s], who[s]))
       THEN Insertion(s, "inserted") /\ UNCHANGED <<outbox, applied>>
       ELSE /\ Insertion(s, "nodeWrite")
            /\ Put(dev[s], [by |-> s, to |-> "node"])
    /\ UNCHANGED <<node, draft, users, who, dev, how, auth, defaults, screens>>

\* Mutants of UsersArrive: the array that is put back, given the one read
UsersArriveWith(s, new(_)) ==
    /\ ins[s] = "usersRead"
    /\ Insertion(s, "usersWrite")
    /\ Put(dev[s], [by |-> s, to |-> "users", array |-> new(SeenUsers(dev[s]))])
    /\ UNCHANGED <<node, draft, users, who, dev, how, auth, defaults, screens>>
UsersArrivePrepends(s) == UsersArriveWith(s, LAMBDA array : <<s>> \o array)
UsersArriveCreates(s) == UsersArriveWith(s, LAMBDA array : <<s>>)
UsersArriveAddress(s) == UsersArriveWith(s, LAMBDA array : Append(array, who[s]))

\* The array arrives: append to it, or create it; put it back
UsersArrive(s) ==
    /\ ins[s] = "usersRead"
    /\ Insertion(s, "usersWrite")
    /\ Put(dev[s], [by |-> s, to |-> "users",
                    array |-> Append(SeenUsers(dev[s]), s)])
    /\ UNCHANGED <<node, draft, users, who, dev, how, auth, defaults, screens>>

\* The server stores the next put of d
ServerApplies(d) ==
    LET p == outbox[d][applied[d] + 1] IN
    /\ applied[d] < Len(outbox[d])
    /\ applied' = [applied EXCEPT ![d] = @ + 1]
    /\ \/ /\ p.to = "node"
          /\ node' = [node EXCEPT ![who[p.by]] = NewNode]
          /\ UNCHANGED users
       \/ /\ p.to = "users"
          /\ users' = p.array
          /\ UNCHANGED node
    /\ UNCHANGED <<draft, outbox, chains, defaults, screens>>

\* Mutants of Completed: the array is put again; the chain is not continued
CompletedWith(d, afterNode, afterUsers) ==
    LET p == outbox[d][1] IN
    /\ applied[d] > 0
    /\ Insertion(p.by, IF p.to = "node" THEN afterNode ELSE afterUsers)
    /\ Answered(d)
    /\ UNCHANGED <<node, draft, users, who, dev, how, auth, defaults, screens>>
CompletedPutsAgain(d) == CompletedWith(d, "usersRead", "usersRead")
CompletedStops(d) == CompletedWith(d, "nodeWrite", "inserted")

\* The completion blocks: read the array; completion(true)
Completed(d) ==
    LET p == outbox[d][1] IN
    /\ applied[d] > 0
    /\ Insertion(p.by, IF p.to = "node" THEN "usersRead" ELSE "inserted")
    /\ Answered(d)
    /\ UNCHANGED <<node, draft, users, who, dev, how, auth, defaults, screens>>

\* Mutant: the error of the node's put is not looked at
RefusedGoesOn(d) ==
    /\ d \in Refusing
    /\ outbox[d] # <<>>
    /\ applied[d] = 0
    /\ Insertion(outbox[d][1].by,
                 IF outbox[d][1].to = "node" THEN "usersRead" ELSE "failed")
    /\ Answered(d)
    /\ UNCHANGED <<node, draft, users, who, dev, how, auth, defaults, screens>>

\* The server refuses the first put: completion(false)
Refused(d) ==
    /\ d \in Refusing
    /\ outbox[d] # <<>>
    /\ applied[d] = 0
    /\ Insertion(outbox[d][1].by, "failed")
    /\ Answered(d)
    /\ UNCHANGED <<node, draft, users, who, dev, how, auth, defaults, screens>>

\* What has no answer is sent again on a new connection
Reconnects(d) ==
    /\ applied[d] > 0
    /\ applied' = [applied EXCEPT ![d] = 0]
    /\ UNCHANGED <<node, draft, users, outbox, chains, defaults, screens>>

\* createNewConversation by somebody who found the account in "users" puts a
\* list below the node
OtherConverses(s) ==
    /\ who[s] \in Talking
    /\ \E i \in DOMAIN users : users[i] = s
    /\ node' = [node EXCEPT ![who[s]] = @ \cup {"conversations"}]
    /\ UNCHANGED draft

\* createNewConversation by the account itself, which found another one: it
\* needs a "name" in UserDefaults, reads the whole node and gives up without
NodeRead(s) ==
    LET d == dev[s]
        a == who[s]
    IN
    /\ a \in Talking
    /\ ~login[d] /\ email[d] = a /\ name[d] # None
    /\ \E i \in DOMAIN users : who[users[i]] # a
    /\ SeenNode(d, a) # {}
    /\ draft' = [draft EXCEPT ![a] = SeenNode(d, a) \cup {"conversations"}]
    /\ UNCHANGED node

\* The node that was read is stored again with its row, perhaps much later and
\* more than once (its place in the device's queue is left out)
NodeStored(s) ==
    /\ who[s] # None
    /\ draft[who[s]] # {}
    /\ node' = [node EXCEPT ![who[s]] = draft[who[s]]]
    /\ UNCHANGED draft

Converse(s) ==
    /\ OtherConverses(s) \/ NodeRead(s) \/ NodeStored(s)
    /\ UNCHANGED <<users, outbox, applied, chains, defaults, screens>>

----------------------------------------------------------------------------
(* Signing in                                                              *)

\* Auth accepts the credential and has a current user
AuthGrants(s) ==
    /\ auth[s] = "asked"
    /\ Auth(s, "granted")
    /\ current' = [current EXCEPT ![dev[s]] = who[s]]
    /\ UNCHANGED <<server, who, dev, how, ins, email, name, screens>>

\* Auth does not: the completion block only logs
AuthDenies(s) ==
    /\ auth[s] = "asked"
    /\ Auth(s, "over")
    /\ UNCHANGED <<server, who, dev, how, ins, defaults, screens>>

\* Mutant: the block does not post the notification
GoogleCompletesSilently(s) ==
    /\ how[s] = "google"
    /\ auth[s] = "granted"
    /\ Auth(s, "over")
    /\ UNCHANGED <<server, who, dev, how, ins, defaults, screens>>

\* The Google block posts didLogIn: a login screen, if there is one, is
\* dismissed, whichever attempt it was shown for
GoogleCompletes(s) ==
    /\ how[s] = "google"
    /\ auth[s] = "granted"
    /\ Auth(s, "over")
    /\ IF login[dev[s]] THEN Dismiss(dev[s]) ELSE UNCHANGED screens
    /\ UNCHANGED <<server, who, dev, how, ins, defaults>>

\* Mutant: the screen is dismissed and "email" left alone
PasswordCompletesNoEmail(s) ==
    /\ how[s] = "password"
    /\ auth[s] = "granted"
    /\ Auth(s, "over")
    /\ IF alive[s] THEN Dismiss(dev[s]) ELSE UNCHANGED screens
    /\ UNCHANGED <<server, who, dev, how, ins, defaults>>

\* The password block: nothing without the screen (strongSelf); otherwise the
\* node is read for the names, "email" is set and the screen dismissed
PasswordCompletes(s) ==
    /\ how[s] = "password"
    /\ auth[s] = "granted"
    /\ \/ /\ ~alive[s]
          /\ Auth(s, "over")
          /\ UNCHANGED <<email, screens>>
       \/ /\ alive[s]
          /\ Auth(s, "nameRead")
          /\ email' = [email EXCEPT ![dev[s]] = who[s]]
          /\ Dismiss(dev[s])
    /\ UNCHANGED <<server, who, dev, how, ins, current, name>>

\* The node arrives: "name" is set from "first_name" and "last_name"
NameArrives(s) ==
    /\ auth[s] = "nameRead"
    /\ Auth(s, "over")
    /\ name' = IF {"first_name", "last_name"} \subseteq SeenNode(dev[s], who[s])
               THEN [name EXCEPT ![dev[s]] = who[s]] ELSE name
    /\ UNCHANGED <<server, who, dev, how, ins, current, email, screens>>

----------------------------------------------------------------------------
(* The screens                                                             *)

\* The user goes between the main and the profile screen; validateAuth
Navigate(d, to) ==
    /\ ~login[d]
    /\ front[d] # to
    /\ front' = [front EXCEPT ![d] = to]
    /\ login' = [login EXCEPT ![d] = to = "main" /\ current[d] = None]
    /\ UNCHANGED <<server, chains, defaults, alive>>

\* Logout on the profile screen: "email" and "name" stay
Logout(d) ==
    /\ ~login[d]
    /\ front[d] = "profile"
    /\ current' = [current EXCEPT ![d] = None]
    /\ login' = [login EXCEPT ![d] = TRUE]
    /\ UNCHANGED <<server, chains, email, name, alive, front>>

\* The app ends in the middle of something and is started again
Restart(d) ==
    /\ d \in Restarting
    /\ \/ outbox[d] # <<>>
       \/ \E s \in Attempts :
              dev[s] = d /\ (ins[s] \in Waiting \/ auth[s] \in Pending)
    /\ outbox' = [outbox EXCEPT ![d] = <<>>]
    /\ applied' = [applied EXCEPT ![d] = 0]
    /\ ins' = [s \in Attempts |->
                  IF dev[s] = d /\ ins[s] \in Waiting THEN "gone" ELSE ins[s]]
    /\ auth' = [s \in Attempts |->
                  IF dev[s] = d /\ auth[s] \in Pending THEN "over" ELSE auth[s]]
    /\ alive' = [s \in Attempts |-> alive[s] /\ dev[s] # d]
    /\ front' = [front EXCEPT ![d] = "main"]
    /\ login' = [login EXCEPT ![d] = current[d] = None]
    /\ UNCHANGED <<node, draft, users, who, dev, how, defaults>>

----------------------------------------------------------------------------

Taps(s) == \E d \in Devices, a \in Accounts :
              GoogleSignIn(s, d, a) \/ PasswordSignIn(s, d, a)
AuthAnswers(s) == AuthGrants(s) \/ AuthDenies(s)
AuthCompletes(s) == GoogleCompletes(s) \/ PasswordCompletes(s)
Arrives(s) == ExistsArrives(s) \/ UsersArrive(s)

Next == \/ \E s \in Attempts : \/ Taps(s) \/ Arrives(s) \/ AuthAnswers(s)
                               \/ AuthCompletes(s) \/ NameArrives(s)
                               \/ Converse(s)
        \/ \E d \in Devices : \/ ServerApplies(d) \/ Completed(d) \/ Refused(d)
                              \/ Reconnects(d) \/ Logout(d) \/ Restart(d)
                              \/ \E to \in {"main", "profile"} : Navigate(d, to)

Spec == Init /\ [][Next]_vars

\* Reads and Auth requests are answered, puts reach the server, and an answer
\* comes back sooner or later; nobody has to tap or to navigate
FairSpec ==
    /\ Spec
    /\ \A s \in Attempts : /\ WF_vars(Arrives(s))
                           /\ WF_vars(AuthAnswers(s))
                           /\ WF_vars(AuthCompletes(s))
    /\ \A d \in Devices : WF_vars(ServerApplies(d)) /\ SF_vars(Completed(d))

----------------------------------------------------------------------------
(* What the operations promise                                             *)

TypeOK ==
    /\ node \in [Accounts -> SUBSET Fields]
    /\ draft \in [Accounts -> SUBSET Fields]
    /\ users \in Seq(Attempts)
    /\ outbox \in [Devices -> Seq(Puts)]
    /\ applied \in [Devices -> Nat]
    /\ who \in [Attempts -> Accounts \cup {None}]
    /\ dev \in [Attempts -> Devices \cup {None}]
    /\ how \in [Attempts -> {"none", "google", "password"}]
    /\ ins \in [Attempts -> Waiting \cup {"none", "inserted", "failed", "gone"}]
    /\ auth \in [Attempts -> Pending \cup {"none", "over"}]
    /\ alive \in [Attempts -> BOOLEAN]
    /\ current \in [Devices -> Accounts \cup {None}]
    /\ email \in [Devices -> Accounts \cup {None}]
    /\ name \in [Devices -> Accounts \cup {None}]
    /\ login \in [Devices -> BOOLEAN]
    /\ front \in [Devices -> {"main", "profile"}]

\* Whoever the search finds has a node: an entry is in "users", or on its way
\* there, only when the server has stored the node of its account.
NodeBeforeEntry ==
    /\ \A i \in DOMAIN users : node[who[users[i]]] # {}
    /\ \A d \in Devices : \A i \in DOMAIN outbox[d] :
          outbox[d][i].to = "users" =>
              \A j \in DOMAIN outbox[d][i].array :
                  node[who[outbox[d][i].array[j]]] # {}

\* One sign-in puts one entry, however often its put is sent again and
\* whichever arrays are put over each other.
EntriesOnce ==
    \A i, j \in DOMAIN users : users[i] = users[j] => i = j

\* The other screens act for "email": where the user waits for Auth and the
\* app is not ended in between, that is the account Auth has signed in
\* whenever the login screen is gone, over any number of logouts and of
\* insertions that are still under way.
SessionMatches ==
    \A d \in Patient \ Restarting :
        ~login[d] => current[d] # None /\ email[d] = current[d]

\* "self sender is nil, email should be catched" (ChatViewController.swift:
\* 326): once the login screen is gone, an "email" is there, also when several
\* attempts overlap and dismiss each other's screens.
EmailCatched == \A d \in Devices \ Restarting : ~login[d] => email[d] # None

\* Sign-ins that do not overlap: an account whose insertion was acknowledged
\* can be found, whatever was refused, sent again or cut off before and after.
InsertedIsListed ==
    Serial => \A s \in Attempts :
                  ins[s] = "inserted" => \E i \in DOMAIN users : users[i] = s

\* "users" as the only log of ConversationLog, with the sign-ins as entries
Directory == INSTANCE ConversationLog WITH
                 Conversations <- {"users"}, Messages <- Attempts,
                 log <- [c \in {"users"} |-> users]

\* The user collection implements an append-only log when the sign-ins do not
\* overlap: nothing a sign-in reads, writes or repeats removes another entry.
ImplementsDirectory == Directory!Spec

\* Every insertion comes to an end.
InsertionEnds ==
    \A s \in Attempts : ins[s] = "existsRead"
                            ~> ins[s] \in {"inserted", "failed", "gone"}

\* One attempt at a time: once Auth accepts it the login screen goes away.
GrantOpensApp ==
    \A s \in Attempts, d \in Devices :
        auth[s] = "granted" /\ dev[s] = d ~> ~login[d]

----------------------------------------------------------------------------
(* What a comment says and the code does not do                            *)

\* "///insert new user to database" (DatabaseManager.swift:57): insertUser is
\* for accounts that have no node, so no sign-in takes keys from a node.
NodeKept == [][\A a \in Accounts : node[a] \subseteq node'[a]]_node
=============================================================================

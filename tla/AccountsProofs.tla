--------------------------- MODULE AccountsProofs ---------------------------
(***************************************************************************)
(* Theorems about Accounts: its types; an entry of the user collection     *)
(* always leads to an account that has a node, and is there once.  Where   *)
(* sign-ins do not overlap, an acknowledged entry stays, and the           *)
(* collection is a log.                                                    *)
(***************************************************************************)
EXTENDS Accounts, SequenceTheorems, TLAPS

----------------------------------------------------------------------------
(* The invariant                                                           *)

\* An insertion that is under way has an account and a device
Callers == \A s \in Attempts :
              ins[s] \in Waiting => who[s] \in Accounts /\ dev[s] \in Devices

\* So has a put; and the connection applied no more puts than there are
Queued == \A d \in Devices :
              /\ applied[d] <= Len(outbox[d])
              /\ \A i \in 1..Len(outbox[d]) :
                    who[outbox[d][i].by] \in Accounts /\ dev[outbox[d][i].by] = d

TypeInv == TypeOK /\ Callers /\ Queued

\* The attempt's account has a node at the server
Known(s) == who[s] \in Accounts /\ node[who[s]] # {}

\* Puts of a node that were applied, puts of an array, the array at the
\* server, and insertions past their first put: all are of known accounts
PutKnown(d, i) ==
    /\ outbox[d][i].to = "node" /\ i <= applied[d] => Known(outbox[d][i].by)
    /\ outbox[d][i].to = "users" =>
           \A j \in 1..Len(outbox[d][i].array) : Known(outbox[d][i].array[j])
PutsKnown == \A d \in Devices : \A i \in 1..Len(outbox[d]) : PutKnown(d, i)
UsersKnown == \A i \in 1..Len(users) : Known(users[i])
InsertionsKnown == \A s \in Attempts :
                      ins[s] \in {"usersRead", "usersWrite"} => Known(s)

NodeInv == PutsKnown /\ UsersKnown /\ InsertionsKnown

----------------------------------------------------------------------------
(* Types                                                                   *)

\* What a device reads at "users" is an array.
LEMMA SeenUsersType ==
    ASSUME TypeOK, NEW d \in Devices
    PROVE  SeenUsers(d) \in Seq(Attempts)
<1>1. CASE LastArray(d) = {}
  BY <1>1 DEF SeenUsers, TypeOK
<1>2. CASE LastArray(d) # {}
  <2> DEFINE i == CHOOSE k \in LastArray(d) : TRUE
  <2>1. i \in LastArray(d)
    BY <1>2
  <2>2. /\ outbox[d] \in Seq(Puts)
        /\ i \in DOMAIN outbox[d]
        /\ outbox[d][i].to = "users"
    BY <2>1 DEF LastArray, TypeOK
  <2>3. outbox[d][i] \in Puts
    BY <2>2
  <2>4. outbox[d][i].array \in Seq(Attempts)
    BY <2>2, <2>3 DEF Puts
  <2>5. SeenUsers(d) = outbox[d][i].array
    BY <1>2 DEF SeenUsers
  <2> QED
    BY <2>4, <2>5
<1> QED
  BY <1>1, <1>2

\* A put of an attempt of the device keeps the queue as it should be.
LEMMA PutKeeps ==
    ASSUME TypeInv, NEW d \in Devices, NEW p \in Puts,
           who[p.by] \in Accounts, dev[p.by] = d,
           Put(d, p), UNCHANGED <<who, dev>>
    PROVE  /\ outbox' \in [Devices -> Seq(Puts)]
           /\ applied' \in [Devices -> Nat]
           /\ Queued'
<1>1. /\ outbox \in [Devices -> Seq(Puts)]
      /\ applied \in [Devices -> Nat]
      /\ outbox' = [outbox EXCEPT ![d] = Append(@, p)]
      /\ applied' = applied
  BY DEF TypeInv, TypeOK, Put
<1>2. Append(outbox[d], p) \in Seq(Puts)
  BY <1>1
<1>3. outbox' \in [Devices -> Seq(Puts)]
  BY <1>1, <1>2
<1>4. ASSUME NEW e \in Devices
      PROVE  /\ applied'[e] <= Len(outbox'[e])
             /\ \A i \in 1..Len(outbox'[e]) :
                  who'[outbox'[e][i].by] \in Accounts /\ dev'[outbox'[e][i].by] = e
  <2>1. /\ applied[e] <= Len(outbox[e])
        /\ \A i \in 1..Len(outbox[e]) :
             who[outbox[e][i].by] \in Accounts /\ dev[outbox[e][i].by] = e
    BY DEF TypeInv, Queued
  <2>2. CASE e # d
    BY <1>1, <2>1, <2>2
  <2>3. CASE e = d
    <3>1. outbox'[d] = Append(outbox[d], p) /\ Len(outbox'[d]) = Len(outbox[d]) + 1
      BY <1>1
    <3>2. applied'[e] <= Len(outbox'[e])
      BY <1>1, <2>1, <2>3, <3>1
    <3>3. ASSUME NEW i \in 1..Len(outbox'[d])
          PROVE  who[outbox'[d][i].by] \in Accounts /\ dev[outbox'[d][i].by] = d
      <4>1. CASE i = Len(outbox[d]) + 1
        BY <1>1, <3>1, <4>1
      <4>2. CASE i \in 1..Len(outbox[d])
        BY <1>1, <2>1, <2>3, <3>1, <4>2
      <4> QED
        BY <1>1, <3>1, <4>1, <4>2
    <3> QED
      BY <2>3, <3>2, <3>3
  <2> QED
    BY <2>2, <2>3
<1> QED
  BY <1>1, <1>3, <1>4 DEF Queued

\* So does an answer.
LEMMA AnswerKeeps ==
    ASSUME TypeInv, NEW d \in Devices, outbox[d] # <<>>,
           Answered(d), UNCHANGED <<who, dev>>
    PROVE  /\ outbox' \in [Devices -> Seq(Puts)]
           /\ applied' \in [Devices -> Nat]
           /\ Queued'
           /\ outbox[d][1] \in Puts
           /\ who[outbox[d][1].by] \in Accounts
           /\ dev[outbox[d][1].by] = d
<1>1. /\ outbox \in [Devices -> Seq(Puts)]
      /\ applied \in [Devices -> Nat]
      /\ outbox' = [outbox EXCEPT ![d] = Tail(@)]
      /\ applied' = [applied EXCEPT ![d] = IF @ = 0 THEN 0 ELSE @ - 1]
  BY DEF TypeInv, TypeOK, Answered
<1>2. /\ Tail(outbox[d]) \in Seq(Puts)
      /\ Len(Tail(outbox[d])) = Len(outbox[d]) - 1
      /\ \A i \in 1..Len(Tail(outbox[d])) : Tail(outbox[d])[i] = outbox[d][i + 1]
      /\ outbox[d][1] \in Puts
      /\ Len(outbox[d]) \in Nat
      /\ Len(outbox[d]) > 0
  BY <1>1
<1>3. outbox' \in [Devices -> Seq(Puts)] /\ applied' \in [Devices -> Nat]
  BY <1>1, <1>2
<1>4. ASSUME NEW e \in Devices
      PROVE  /\ applied'[e] <= Len(outbox'[e])
             /\ \A i \in 1..Len(outbox'[e]) :
                  who'[outbox'[e][i].by] \in Accounts /\ dev'[outbox'[e][i].by] = e
  <2>1. /\ applied[e] <= Len(outbox[e])
        /\ \A i \in 1..Len(outbox[e]) :
             who[outbox[e][i].by] \in Accounts /\ dev[outbox[e][i].by] = e
    BY DEF TypeInv, Queued
  <2>2. CASE e # d
    BY <1>1, <2>1, <2>2
  <2>3. CASE e = d
    <3>1. outbox'[d] = Tail(outbox[d])
      BY <1>1
    <3>2. applied'[d] <= Len(outbox'[d])
      BY <1>1, <1>2, <2>1, <2>3, <3>1
    <3>3. ASSUME NEW i \in 1..Len(outbox'[d])
          PROVE  who[outbox'[d][i].by] \in Accounts /\ dev[outbox'[d][i].by] = d
      <4>1. i + 1 \in 1..Len(outbox[d]) /\ outbox'[d][i] = outbox[d][i + 1]
        BY <1>2, <3>1
      <4> QED
        BY <2>1, <2>3, <4>1
    <3> QED
      BY <2>3, <3>2, <3>3
  <2> QED
    BY <2>2, <2>3
<1>5. 1 \in 1..Len(outbox[d])
  BY <1>2
<1> QED
  BY <1>1, <1>2, <1>3, <1>4, <1>5 DEF Queued, TypeInv

LEMMA TypeInit == Init => TypeInv
<1> SUFFICES ASSUME Init PROVE TypeInv
  OBVIOUS
<1>1. /\ node \in [Accounts -> SUBSET Fields]
      /\ draft \in [Accounts -> SUBSET Fields]
  BY DEF Init, Fields
<1>2. users \in Seq(Attempts) /\ outbox \in [Devices -> Seq(Puts)]
  BY DEF Init
<1>3. TypeOK
  BY <1>1, <1>2 DEF Init, TypeOK
<1>4. Callers
  BY DEF Init, Callers, Waiting
<1>5. Queued
  BY DEF Init, Queued
<1> QED
  BY <1>3, <1>4, <1>5 DEF TypeInv

\* The steps that leave the queues and the insertions alone.
LEMMA TypeScreens ==
    ASSUME TypeInv, UNCHANGED <<server, ins, who, dev, how>>,
           auth' \in [Attempts -> Pending \cup {"none", "over"}],
           alive' \in [Attempts -> BOOLEAN],
           current' \in [Devices -> Accounts \cup {None}],
           email' \in [Devices -> Accounts \cup {None}],
           name' \in [Devices -> Accounts \cup {None}],
           login' \in [Devices -> BOOLEAN],
           front' \in [Devices -> {"main", "profile"}]
    PROVE  TypeInv'
<1>1. TypeOK'
  BY DEF TypeInv, TypeOK, server
<1>2. Callers' /\ Queued'
  BY DEF TypeInv, Callers, Queued, server
<1> QED
  BY <1>1, <1>2 DEF TypeInv

LEMMA TypeDismiss ==
    ASSUME TypeOK, NEW d, Dismiss(d)
    PROVE  /\ alive' \in [Attempts -> BOOLEAN]
           /\ login' \in [Devices -> BOOLEAN]
           /\ front' \in [Devices -> {"main", "profile"}]
BY DEF Dismiss, TypeOK

\* A tap makes an attempt known that no insertion and no put is of.
LEMMA TypeTaps ==
    ASSUME TypeInv, NEW s \in Attempts, Taps(s)
    PROVE  TypeInv'
<1> PICK d \in Devices, a \in Accounts :
            GoogleSignIn(s, d, a) \/ PasswordSignIn(s, d, a)
  BY DEF Taps
<1>1. /\ who[s] = None
      /\ who' = [who EXCEPT ![s] = a]
      /\ dev' = [dev EXCEPT ![s] = d]
      /\ UNCHANGED <<server, current, name, login, front>>
  BY DEF GoogleSignIn, PasswordSignIn, MayTap, defaults, screens
<1>2. /\ ins' \in [Attempts -> Waiting \cup {"none", "inserted", "failed", "gone"}]
      /\ auth' \in [Attempts -> Pending \cup {"none", "over"}]
      /\ how' \in [Attempts -> {"none", "google", "password"}]
      /\ alive' \in [Attempts -> BOOLEAN]
      /\ email' \in [Devices -> Accounts \cup {None}]
      /\ \A t \in Attempts : t # s => ins'[t] = ins[t]
  <2> USE DEF TypeInv, TypeOK, Insertion, Auth, Waiting, Pending
  <2>1. CASE GoogleSignIn(s, d, a)
    BY <2>1 DEF GoogleSignIn, screens
  <2>2. CASE PasswordSignIn(s, d, a)
    BY <2>2 DEF PasswordSignIn, defaults
  <2> QED
    BY <2>1, <2>2
<1>3. TypeOK'
  BY <1>1, <1>2 DEF TypeInv, TypeOK, server
<1>4. Callers'
  BY <1>1, <1>2 DEF TypeInv, TypeOK, Callers
<1>5. ASSUME NEW e \in Devices, NEW i \in 1..Len(outbox[e])
      PROVE  who'[outbox[e][i].by] \in Accounts /\ dev'[outbox[e][i].by] = e
  <2>1. outbox[e][i] \in Puts
    BY DEF TypeInv, TypeOK
  <2>2. outbox[e][i].by \in Attempts
    BY <2>1 DEF Puts
  <2>3. who[outbox[e][i].by] \in Accounts /\ dev[outbox[e][i].by] = e
    BY DEF TypeInv, Queued
  <2>4. outbox[e][i].by # s
    BY <1>1, <2>3, AccountConstants
  <2> QED
    BY <1>1, <2>2, <2>3, <2>4 DEF TypeInv, TypeOK
<1>6. Queued'
  BY <1>1, <1>5 DEF TypeInv, Queued, server
<1> QED
  BY <1>3, <1>4, <1>6 DEF TypeInv

\* The insertion's own steps: the put or the answer, and where it goes on.
LEMMA TypeInsertion ==
    ASSUME TypeInv, NEW s \in Attempts,
           NEW step \in Waiting \cup {"inserted", "failed"},
           who[s] \in Accounts, dev[s] \in Devices,
           Insertion(s, step),
           outbox' \in [Devices -> Seq(Puts)], applied' \in [Devices -> Nat],
           Queued',
           UNCHANGED <<node, draft, users, who, dev, how, auth, defaults, screens>>
    PROVE  TypeInv'
<1>1. TypeOK'
  BY DEF TypeInv, TypeOK, Insertion, defaults, screens
<1>2. Callers'
  BY DEF TypeInv, TypeOK, Callers, Insertion
<1> QED
  BY <1>1, <1>2 DEF TypeInv

LEMMA TypeArrives ==
    ASSUME TypeInv, NEW s \in Attempts, Arrives(s)
    PROVE  TypeInv'
<1>1. CASE ExistsArrives(s)
  <2> DEFINE p == [by |-> s, to |-> "node"]
  <2>1. /\ ins[s] = "existsRead"
        /\ Insertion(s, "nodeWrite")
        /\ Put(dev[s], p)
        /\ UNCHANGED <<node, draft, users, who, dev, how, auth, defaults, screens>>
    BY <1>1 DEF ExistsArrives, Exists
  <2>2. who[s] \in Accounts /\ dev[s] \in Devices /\ p \in Puts /\ p.by = s
    BY <2>1 DEF TypeInv, Callers, Waiting, Puts
  <2> HIDE DEF p
  <2>3. /\ outbox' \in [Devices -> Seq(Puts)]
        /\ applied' \in [Devices -> Nat]
        /\ Queued'
    BY <2>1, <2>2, PutKeeps
  <2>4. "nodeWrite" \in Waiting \cup {"inserted", "failed"}
    BY DEF Waiting
  <2> QED
    BY <2>1, <2>2, <2>3, <2>4, TypeInsertion
<1>2. CASE UsersArrive(s)
  <2> DEFINE p == [by |-> s, to |-> "users", array |-> Append(SeenUsers(dev[s]), s)]
  <2>1. /\ ins[s] = "usersRead"
        /\ Insertion(s, "usersWrite")
        /\ Put(dev[s], p)
        /\ UNCHANGED <<node, draft, users, who, dev, how, auth, defaults, screens>>
    BY <1>2 DEF UsersArrive
  <2>2. who[s] \in Accounts /\ dev[s] \in Devices
    BY <2>1 DEF TypeInv, Callers, Waiting
  <2>3. Append(SeenUsers(dev[s]), s) \in Seq(Attempts)
    BY <2>2, SeenUsersType DEF TypeInv
  <2>4. p \in Puts /\ p.by = s
    BY <2>3 DEF Puts
  <2> HIDE DEF p
  <2>5. /\ outbox' \in [Devices -> Seq(Puts)]
        /\ applied' \in [Devices -> Nat]
        /\ Queued'
    BY <2>1, <2>2, <2>4, PutKeeps
  <2>6. "usersWrite" \in Waiting \cup {"inserted", "failed"}
    BY DEF Waiting
  <2> QED
    BY <2>1, <2>2, <2>5, <2>6, TypeInsertion
<1> QED
  BY <1>1, <1>2 DEF Arrives

LEMMA TypeAnswers ==
    ASSUME TypeInv, NEW d \in Devices, Completed(d) \/ Refused(d)
    PROVE  TypeInv'
<1> DEFINE p == outbox[d][1]
<1>1. outbox[d] # <<>>
  <2>1. CASE Completed(d)
    <3>1. outbox[d] \in Seq(Puts) /\ applied[d] \in Nat
          /\ applied[d] <= Len(outbox[d]) /\ applied[d] > 0
      BY <2>1 DEF Completed, TypeInv, TypeOK, Queued
    <3> QED
      BY <3>1
  <2>2. CASE Refused(d)
    BY <2>2 DEF Refused
  <2> QED
    BY <2>1, <2>2
<1>2. PICK step \in {"usersRead", "inserted", "failed"} : Insertion(p.by, step)
  BY DEF Completed, Refused
<1>3. /\ Answered(d)
      /\ UNCHANGED <<node, draft, users, who, dev, how, auth, defaults, screens>>
  BY DEF Completed, Refused
<1>4. /\ outbox' \in [Devices -> Seq(Puts)]
      /\ applied' \in [Devices -> Nat]
      /\ Queued'
      /\ p \in Puts
      /\ who[p.by] \in Accounts
      /\ dev[p.by] = d
  BY <1>1, <1>3, AnswerKeeps
<1>5. p.by \in Attempts
  BY <1>4 DEF Puts
<1>6. step \in Waiting \cup {"inserted", "failed"}
  BY DEF Waiting
<1> HIDE DEF p
<1> QED
  BY <1>2, <1>3, <1>4, <1>5, <1>6, TypeInsertion

\* The server stores, and the connection forgets.
LEMMA TypeServer ==
    ASSUME TypeInv, NEW d \in Devices, ServerApplies(d) \/ Reconnects(d)
    PROVE  TypeInv'
<1>1. CASE ServerApplies(d)
  <2> DEFINE p == outbox[d][applied[d] + 1]
  <2>1. /\ applied[d] < Len(outbox[d])
        /\ applied' = [applied EXCEPT ![d] = @ + 1]
        /\ UNCHANGED <<draft, outbox, chains, defaults, screens>>
        /\ \/ p.to = "node" /\ UNCHANGED users
              /\ node' = [node EXCEPT ![who[p.by]] = NewNode]
           \/ p.to = "users" /\ users' = p.array /\ UNCHANGED node
    BY <1>1 DEF ServerApplies
  <2>2. /\ applied \in [Devices -> Nat]
        /\ outbox \in [Devices -> Seq(Puts)]
    BY DEF TypeInv, TypeOK
  <2>3. applied[d] + 1 \in 1..Len(outbox[d])
    BY <2>1, <2>2
  <2>4. p \in Puts
    BY <2>2, <2>3
  <2> HIDE DEF p
  <2>5. users' \in Seq(Attempts) /\ node' \in [Accounts -> SUBSET Fields]
    <3>1. p.to = "users" => p.array \in Seq(Attempts)
      BY <2>4 DEF Puts
    <3>2. users \in Seq(Attempts) /\ node \in [Accounts -> SUBSET Fields]
      BY DEF TypeInv, TypeOK
    <3>3. NewNode \in SUBSET Fields
      BY DEF NewNode, Fields
    <3>4. node' \in [Accounts -> SUBSET Fields]
      BY <2>1, <3>2, <3>3
    <3> QED
      BY <2>1, <3>1, <3>2, <3>4
  <2>6. TypeOK'
    BY <2>1, <2>2, <2>5 DEF TypeInv, TypeOK, chains, defaults, screens
  <2>7. Callers' /\ Queued'
    BY <2>1, <2>2 DEF TypeInv, Callers, Queued, chains
  <2> QED
    BY <2>6, <2>7 DEF TypeInv
<1>2. CASE Reconnects(d)
  <2>1. /\ applied' = [applied EXCEPT ![d] = 0]
        /\ UNCHANGED <<node, draft, users, outbox, chains, defaults, screens>>
    BY <1>2 DEF Reconnects
  <2>2. outbox \in [Devices -> Seq(Puts)] /\ applied \in [Devices -> Nat]
    BY DEF TypeInv, TypeOK
  <2>3. TypeOK'
    BY <2>1 DEF TypeInv, TypeOK, chains, defaults, screens
  <2>4. \A e \in Devices : Len(outbox[e]) \in Nat
    BY <2>2
  <2>5. Callers' /\ Queued'
    BY <2>1, <2>2, <2>4 DEF TypeInv, Callers, Queued, chains
  <2> QED
    BY <2>3, <2>5 DEF TypeInv
<1> QED
  BY <1>1, <1>2

LEMMA TypeRestart ==
    ASSUME TypeInv, NEW d \in Devices, Restart(d)
    PROVE  TypeInv'
<1>1. /\ outbox' = [outbox EXCEPT ![d] = <<>>]
      /\ applied' = [applied EXCEPT ![d] = 0]
      /\ outbox \in [Devices -> Seq(Puts)] /\ applied \in [Devices -> Nat]
      /\ UNCHANGED <<node, draft, users, who, dev, how, defaults>>
      /\ \A s \in Attempts : ins'[s] = ins[s] \/ ins'[s] = "gone"
  BY DEF Restart, TypeInv, TypeOK
<1>2. /\ outbox' \in [Devices -> Seq(Puts)]
      /\ applied' \in [Devices -> Nat]
  BY <1>1
<1>3. /\ ins' \in [Attempts -> Waiting \cup {"none", "inserted", "failed", "gone"}]
      /\ auth' \in [Attempts -> Pending \cup {"none", "over"}]
      /\ alive' \in [Attempts -> BOOLEAN]
      /\ login' \in [Devices -> BOOLEAN]
      /\ front' \in [Devices -> {"main", "profile"}]
  BY DEF Restart, TypeInv, TypeOK
<1>4. TypeOK'
  BY <1>1, <1>2, <1>3 DEF TypeInv, TypeOK, defaults
<1>5. Callers'
  BY <1>1 DEF TypeInv, Callers, Waiting
<1>6. Queued'
  BY <1>1 DEF TypeInv, Queued
<1> QED
  BY <1>4, <1>5, <1>6 DEF TypeInv

LEMMA TypeNext == TypeInv /\ [Next]_vars => TypeInv'
<1> SUFFICES ASSUME TypeInv, [Next]_vars PROVE TypeInv'
  OBVIOUS
<1> USE DEF defaults, screens
<1>0. /\ who \in [Attempts -> Accounts \cup {None}]
      /\ auth \in [Attempts -> Pending \cup {"none", "over"}]
      /\ alive \in [Attempts -> BOOLEAN]
      /\ current \in [Devices -> Accounts \cup {None}]
      /\ email \in [Devices -> Accounts \cup {None}]
      /\ name \in [Devices -> Accounts \cup {None}]
      /\ login \in [Devices -> BOOLEAN]
      /\ front \in [Devices -> {"main", "profile"}]
  BY DEF TypeInv, TypeOK
<1>1. ASSUME NEW s \in Attempts, Taps(s) PROVE TypeInv'
  BY <1>1, TypeTaps
<1>2. ASSUME NEW s \in Attempts, Arrives(s) PROVE TypeInv'
  BY <1>2, TypeArrives
<1>3. ASSUME NEW s \in Attempts, AuthAnswers(s) PROVE TypeInv'
  <2>1. auth' \in [Attempts -> Pending \cup {"none", "over"}]
    BY <1>0, <1>3 DEF AuthAnswers, AuthGrants, AuthDenies, Auth, Pending
  <2>2. current' \in [Devices -> Accounts \cup {None}]
    <3>1. CASE AuthGrants(s)
      BY <1>0, <3>1 DEF AuthGrants
    <3>2. CASE AuthDenies(s)
      BY <1>0, <3>2 DEF AuthDenies
    <3> QED
      BY <1>3, <3>1, <3>2 DEF AuthAnswers
  <2>3. UNCHANGED <<server, ins, who, dev, how, email, name, screens>>
    BY <1>3 DEF AuthAnswers, AuthGrants, AuthDenies
  <2> QED
    BY <1>0, <2>1, <2>2, <2>3, TypeScreens
<1>4. ASSUME NEW s \in Attempts, AuthCompletes(s) PROVE TypeInv'
  <2>1. /\ auth' \in [Attempts -> Pending \cup {"none", "over"}]
        /\ email' \in [Devices -> Accounts \cup {None}]
    <3>1. CASE GoogleCompletes(s)
      BY <1>0, <3>1 DEF GoogleCompletes, Auth
    <3>2. CASE PasswordCompletes(s)
      BY <1>0, <3>2 DEF PasswordCompletes, Auth, Pending
    <3> QED
      BY <1>4, <3>1, <3>2 DEF AuthCompletes
  <2>2. Dismiss(dev[s]) \/ UNCHANGED screens
    BY <1>4 DEF AuthCompletes, GoogleCompletes, PasswordCompletes
  <2>3. /\ alive' \in [Attempts -> BOOLEAN]
        /\ login' \in [Devices -> BOOLEAN]
        /\ front' \in [Devices -> {"main", "profile"}]
    <3>1. CASE Dismiss(dev[s])
      BY <3>1, TypeDismiss DEF TypeInv
    <3>2. CASE UNCHANGED screens
      BY <1>0, <3>2
    <3> QED
      BY <2>2, <3>1, <3>2
  <2>4. UNCHANGED <<server, ins, who, dev, how, current, name>>
    BY <1>4 DEF AuthCompletes, GoogleCompletes, PasswordCompletes
  <2> QED
    BY <1>0, <2>1, <2>3, <2>4, TypeScreens
<1>5. ASSUME NEW s \in Attempts, NameArrives(s) PROVE TypeInv'
  <2>1. /\ auth' \in [Attempts -> Pending \cup {"none", "over"}]
        /\ name' \in [Devices -> Accounts \cup {None}]
    BY <1>0, <1>5 DEF NameArrives, Auth
  <2>2. UNCHANGED <<server, ins, who, dev, how, current, email, screens>>
    BY <1>5 DEF NameArrives
  <2> QED
    BY <1>0, <2>1, <2>2, TypeScreens
<1>6. ASSUME NEW s \in Attempts, Converse(s) PROVE TypeInv'
  <2>1. /\ node' \in [Accounts -> SUBSET Fields]
        /\ draft' \in [Accounts -> SUBSET Fields]
    <3>1. /\ node \in [Accounts -> SUBSET Fields]
          /\ draft \in [Accounts -> SUBSET Fields]
      BY DEF TypeInv, TypeOK
    <3>2. CASE OtherConverses(s)
      BY <3>1, <3>2 DEF OtherConverses, Fields
    <3>3. CASE NodeRead(s)
      <4>1. who[s] \in Accounts
        BY <3>3, AccountConstants DEF NodeRead
      <4>2. SeenNode(dev[s], who[s]) \in SUBSET Fields
        BY <3>1, <4>1 DEF SeenNode, NewNode, Fields
      <4>3. SeenNode(dev[s], who[s]) \cup {"conversations"} \in SUBSET Fields
        BY <4>2 DEF Fields
      <4> QED
        BY <3>1, <3>3, <4>3 DEF NodeRead
    <3>4. CASE NodeStored(s)
      <4>1. who[s] \in Accounts
        BY <1>0, <3>4 DEF NodeStored
      <4> QED
        BY <3>1, <3>4, <4>1 DEF NodeStored
    <3> QED
      BY <1>6, <3>2, <3>3, <3>4 DEF Converse
  <2>2. TypeOK'
    BY <1>6, <2>1 DEF Converse, TypeInv, TypeOK, chains
  <2>3. Callers' /\ Queued'
    BY <1>6 DEF Converse, TypeInv, Callers, Queued, chains
  <2> QED
    BY <2>2, <2>3 DEF TypeInv
<1>7. ASSUME NEW d \in Devices, ServerApplies(d) \/ Reconnects(d) PROVE TypeInv'
  BY <1>7, TypeServer
<1>8. ASSUME NEW d \in Devices, Completed(d) \/ Refused(d) PROVE TypeInv'
  BY <1>8, TypeAnswers
<1>9. ASSUME NEW d \in Devices, Logout(d) PROVE TypeInv'
  <2>1. /\ current' \in [Devices -> Accounts \cup {None}]
        /\ login' \in [Devices -> BOOLEAN]
    BY <1>0, <1>9 DEF Logout
  <2>2. UNCHANGED <<server, chains, email, name, alive, front>>
    BY <1>9 DEF Logout
  <2> QED
    BY <1>0, <2>1, <2>2, TypeScreens DEF chains
<1>10. ASSUME NEW d \in Devices, NEW to \in {"main", "profile"}, Navigate(d, to)
       PROVE  TypeInv'
  <2>1. /\ login' \in [Devices -> BOOLEAN]
        /\ front' \in [Devices -> {"main", "profile"}]
    BY <1>0, <1>10 DEF Navigate
  <2>2. UNCHANGED <<server, chains, defaults, alive>>
    BY <1>10 DEF Navigate
  <2> QED
    BY <1>0, <2>1, <2>2, TypeScreens DEF chains
<1>11. ASSUME NEW d \in Devices, Restart(d) PROVE TypeInv'
  BY <1>11, TypeRestart
<1>12. CASE UNCHANGED vars
  <2>1. TypeOK'
    BY <1>12 DEF vars, server, chains, TypeInv, TypeOK
  <2>2. Callers' /\ Queued'
    BY <1>12 DEF vars, server, chains, TypeInv, Callers, Queued
  <2> QED
    BY <2>1, <2>2 DEF TypeInv
<1> QED
  BY <1>1, <1>2, <1>3, <1>4, <1>5, <1>6, <1>7, <1>8, <1>9, <1>10, <1>11, <1>12
     DEF Next

LEMMA TypeInvAlways == Spec => []TypeInv
<1> QED
  BY TypeInit, TypeNext, PTL DEF Spec

\* For any accounts, devices, sign-ins and faults, the server's values, the
\* queues and the devices' records keep their types (userExists, insertUser,
\* sign, loginButtonTapped, logout).
THEOREM TypeCorrect == Spec => []TypeOK
<1>1. TypeInv => TypeOK
  BY DEF TypeInv
<1> QED
  BY <1>1, TypeInvAlways, PTL

----------------------------------------------------------------------------
(* Every entry leads to an account with a node                             *)

\* An attempt keeps its account, and an account that has a node keeps one.
LEMMA WhoKept ==
    ASSUME TypeOK, [Next]_vars, NEW s \in Attempts, who[s] \in Accounts
    PROVE  who'[s] = who[s]
<1>1. CASE \E t \in Attempts : Taps(t)
  <2> PICK t \in Attempts, d \in Devices, a \in Accounts :
              GoogleSignIn(t, d, a) \/ PasswordSignIn(t, d, a)
    BY <1>1 DEF Taps
  <2>1. who[t] = None /\ who' = [who EXCEPT ![t] = a]
    BY DEF GoogleSignIn, PasswordSignIn, MayTap
  <2> QED
    BY <2>1, AccountConstants DEF TypeOK
<1>2. CASE ~\E t \in Attempts : Taps(t)
  <2>1. CASE UNCHANGED vars
    BY <2>1 DEF vars, chains
  <2>2. CASE Next
    <3> USE DEF chains
    <3>1. ASSUME NEW t \in Attempts,
                 \/ Arrives(t) \/ AuthAnswers(t) \/ AuthCompletes(t)
                 \/ NameArrives(t) \/ Converse(t)
          PROVE  who' = who
      BY <3>1 DEF Arrives, ExistsArrives, UsersArrive, AuthAnswers, AuthGrants,
                  AuthDenies, AuthCompletes, GoogleCompletes, PasswordCompletes,
                  NameArrives, Converse
    <3>2. ASSUME NEW d \in Devices,
                 \/ ServerApplies(d) \/ Completed(d) \/ Refused(d)
                 \/ Reconnects(d) \/ Logout(d) \/ Restart(d)
                 \/ \E to \in {"main", "profile"} : Navigate(d, to)
          PROVE  who' = who
      BY <3>2 DEF ServerApplies, Completed, Refused, Reconnects, Logout, Restart,
                  Navigate
    <3> QED
      BY <1>2, <2>2, <3>1, <3>2 DEF Next
  <2> QED
    BY <2>1, <2>2
<1> QED
  BY <1>1, <1>2

LEMMA NodeGrows ==
    ASSUME TypeOK, [Next]_vars, NEW a \in Accounts, node[a] # {}
    PROVE  node'[a] # {}
<1>1. CASE UNCHANGED vars
  BY <1>1 DEF vars, server
<1>2. CASE Next
  <2> USE DEF server
  <2>1. ASSUME NEW t \in Attempts,
               \/ Taps(t) \/ Arrives(t) \/ AuthAnswers(t) \/ AuthCompletes(t)
               \/ NameArrives(t)
        PROVE  node' = node
    BY <2>1 DEF Taps, GoogleSignIn, PasswordSignIn, Arrives, ExistsArrives,
                UsersArrive, AuthAnswers, AuthGrants, AuthDenies, AuthCompletes,
                GoogleCompletes, PasswordCompletes, NameArrives
  <2>2. ASSUME NEW t \in Attempts, Converse(t)
        PROVE  node'[a] # {}
    BY <2>2 DEF Converse, OtherConverses, NodeRead, NodeStored, TypeOK
  <2>3. ASSUME NEW d \in Devices, ServerApplies(d)
        PROVE  node'[a] # {}
    BY <2>3 DEF ServerApplies, NewNode, TypeOK
  <2>4. ASSUME NEW d \in Devices,
               \/ Completed(d) \/ Refused(d)
               \/ Reconnects(d) \/ Logout(d) \/ Restart(d)
               \/ \E to \in {"main", "profile"} : Navigate(d, to)
        PROVE  node' = node
    BY <2>4 DEF Completed, Refused, Reconnects, Logout, Restart, Navigate
  <2> QED
    BY <1>2, <2>1, <2>2, <2>3, <2>4 DEF Next
<1> QED
  BY <1>1, <1>2

LEMMA KnownKept ==
    ASSUME TypeOK, [Next]_vars, NEW s \in Attempts, Known(s)
    PROVE  Known(s)'
<1>1. who'[s] = who[s]
  BY WhoKept DEF Known
<1>2. node'[who[s]] # {}
  BY NodeGrows DEF Known
<1> QED
  BY <1>1, <1>2 DEF Known

\* The accounts of the array that a device reads are known.
LEMMA SeenUsersKnown ==
    ASSUME TypeInv, NodeInv, NEW d \in Devices,
           NEW j \in 1..Len(SeenUsers(d))
    PROVE  Known(SeenUsers(d)[j])
<1>1. CASE LastArray(d) = {}
  BY <1>1 DEF SeenUsers, NodeInv, UsersKnown
<1>2. CASE LastArray(d) # {}
  <2> DEFINE i == CHOOSE k \in LastArray(d) : TRUE
  <2>1. i \in LastArray(d)
    BY <1>2
  <2>2. SeenUsers(d) = outbox[d][i].array
    BY <1>2 DEF SeenUsers
  <2> HIDE DEF i
  <2>3. outbox[d] \in Seq(Puts)
    BY DEF TypeInv, TypeOK
  <2>4. i \in 1..Len(outbox[d]) /\ outbox[d][i].to = "users"
    BY <2>1, <2>3 DEF LastArray
  <2>5. PutKnown(d, i)
    BY <2>4 DEF NodeInv, PutsKnown
  <2> QED
    BY <2>2, <2>4, <2>5 DEF PutKnown
<1> QED
  BY <1>1, <1>2

\* What a known put was it stays, where its place in the queue is the same
\* and no more puts were applied.
LEMMA PutKnownKept ==
    ASSUME TypeInv, [Next]_vars, NEW d \in Devices, NEW i \in 1..Len(outbox[d]),
           NEW k \in 1..Len(outbox'[d]),
           outbox'[d][k] = outbox[d][i], k <= applied'[d] => i <= applied[d],
           PutKnown(d, i)
    PROVE  PutKnown(d, k)'
<1>0. outbox[d][i] \in Puts
  BY DEF TypeInv, TypeOK
<1>1. PICK p \in Puts : p = outbox[d][i]
  BY <1>0
<1>2. p.by \in Attempts /\ (p.to = "users" => p.array \in Seq(Attempts))
  BY <1>1 DEF Puts
<1>3. p.to = "node" /\ k <= applied'[d] => Known(p.by)'
  BY <1>1, <1>2, KnownKept DEF PutKnown, TypeInv
<1>4. ASSUME p.to = "users", NEW j \in 1..Len(p.array)
      PROVE  Known(p.array[j])'
  <2>1. p.array[j] \in Attempts
    BY <1>2, <1>4
  <2>2. Known(p.array[j])
    BY <1>1, <1>4 DEF PutKnown
  <2> QED
    BY <2>1, <2>2, KnownKept DEF TypeInv
<1>5. outbox'[d][k] = p
  BY <1>1
<1> QED
  BY <1>3, <1>4, <1>5 DEF PutKnown

LEMMA UsersKnownKept ==
    ASSUME TypeInv, NodeInv, [Next]_vars, UNCHANGED users
    PROVE  UsersKnown'
<1>1. ASSUME NEW i \in 1..Len(users) PROVE Known(users[i])'
  <2>1. users[i] \in Attempts
    BY DEF TypeInv, TypeOK
  <2>2. Known(users[i])
    BY DEF NodeInv, UsersKnown
  <2> QED
    BY <2>1, <2>2, KnownKept DEF TypeInv
<1> QED
  BY <1>1 DEF UsersKnown

LEMMA InsertionsKnownKept ==
    ASSUME TypeInv, NodeInv, [Next]_vars,
           \A t \in Attempts : ins'[t] \in {"usersRead", "usersWrite"} =>
                                   ins'[t] = ins[t] \/ Known(t)
    PROVE  InsertionsKnown'
<1>1. ASSUME NEW t \in Attempts, ins'[t] \in {"usersRead", "usersWrite"}
      PROVE  Known(t)'
  <2>1. Known(t)
    BY <1>1 DEF NodeInv, InsertionsKnown
  <2> QED
    BY <2>1, KnownKept DEF TypeInv
<1> QED
  BY <1>1 DEF InsertionsKnown

LEMMA PutsKnownKept ==
    ASSUME TypeInv, NodeInv, [Next]_vars, NEW d \in Devices,
           outbox'[d] = outbox[d], applied'[d] = applied[d] \/ applied'[d] = 0,
           NEW i \in 1..Len(outbox'[d])
    PROVE  PutKnown(d, i)'
<1>1. outbox[d] \in Seq(Puts) /\ applied[d] \in Nat
  BY DEF TypeInv, TypeOK
<1>2. i \in 1..Len(outbox[d]) /\ PutKnown(d, i)
  BY DEF NodeInv, PutsKnown
<1>3. i <= applied'[d] => i <= applied[d]
  BY <1>1
<1> QED
  BY <1>2, <1>3, PutKnownKept

\* A put joins the queue of d: not applied, and of known accounts if it is
\* an array.
LEMMA PutsKnownPut ==
    ASSUME TypeInv, NodeInv, [Next]_vars, NEW d \in Devices, NEW p \in Puts,
           Put(d, p), p.to = "users" => \A j \in 1..Len(p.array) : Known(p.array[j])
    PROVE  PutsKnown'
<1>1. /\ outbox \in [Devices -> Seq(Puts)]
      /\ applied \in [Devices -> Nat]
      /\ outbox' = [outbox EXCEPT ![d] = Append(@, p)]
      /\ applied' = applied
      /\ applied[d] <= Len(outbox[d])
  BY DEF TypeInv, TypeOK, Put, Queued
<1>2. ASSUME NEW e \in Devices, NEW k \in 1..Len(outbox'[e])
      PROVE  PutKnown(e, k)'
  <2>1. CASE e # d
    <3>1. outbox'[e] = outbox[e] /\ applied'[e] = applied[e]
      BY <1>1, <2>1
    <3> QED
      BY <3>1, PutsKnownKept
  <2>2. CASE e = d
    <3>1. /\ outbox'[d] = Append(outbox[d], p)
          /\ Len(outbox'[d]) = Len(outbox[d]) + 1
          /\ outbox[d] \in Seq(Puts)
      BY <1>1
    <3>2. CASE k \in 1..Len(outbox[d])
      <4>1. outbox'[d][k] = outbox[d][k]
        BY <3>1, <3>2
      <4>2. PutKnown(d, k)
        BY <3>2 DEF NodeInv, PutsKnown
      <4> QED
        BY <1>1, <2>2, <3>2, <4>1, <4>2, PutKnownKept
    <3>3. CASE k = Len(outbox[d]) + 1
      <4>1. outbox'[d][k] = p
        BY <3>1, <3>3
      <4>2. Len(outbox[d]) \in Nat /\ applied[d] \in Nat
        BY <1>1
      <4>3. ~(k <= applied'[d])
        BY <1>1, <3>3, <4>2
      <4>4. ASSUME p.to = "users", NEW j \in 1..Len(p.array)
            PROVE  Known(p.array[j])'
        <5>1. p.array \in Seq(Attempts)
          BY <4>4 DEF Puts
        <5>2. p.array[j] \in Attempts /\ Known(p.array[j])
          BY <4>4, <5>1
        <5> QED
          BY <5>2, KnownKept DEF TypeInv
      <4> QED
        BY <2>2, <4>1, <4>3, <4>4 DEF PutKnown
    <3>4. Len(outbox[d]) \in Nat
      BY <3>1
    <3>5. k \in 1..Len(outbox[d]) \/ k = Len(outbox[d]) + 1
      BY <2>2, <3>1, <3>4
    <3> QED
      BY <3>2, <3>3, <3>5
  <2> QED
    BY <2>1, <2>2
<1> QED
  BY <1>2 DEF PutsKnown

\* The first put leaves the queue of d, or all of them do.
LEMMA PutsKnownAnswer ==
    ASSUME TypeInv, NodeInv, [Next]_vars, NEW d \in Devices,
           outbox[d] # <<>>, Answered(d)
    PROVE  PutsKnown'
<1>1. /\ outbox \in [Devices -> Seq(Puts)]
      /\ applied \in [Devices -> Nat]
      /\ outbox' = [outbox EXCEPT ![d] = Tail(@)]
      /\ applied' = [applied EXCEPT ![d] = IF @ = 0 THEN 0 ELSE @ - 1]
  BY DEF TypeInv, TypeOK, Answered
<1>2. ASSUME NEW e \in Devices, NEW k \in 1..Len(outbox'[e])
      PROVE  PutKnown(e, k)'
  <2>1. CASE e # d
    <3>1. outbox'[e] = outbox[e] /\ applied'[e] = applied[e]
      BY <1>1, <2>1
    <3> QED
      BY <3>1, PutsKnownKept
  <2>2. CASE e = d
    <3>1. outbox'[d] = Tail(outbox[d]) /\ outbox[d] \in Seq(Puts)
      BY <1>1
    <3>2. Len(outbox'[d]) = Len(outbox[d]) - 1 /\ Len(outbox[d]) \in Nat
      BY <3>1
    <3>3. k + 1 \in 1..Len(outbox[d]) /\ outbox'[d][k] = outbox[d][k + 1]
      BY <2>2, <3>1, <3>2
    <3>4. applied[d] \in Nat /\ applied'[d] = IF applied[d] = 0 THEN 0 ELSE applied[d] - 1
      BY <1>1
    <3>5. k <= applied'[d] => k + 1 <= applied[d]
      BY <3>4
    <3>6. PutKnown(d, k + 1)
      BY <3>3 DEF NodeInv, PutsKnown
    <3> QED
      BY <2>2, <3>3, <3>5, <3>6, PutKnownKept
  <2> QED
    BY <2>1, <2>2
<1> QED
  BY <1>2 DEF PutsKnown

LEMMA NodeArrives ==
    ASSUME TypeInv, NodeInv, [Next]_vars, NEW s \in Attempts, Arrives(s)
    PROVE  NodeInv'
<1>1. CASE ExistsArrives(s)
  <2> DEFINE p == [by |-> s, to |-> "node"]
  <2>1. /\ ins[s] = "existsRead"
        /\ Insertion(s, "nodeWrite")
        /\ Put(dev[s], p)
        /\ UNCHANGED users
    BY <1>1 DEF ExistsArrives, Exists
  <2>2. dev[s] \in Devices /\ p \in Puts /\ p.to = "node"
    BY <2>1 DEF TypeInv, Callers, Waiting, Puts
  <2> HIDE DEF p
  <2>3. PutsKnown'
    BY <2>1, <2>2, PutsKnownPut
  <2>4. InsertionsKnown'
    BY <2>1, InsertionsKnownKept DEF Insertion, TypeInv, TypeOK
  <2> QED
    BY <2>1, <2>3, <2>4, UsersKnownKept DEF NodeInv
<1>2. CASE UsersArrive(s)
  <2> DEFINE seen == SeenUsers(dev[s])
             p == [by |-> s, to |-> "users", array |-> Append(seen, s)]
  <2>1. /\ ins[s] = "usersRead"
        /\ Insertion(s, "usersWrite")
        /\ Put(dev[s], p)
        /\ UNCHANGED users
    BY <1>2 DEF UsersArrive
  <2>2. dev[s] \in Devices
    BY <2>1 DEF TypeInv, Callers, Waiting
  <2>3. seen \in Seq(Attempts)
    BY <2>2, SeenUsersType DEF TypeInv
  <2>4. \A j \in 1..Len(seen) : Known(seen[j])
    BY <2>2, SeenUsersKnown
  <2>5. Known(s)
    BY <2>1 DEF NodeInv, InsertionsKnown
  <2> HIDE DEF seen
  <2>6. \A j \in 1..Len(Append(seen, s)) : Known(Append(seen, s)[j])
    <3>1. ASSUME NEW j \in 1..Len(Append(seen, s))
          PROVE  Known(Append(seen, s)[j])
      <4>1. Len(seen) \in Nat /\ Len(Append(seen, s)) = Len(seen) + 1
        BY <2>3
      <4>2. CASE j \in 1..Len(seen)
        BY <2>3, <2>4, <4>2
      <4>3. CASE j = Len(seen) + 1
        BY <2>3, <2>5, <4>3
      <4> QED
        BY <4>1, <4>2, <4>3
    <3> QED
      BY <3>1
  <2>7. p \in Puts
    BY <2>3 DEF Puts
  <2>8. p.array = Append(seen, s)
    OBVIOUS
  <2> HIDE DEF p
  <2>9. PutsKnown'
    BY <2>1, <2>2, <2>6, <2>7, <2>8, PutsKnownPut
  <2>10. InsertionsKnown'
    BY <2>1, <2>5, InsertionsKnownKept DEF Insertion, TypeInv, TypeOK
  <2> QED
    BY <2>1, <2>9, <2>10, UsersKnownKept DEF NodeInv
<1> QED
  BY <1>1, <1>2 DEF Arrives

LEMMA NodeAnswers ==
    ASSUME TypeInv, NodeInv, [Next]_vars, NEW d \in Devices,
           Completed(d) \/ Refused(d)
    PROVE  NodeInv'
<1> DEFINE p == outbox[d][1]
<1>1. /\ outbox[d] \in Seq(Puts) /\ applied[d] \in Nat
      /\ applied[d] <= Len(outbox[d])
  BY DEF TypeInv, TypeOK, Queued
<1>2. outbox[d] # <<>>
  <2>1. CASE Completed(d)
    <3>1. applied[d] > 0
      BY <2>1 DEF Completed
    <3> QED
      BY <1>1, <3>1
  <2>2. CASE Refused(d)
    BY <2>2 DEF Refused
  <2> QED
    BY <2>1, <2>2
<1>3. p \in Puts /\ 1 \in 1..Len(outbox[d])
  BY <1>1, <1>2
<1>4. p.by \in Attempts
  BY <1>3 DEF Puts
<1>5. Answered(d) /\ UNCHANGED users
  BY DEF Completed, Refused
<1>6. PutsKnown'
  BY <1>2, <1>5, PutsKnownAnswer
<1>7. PutKnown(d, 1)
  BY <1>3 DEF NodeInv, PutsKnown
<1>8. PICK step \in {"usersRead", "inserted", "failed"} :
          /\ Insertion(p.by, step)
          /\ step = "usersRead" => p.to = "node" /\ applied[d] > 0
  BY DEF Completed, Refused
<1>9. step = "usersRead" => Known(p.by)
  <2>1. applied[d] > 0 => 1 <= applied[d]
    BY <1>1
  <2> QED
    BY <1>7, <1>8, <2>1 DEF PutKnown
<1> HIDE DEF p
<1>10. InsertionsKnown'
  <2>1. ins' = [ins EXCEPT ![p.by] = step]
    BY <1>8 DEF Insertion
  <2> QED
    BY <1>9, <2>1, InsertionsKnownKept DEF TypeInv, TypeOK
<1> QED
  BY <1>5, <1>6, <1>10, UsersKnownKept DEF NodeInv

LEMMA NodeServer ==
    ASSUME TypeInv, NodeInv, [Next]_vars, NEW d \in Devices, ServerApplies(d)
    PROVE  NodeInv'
<1>1. /\ applied \in [Devices -> Nat]
      /\ outbox \in [Devices -> Seq(Puts)]
      /\ node \in [Accounts -> SUBSET Fields]
  BY DEF TypeInv, TypeOK
<1>0. applied[d] + 1 \in 1..Len(outbox[d])
  BY <1>1 DEF ServerApplies
<1> PICK n \in 1..Len(outbox[d]) : n = applied[d] + 1
  BY <1>0
<1>4. outbox[d][n] \in Puts
  BY <1>1
<1> PICK p \in Puts : p = outbox[d][n]
  BY <1>4
<1>2. /\ applied[d] < Len(outbox[d])
      /\ applied' = [applied EXCEPT ![d] = n]
      /\ UNCHANGED <<outbox, who, ins>>
      /\ \/ p.to = "node" /\ UNCHANGED users
            /\ node' = [node EXCEPT ![who[p.by]] = NewNode]
         \/ p.to = "users" /\ users' = p.array /\ UNCHANGED node
  BY DEF ServerApplies, chains
<1>5. PutKnown(d, n) /\ who[p.by] \in Accounts
  BY DEF NodeInv, PutsKnown, TypeInv, Queued
<1>6. p.to = "node" => Known(p.by)'
  BY <1>1, <1>2, <1>5 DEF Known, NewNode
<1>7. ASSUME NEW e \in Devices, NEW k \in 1..Len(outbox'[e])
      PROVE  PutKnown(e, k)'
  <2>1. k \in 1..Len(outbox[e]) /\ outbox'[e][k] = outbox[e][k] /\ PutKnown(e, k)
    BY <1>2 DEF NodeInv, PutsKnown
  <2>2. CASE k <= applied'[e] => k <= applied[e]
    BY <2>1, <2>2, PutKnownKept
  <2>3. CASE e = d /\ k = n
    <3>1. outbox'[d][n] = p
      BY <1>2
    <3>2. CASE p.to = "node"
      BY <1>6, <2>3, <3>1, <3>2 DEF PutKnown
    <3>3. CASE p.to # "node"
      <4>1. p.to = "users" => p.array \in Seq(Attempts)
        BY DEF Puts
      <4>2. ASSUME p.to = "users", NEW j \in 1..Len(p.array)
            PROVE  Known(p.array[j])'
        <5>1. p.array[j] \in Attempts
          BY <4>1, <4>2
        <5>2. Known(p.array[j])
          BY <1>5, <4>2 DEF PutKnown
        <5> QED
          BY <5>1, <5>2, KnownKept DEF TypeInv
      <4> QED
        BY <2>3, <3>1, <3>3, <4>2 DEF PutKnown
    <3> QED
      BY <3>2, <3>3
  <2>4. (k <= applied'[e] => k <= applied[e]) \/ (e = d /\ k = n)
    <3>1. applied[e] \in Nat /\ k \in Nat
      BY <1>1, <2>1
    <3>2. e # d => applied'[e] = applied[e]
      BY <1>1, <1>2
    <3>3. e = d => applied'[e] = applied[e] + 1
      BY <1>1, <1>2
    <3> QED
      BY <3>1, <3>2, <3>3
  <2> QED
    BY <2>2, <2>3, <2>4
<1>8. PutsKnown'
  BY <1>7 DEF PutsKnown
<1>9. UsersKnown'
  <2>1. CASE p.to = "node"
    BY <1>2, <2>1, UsersKnownKept
  <2>2. CASE p.to = "users"
    <3>1. users' = p.array /\ p.array \in Seq(Attempts)
      BY <1>2, <2>2 DEF Puts
    <3>2. ASSUME NEW j \in 1..Len(p.array)
          PROVE  Known(p.array[j])'
      <4>1. p.array[j] \in Attempts
        BY <3>1
      <4>2. Known(p.array[j])
        BY <1>5, <2>2 DEF PutKnown
      <4> QED
        BY <4>1, <4>2, KnownKept DEF TypeInv
    <3> QED
      BY <3>1, <3>2 DEF UsersKnown
  <2> QED
    BY <1>2, <2>1, <2>2
<1>10. InsertionsKnown'
  BY <1>2, InsertionsKnownKept
<1> QED
  BY <1>8, <1>9, <1>10 DEF NodeInv

\* The other steps put nothing and answer nothing.
LEMMA NodeOthers ==
    ASSUME TypeInv, NodeInv, [Next]_vars, UNCHANGED users,
           \A d \in Devices :
               \/ outbox'[d] = <<>>
               \/ /\ outbox'[d] = outbox[d]
                  /\ applied'[d] = applied[d] \/ applied'[d] = 0,
           \A t \in Attempts : ins'[t] \in {"usersRead", "usersWrite"} =>
                                   ins'[t] = ins[t]
    PROVE  NodeInv'
<1>1. ASSUME NEW d \in Devices, NEW i \in 1..Len(outbox'[d])
      PROVE  PutKnown(d, i)'
  <2>1. outbox'[d] # <<>>
    OBVIOUS
  <2> QED
    BY <2>1, PutsKnownKept
<1>2. PutsKnown'
  BY <1>1 DEF PutsKnown
<1> QED
  BY <1>2, UsersKnownKept, InsertionsKnownKept DEF NodeInv

LEMMA NodeNext == TypeInv /\ NodeInv /\ [Next]_vars => NodeInv'
<1> SUFFICES ASSUME TypeInv, NodeInv, [Next]_vars PROVE NodeInv'
  OBVIOUS
<1>1. ASSUME NEW s \in Attempts, Taps(s) PROVE NodeInv'
  <2> PICK d \in Devices, a \in Accounts :
              GoogleSignIn(s, d, a) \/ PasswordSignIn(s, d, a)
    BY <1>1 DEF Taps
  <2>1. UNCHANGED server /\ (Insertion(s, "existsRead") \/ UNCHANGED ins)
    BY DEF GoogleSignIn, PasswordSignIn
  <2> QED
    BY <2>1, NodeOthers DEF server, Insertion, TypeInv, TypeOK
<1>2. ASSUME NEW s \in Attempts, Arrives(s) PROVE NodeInv'
  BY <1>2, NodeArrives
<1>3. ASSUME NEW s \in Attempts,
             AuthAnswers(s) \/ AuthCompletes(s) \/ NameArrives(s) \/ Converse(s)
      PROVE  NodeInv'
  <2>1. UNCHANGED <<users, outbox, applied, ins>>
    BY <1>3 DEF AuthAnswers, AuthGrants, AuthDenies, AuthCompletes,
                GoogleCompletes, PasswordCompletes, NameArrives, Converse,
                server, chains
  <2> QED
    BY <2>1, NodeOthers
<1>4. ASSUME NEW d \in Devices, ServerApplies(d) PROVE NodeInv'
  BY <1>4, NodeServer
<1>5. ASSUME NEW d \in Devices, Completed(d) \/ Refused(d) PROVE NodeInv'
  BY <1>5, NodeAnswers
<1>6. ASSUME NEW d \in Devices, Reconnects(d) PROVE NodeInv'
  <2>1. /\ applied' = [applied EXCEPT ![d] = 0]
        /\ UNCHANGED <<users, outbox, ins>>
        /\ applied \in [Devices -> Nat]
    BY <1>6 DEF Reconnects, chains, TypeInv, TypeOK
  <2> QED
    BY <2>1, NodeOthers
<1>7. ASSUME NEW d \in Devices, Restart(d) PROVE NodeInv'
  <2>1. /\ outbox' = [outbox EXCEPT ![d] = <<>>]
        /\ applied' = [applied EXCEPT ![d] = 0]
        /\ outbox \in [Devices -> Seq(Puts)]
        /\ applied \in [Devices -> Nat]
        /\ UNCHANGED users
        /\ \A t \in Attempts : ins'[t] \in {"usersRead", "usersWrite"} =>
                                   ins'[t] = ins[t]
    BY <1>7 DEF Restart, TypeInv, TypeOK
  <2> QED
    BY <2>1, NodeOthers
<1>8. ASSUME NEW d \in Devices,
             Logout(d) \/ \E to \in {"main", "profile"} : Navigate(d, to)
      PROVE  NodeInv'
  <2>1. UNCHANGED <<users, outbox, applied, ins>>
    BY <1>8 DEF Logout, Navigate, server, chains
  <2> QED
    BY <2>1, NodeOthers
<1>9. CASE UNCHANGED vars
  <2>1. UNCHANGED <<users, outbox, applied, ins>>
    BY <1>9 DEF vars, server, chains
  <2> QED
    BY <2>1, NodeOthers
<1> QED
  BY <1>1, <1>2, <1>3, <1>4, <1>5, <1>6, <1>7, <1>8, <1>9 DEF Next

LEMMA NodeInit == Init => NodeInv
BY DEF Init, NodeInv, PutsKnown, UsersKnown, InsertionsKnown

LEMMA NodeSafe == TypeInv /\ NodeInv => NodeBeforeEntry
<1> SUFFICES ASSUME TypeInv, NodeInv PROVE NodeBeforeEntry
  OBVIOUS
<1>1. ASSUME NEW i \in DOMAIN users PROVE node[who[users[i]]] # {}
  <2>1. i \in 1..Len(users)
    BY DEF TypeInv, TypeOK
  <2> QED
    BY <2>1 DEF NodeInv, UsersKnown, Known
<1>2. ASSUME NEW d \in Devices, NEW i \in DOMAIN outbox[d],
             outbox[d][i].to = "users", NEW j \in DOMAIN outbox[d][i].array
      PROVE  node[who[outbox[d][i].array[j]]] # {}
  <2>1. i \in 1..Len(outbox[d]) /\ outbox[d][i] \in Puts
    BY DEF TypeInv, TypeOK
  <2>2. outbox[d][i].array \in Seq(Attempts)
    BY <1>2, <2>1 DEF Puts
  <2>3. j \in 1..Len(outbox[d][i].array)
    BY <2>2
  <2>4. PutKnown(d, i)
    BY <2>1 DEF NodeInv, PutsKnown
  <2> QED
    BY <1>2, <2>3, <2>4 DEF PutKnown, Known
<1> QED
  BY <1>1, <1>2 DEF NodeBeforeEntry

\* Whoever the search finds has a node, however many sign-ins overlap, are
\* refused, cut off or sent again: insertUser writes the collection only in the
\* completion block of the node's put.
THEOREM EntriesLeadToNodes == Spec => []NodeBeforeEntry
<1>1. Spec => []NodeInv
  <2>1. Init => NodeInv
    BY NodeInit
  <2> QED
    BY <2>1, NodeNext, TypeInvAlways, PTL DEF Spec
<1> QED
  BY <1>1, NodeSafe, TypeInvAlways, PTL

----------------------------------------------------------------------------
(* One entry of a sign-in: a put is of an insertion that waits for it, and *)
(* an insertion appends its entry once                                      *)

\* Insertions that have appended their entry, or never will
Past == {"usersWrite", "inserted", "failed", "gone"}
PastKept == \A s \in Attempts : ins[s] \in Past => ins'[s] \in Past

\* An array without repetitions, of entries that are not appended again
Listed(array) ==
    /\ \A i, j \in 1..Len(array) : array[i] = array[j] => i = j
    /\ \A i \in 1..Len(array) : ins[array[i]] \in Past

\* The insertion of a put waits for its answer
Waits(p) ==
    /\ p.to = "node" => ins[p.by] = "nodeWrite"
    /\ p.to = "users" => ins[p.by] = "usersWrite" /\ Listed(p.array)

\* and for one put at a time
QueueOf(d) ==
    /\ \A i \in 1..Len(outbox[d]) : Waits(outbox[d][i])
    /\ \A i, k \in 1..Len(outbox[d]) : outbox[d][i].by = outbox[d][k].by => i = k

\* Only an attempt that was tapped has an insertion
Started == \A s \in Attempts : ins[s] # "none" => who[s] \in Accounts

OnceInv == Started /\ Listed(users) /\ \A d \in Devices : QueueOf(d)

----------------------------------------------------------------------------

LEMMA ListedKept ==
    ASSUME NEW array \in Seq(Attempts), Listed(array), PastKept
    PROVE  Listed(array)'
BY DEF Listed, PastKept

LEMMA WaitsKept ==
    ASSUME NEW p \in Puts, Waits(p), ins'[p.by] = ins[p.by], PastKept
    PROVE  Waits(p)'
<1>1. CASE p.to = "node"
  BY <1>1 DEF Waits
<1>2. CASE p.to = "users"
  <2>1. p.array \in Seq(Attempts)
    BY <1>2 DEF Puts
  <2> QED
    BY <1>2, <2>1, ListedKept DEF Waits
<1>3. p.to \in {"node", "users"}
  BY DEF Puts
<1> QED
  BY <1>1, <1>2, <1>3

\* What a device reads at "users" is such an array, too.
LEMMA SeenListed ==
    ASSUME TypeInv, OnceInv, NEW d \in Devices
    PROVE  Listed(SeenUsers(d))
<1>1. CASE LastArray(d) = {}
  BY <1>1 DEF SeenUsers, OnceInv
<1>2. CASE LastArray(d) # {}
  <2> DEFINE i == CHOOSE k \in LastArray(d) : TRUE
  <2>1. i \in LastArray(d)
    BY <1>2
  <2>2. SeenUsers(d) = outbox[d][i].array
    BY <1>2 DEF SeenUsers
  <2> HIDE DEF i
  <2>3. outbox[d] \in Seq(Puts)
    BY DEF TypeInv, TypeOK
  <2>4. i \in 1..Len(outbox[d]) /\ outbox[d][i].to = "users"
    BY <2>1, <2>3 DEF LastArray
  <2>5. Waits(outbox[d][i])
    BY <2>4 DEF OnceInv, QueueOf
  <2> QED
    BY <2>2, <2>4, <2>5 DEF Waits
<1> QED
  BY <1>1, <1>2

LEMMA AppendListed ==
    ASSUME NEW array \in Seq(Attempts), Listed(array), NEW s \in Attempts,
           ins[s] \notin Past, ins'[s] \in Past, PastKept
    PROVE  Listed(Append(array, s))'
<1> DEFINE more == Append(array, s)
<1>1. /\ Len(array) \in Nat /\ Len(more) = Len(array) + 1
      /\ \A i \in 1..Len(array) : more[i] = array[i] /\ array[i] \in Attempts
      /\ more[Len(array) + 1] = s
  OBVIOUS
<1> HIDE DEF more
<1>2. \A i \in 1..Len(more) : i \in 1..Len(array) \/ i = Len(array) + 1
  BY <1>1
<1>3. \A i \in 1..Len(array) : array[i] # s
  BY DEF Listed
<1>4. \A i, j \in 1..Len(more) : more[i] = more[j] => i = j
  BY <1>1, <1>2, <1>3 DEF Listed
<1>5. \A i \in 1..Len(more) : ins'[more[i]] \in Past
  BY <1>1, <1>2 DEF Listed, PastKept
<1>6. Listed(more)'
  BY <1>4, <1>5 DEF Listed, more
<1> QED
  BY <1>6 DEF more

----------------------------------------------------------------------------
(* The queues                                                              *)

\* A queue that is as it was, or gone with the app
LEMMA QueueSame ==
    ASSUME TypeInv, OnceInv, PastKept, NEW d \in Devices,
           outbox'[d] = outbox[d] \/ outbox'[d] = <<>>,
           \A i \in 1..Len(outbox'[d]) :
               ins'[outbox[d][i].by] = ins[outbox[d][i].by]
    PROVE  QueueOf(d)'
<1>1. outbox[d] \in Seq(Puts) /\ QueueOf(d)
  BY DEF TypeInv, TypeOK, OnceInv
<1>2. CASE outbox'[d] = <<>>
  BY <1>2 DEF QueueOf
<1>3. CASE outbox'[d] = outbox[d]
  <2>1. ASSUME NEW i \in 1..Len(outbox[d])
        PROVE  Waits(outbox[d][i])'
    <3>1. PICK p \in Puts : p = outbox[d][i]
      BY <1>1
    <3>2. Waits(p) /\ ins'[p.by] = ins[p.by]
      BY <1>1, <1>3, <3>1 DEF QueueOf
    <3>3. Waits(p)'
      BY <3>2, WaitsKept
    <3> QED
      BY <1>3, <3>1, <3>3 DEF Waits, Listed
  <2> QED
    BY <1>1, <1>3, <2>1 DEF QueueOf
<1> QED
  BY <1>2, <1>3

\* An insertion that waits for no put makes one
LEMMA QueuePut ==
    ASSUME TypeInv, OnceInv, PastKept, NEW d \in Devices, NEW p \in Puts,
           Put(d, p), ins[p.by] \notin {"nodeWrite", "usersWrite"}, Waits(p)',
           \A s \in Attempts : s # p.by => ins'[s] = ins[s]
    PROVE  \A e \in Devices : QueueOf(e)'
<1>1. /\ outbox \in [Devices -> Seq(Puts)]
      /\ outbox' = [outbox EXCEPT ![d] = Append(@, p)]
      /\ \A e \in Devices : QueueOf(e)
  BY DEF TypeInv, TypeOK, Put, OnceInv
<1>2. ASSUME NEW e \in Devices, NEW i \in 1..Len(outbox[e])
      PROVE  outbox[e][i] \in Puts /\ outbox[e][i].by \in Attempts /\ outbox[e][i].by # p.by
  <2>1. outbox[e][i] \in Puts /\ Waits(outbox[e][i])
    BY <1>1 DEF QueueOf
  <2>2. outbox[e][i].by \in Attempts /\ outbox[e][i].to \in {"node", "users"}
    BY <2>1 DEF Puts
  <2> QED
    BY <2>1, <2>2 DEF Waits
<1>3. ASSUME NEW e \in Devices PROVE QueueOf(e)'
  <2>1. CASE e # d
    <3>1. outbox'[e] = outbox[e]
      BY <1>1, <2>1
    <3> QED
      BY <1>2, <3>1, QueueSame
  <2>2. CASE e = d
    <3> DEFINE n == Len(outbox[d]) + 1
    <3>1. /\ outbox[d] \in Seq(Puts) /\ Len(outbox[d]) \in Nat
          /\ outbox'[d] = Append(outbox[d], p)
      BY <1>1
    <3>2. /\ Len(outbox'[d]) = n /\ outbox'[d][n] = p
          /\ \A i \in 1..Len(outbox[d]) : outbox'[d][i] = outbox[d][i]
          /\ \A i \in 1..n : i \in 1..Len(outbox[d]) \/ i = n
      BY <3>1
    <3> HIDE DEF n
    <3>3. ASSUME NEW i \in 1..Len(outbox[d])
          PROVE  Waits(outbox[d][i])'
      <4>1. PICK q \in Puts : q = outbox[d][i]
        BY <1>2
      <4>2. Waits(q) /\ ins'[q.by] = ins[q.by]
        BY <1>1, <1>2, <4>1 DEF QueueOf
      <4>3. Waits(q)'
        BY <4>2, WaitsKept
      <4> QED
        BY <3>2, <4>1, <4>3 DEF Waits, Listed
    <3>4. \A i \in 1..Len(outbox'[d]) : Waits(outbox[d][i])'
      BY <3>2, <3>3
    <3>5. \A i, k \in 1..Len(outbox'[d]) :
              outbox'[d][i].by = outbox'[d][k].by => i = k
      BY <1>1, <1>2, <3>2 DEF QueueOf
    <3> QED
      BY <2>2, <3>4, <3>5 DEF QueueOf
  <2> QED
    BY <2>1, <2>2
<1> QED
  BY <1>3

\* The first put has its answer: the others are of other insertions
LEMMA QueueAnswer ==
    ASSUME TypeInv, OnceInv, PastKept, NEW d \in Devices, outbox[d] # <<>>,
           Answered(d), UNCHANGED dev,
           \A s \in Attempts : s # outbox[d][1].by => ins'[s] = ins[s]
    PROVE  \A e \in Devices : QueueOf(e)'
<1>1. /\ outbox \in [Devices -> Seq(Puts)]
      /\ outbox' = [outbox EXCEPT ![d] = Tail(@)]
      /\ \A e \in Devices : QueueOf(e)
  BY DEF TypeInv, TypeOK, Answered, OnceInv
<1>2. /\ outbox[d] \in Seq(Puts) /\ Len(outbox[d]) \in Nat
      /\ 1 \in 1..Len(outbox[d])
  BY <1>1
<1>3. ASSUME NEW e \in Devices, NEW i \in 1..Len(outbox[e])
      PROVE  /\ outbox[e][i] \in Puts /\ outbox[e][i].by \in Attempts
             /\ dev[outbox[e][i].by] = e
  <2>1. outbox[e][i] \in Puts
    BY <1>1
  <2> QED
    BY <2>1 DEF TypeInv, Queued, Puts
<1>4. ASSUME NEW e \in Devices PROVE QueueOf(e)'
  <2>1. CASE e # d
    <3>1. outbox'[e] = outbox[e]
      BY <1>1, <2>1
    <3>2. \A i \in 1..Len(outbox[e]) : outbox[e][i].by # outbox[d][1].by
      BY <1>2, <1>3, <2>1
    <3> QED
      BY <1>3, <3>1, <3>2, QueueSame
  <2>2. CASE e = d
    <3>1. /\ outbox'[d] = Tail(outbox[d]) /\ Len(outbox'[d]) = Len(outbox[d]) - 1
          /\ \A k \in 1..Len(outbox'[d]) :
                 k + 1 \in 1..Len(outbox[d]) /\ outbox'[d][k] = outbox[d][k + 1]
      BY <1>1, <1>2
    <3>2. ASSUME NEW k \in 1..Len(outbox'[d])
          PROVE  Waits(outbox[d][k])'
      <4>1. k + 1 \in 1..Len(outbox[d]) /\ k + 1 # 1
        BY <3>1
      <4>2. PICK q \in Puts : q = outbox[d][k + 1]
        BY <1>3, <4>1
      <4>3. q.by # outbox[d][1].by /\ q.by \in Attempts
        BY <1>1, <1>2, <1>3, <4>1, <4>2 DEF QueueOf
      <4>4. Waits(q)
        BY <1>1, <4>1, <4>2 DEF QueueOf
      <4>5. Waits(q)'
        BY <4>3, <4>4, WaitsKept
      <4> QED
        BY <3>1, <4>2, <4>5 DEF Waits, Listed
    <3>3. \A i, k \in 1..Len(outbox'[d]) :
              outbox'[d][i].by = outbox'[d][k].by => i = k
      <4>1. ASSUME NEW i \in 1..Len(outbox'[d]), NEW k \in 1..Len(outbox'[d]),
                   outbox'[d][i].by = outbox'[d][k].by
            PROVE  i = k
        <5>1. i + 1 = k + 1
          BY <1>1, <3>1, <4>1 DEF QueueOf
        <5> QED
          BY <5>1
      <4> QED
        BY <4>1
    <3> QED
      BY <2>2, <3>2, <3>3 DEF QueueOf
  <2> QED
    BY <2>1, <2>2
<1> QED
  BY <1>4

----------------------------------------------------------------------------
(* The steps                                                               *)

\* A tap makes an attempt's insertion begin, once
LEMMA OnceTaps ==
    ASSUME TypeInv, OnceInv, NEW s \in Attempts, Taps(s)
    PROVE  OnceInv'
<1>1. PICK d \in Devices, a \in Accounts :
               GoogleSignIn(s, d, a) \/ PasswordSignIn(s, d, a)
  BY DEF Taps
<1>2. /\ who[s] = None /\ who' = [who EXCEPT ![s] = a]
      /\ UNCHANGED <<users, outbox>>
      /\ ins' = [ins EXCEPT ![s] = "existsRead"] \/ ins' = ins
  BY <1>1 DEF GoogleSignIn, PasswordSignIn, MayTap, Insertion, server
<1>3. /\ who \in [Attempts -> Accounts \cup {None}]
      /\ ins \in [Attempts -> Waiting \cup {"none", "inserted", "failed", "gone"}]
      /\ outbox \in [Devices -> Seq(Puts)] /\ users \in Seq(Attempts)
  BY DEF TypeInv, TypeOK
<1>4. ins[s] = "none" /\ \A t \in Attempts : t # s => ins'[t] = ins[t]
  BY <1>2, <1>3, AccountConstants DEF OnceInv, Started
<1>5. PastKept
  BY <1>4 DEF PastKept, Past
<1>6. Started'
  BY <1>2, <1>3, <1>4, AccountConstants DEF OnceInv, Started
<1>7. ASSUME NEW e \in Devices PROVE QueueOf(e)'
  <2>1. ASSUME NEW i \in 1..Len(outbox[e])
        PROVE  outbox[e][i].by \in Attempts \ {s}
    <3>1. outbox[e][i] \in Puts
      BY <1>3
    <3>2. who[outbox[e][i].by] \in Accounts
      BY DEF TypeInv, Queued
    <3> QED
      BY <1>2, <3>1, <3>2, AccountConstants DEF Puts
  <2>2. \A i \in 1..Len(outbox[e]) : ins'[outbox[e][i].by] = ins[outbox[e][i].by]
    BY <1>4, <2>1
  <2> QED
    BY <1>2, <1>5, <2>2, QueueSame
<1>8. Listed(users)'
  BY <1>2, <1>3, <1>5, ListedKept DEF OnceInv, Listed
<1> QED
  BY <1>6, <1>7, <1>8 DEF OnceInv

\* The answer of a read makes a put
LEMMA OnceArrives ==
    ASSUME TypeInv, OnceInv, NEW s \in Attempts, Arrives(s)
    PROVE  OnceInv'
<1>0. /\ ins \in [Attempts -> Waiting \cup {"none", "inserted", "failed", "gone"}]
      /\ users \in Seq(Attempts)
  BY DEF TypeInv, TypeOK
<1>1. /\ UNCHANGED <<users, who>> /\ ins[s] \in {"existsRead", "usersRead"}
      /\ ins' = [ins EXCEPT ![s] = IF ins[s] = "existsRead" THEN "nodeWrite"
                                   ELSE "usersWrite"]
  BY DEF Arrives, ExistsArrives, UsersArrive, Insertion, Exists
<1>2. /\ \A t \in Attempts : t # s => ins'[t] = ins[t]
      /\ ins'[s] = IF ins[s] = "existsRead" THEN "nodeWrite" ELSE "usersWrite"
      /\ ins[s] \notin Past
  BY <1>0, <1>1 DEF Past
<1>3. PastKept
  BY <1>2 DEF PastKept
<1>4. Started'
  BY <1>1, <1>2 DEF OnceInv, Started
<1>5. Listed(users)'
  BY <1>0, <1>1, <1>3, ListedKept DEF OnceInv, Listed
<1>6. dev[s] \in Devices
  BY <1>1 DEF TypeInv, Callers, Waiting
<1>7. CASE ExistsArrives(s)
  <2> DEFINE p == [by |-> s, to |-> "node"]
  <2>1. Put(dev[s], p) /\ ins[s] = "existsRead"
    BY <1>7 DEF ExistsArrives, Exists
  <2>2. p \in Puts /\ p.by = s /\ p.to = "node"
    BY DEF Puts
  <2> HIDE DEF p
  <2>3. Waits(p)'
    BY <1>2, <2>1, <2>2 DEF Waits
  <2> QED
    BY <1>2, <1>3, <1>4, <1>5, <1>6, <2>1, <2>2, <2>3, QueuePut DEF OnceInv
<1>8. CASE UsersArrive(s)
  <2> DEFINE array == Append(SeenUsers(dev[s]), s)
             p == [by |-> s, to |-> "users", array |-> array]
  <2>1. Put(dev[s], p) /\ ins[s] = "usersRead"
    BY <1>8 DEF UsersArrive
  <2>2. SeenUsers(dev[s]) \in Seq(Attempts) /\ Listed(SeenUsers(dev[s]))
    BY <1>6, SeenUsersType, SeenListed DEF TypeInv
  <2>3. ins'[s] = "usersWrite" /\ ins'[s] \in Past
    BY <1>2, <2>1 DEF Past
  <2>4. PICK seen \in Seq(Attempts) : seen = SeenUsers(dev[s])
    BY <2>2
  <2>5. Listed(Append(seen, s))'
    BY <1>2, <1>3, <2>2, <2>3, <2>4, AppendListed
  <2>6. PICK q \in Puts : q = p /\ q.by = s /\ q.to = "users" /\ q.array = Append(seen, s)
    <3>1. array = Append(seen, s) /\ array \in Seq(Attempts)
      BY <2>4
    <3> HIDE DEF array
    <3>2. p \in Puts
      BY <3>1 DEF Puts
    <3> QED
      BY <3>1, <3>2
  <2> HIDE DEF array, p
  <2>7. Waits(q)'
    BY <2>3, <2>5, <2>6 DEF Waits
  <2> QED
    BY <1>2, <1>3, <1>4, <1>5, <1>6, <2>1, <2>6, <2>7, QueuePut DEF OnceInv
<1> QED
  BY <1>7, <1>8 DEF Arrives

\* The answer to a put: its insertion goes on, or ends
LEMMA OnceAnswers ==
    ASSUME TypeInv, OnceInv, NEW d \in Devices, Completed(d) \/ Refused(d)
    PROVE  OnceInv'
<1>0. /\ ins \in [Attempts -> Waiting \cup {"none", "inserted", "failed", "gone"}]
      /\ users \in Seq(Attempts)
      /\ outbox[d] \in Seq(Puts) /\ applied[d] \in Nat
      /\ applied[d] <= Len(outbox[d]) /\ QueueOf(d)
  BY DEF TypeInv, TypeOK, Queued, OnceInv
<1>1. outbox[d] # <<>>
  <2>1. CASE Completed(d)
    <3>1. applied[d] > 0
      BY <2>1 DEF Completed
    <3> QED
      BY <1>0, <3>1
  <2>2. CASE Refused(d)
    BY <2>2 DEF Refused
  <2> QED
    BY <2>1, <2>2
<1>2. 1 \in 1..Len(outbox[d]) /\ outbox[d][1] \in Puts
  BY <1>0, <1>1
<1>3. PICK p \in Puts : p = outbox[d][1]
  BY <1>2
<1>4. Waits(p) /\ p.by \in Attempts /\ who[p.by] \in Accounts
  BY <1>0, <1>2, <1>3 DEF QueueOf, TypeInv, Queued, Puts
<1>5. /\ Answered(d) /\ UNCHANGED <<users, who, dev>>
      /\ \/ ins' = [ins EXCEPT ![p.by] = "failed"]
         \/ ins' = [ins EXCEPT ![p.by] = IF p.to = "node" THEN "usersRead"
                                         ELSE "inserted"]
  BY <1>3 DEF Completed, Refused, Insertion
<1>6. \A t \in Attempts : t # p.by => ins'[t] = ins[t]
  BY <1>0, <1>5
<1>7. ins[p.by] \in Past => ins'[p.by] \in Past
  BY <1>0, <1>4, <1>5 DEF Waits, Past
<1>8. PastKept
  BY <1>6, <1>7 DEF PastKept
<1>9. Started'
  BY <1>4, <1>5, <1>6 DEF OnceInv, Started
<1>10. Listed(users)'
  BY <1>0, <1>5, <1>8, ListedKept DEF OnceInv, Listed
<1>11. \A e \in Devices : QueueOf(e)'
  BY <1>1, <1>3, <1>5, <1>6, <1>8, QueueAnswer
<1> QED
  BY <1>9, <1>10, <1>11 DEF OnceInv

\* The server stores an array of the queue, possibly again
LEMMA OnceServer ==
    ASSUME TypeInv, OnceInv, NEW d \in Devices, ServerApplies(d)
    PROVE  OnceInv'
<1>0. /\ users \in Seq(Attempts) /\ outbox[d] \in Seq(Puts) /\ applied[d] \in Nat
      /\ applied[d] < Len(outbox[d]) /\ QueueOf(d)
      /\ UNCHANGED <<ins, who, outbox>>
  BY DEF TypeInv, TypeOK, OnceInv, ServerApplies, chains
<1>1. PICK i \in 1..Len(outbox[d]) : i = applied[d] + 1
  BY <1>0
<1>2. PICK p \in Puts : p = outbox[d][i]
  BY <1>0
<1>3. (p.to = "users" /\ users' = p.array) \/ users' = users
  BY <1>1, <1>2 DEF ServerApplies
<1>4. Waits(p)
  BY <1>0, <1>2 DEF QueueOf
<1>5. Listed(users)'
  BY <1>0, <1>3, <1>4 DEF Waits, Listed, OnceInv
<1>6. Started'
  BY <1>0 DEF OnceInv, Started
<1>7. PastKept
  BY <1>0 DEF PastKept
<1>8. \A e \in Devices : QueueOf(e)'
  BY <1>0, <1>7, QueueSame
<1> QED
  BY <1>5, <1>6, <1>8 DEF OnceInv

\* The app ends: its queue is gone, and its insertions with it
LEMMA OnceRestart ==
    ASSUME TypeInv, OnceInv, NEW d \in Devices, Restart(d)
    PROVE  OnceInv'
<1>1. /\ outbox' = [outbox EXCEPT ![d] = <<>>]
      /\ outbox \in [Devices -> Seq(Puts)] /\ users \in Seq(Attempts)
      /\ UNCHANGED <<users, who>>
      /\ \A s \in Attempts :
             ins'[s] = IF dev[s] = d /\ ins[s] \in Waiting THEN "gone" ELSE ins[s]
  BY DEF Restart, TypeInv, TypeOK
<1>2. PastKept
  BY <1>1 DEF PastKept, Past
<1>3. Started'
  BY <1>1 DEF OnceInv, Started, Waiting
<1>4. Listed(users)'
  BY <1>1, <1>2, ListedKept DEF OnceInv, Listed
<1>5. ASSUME NEW e \in Devices PROVE QueueOf(e)'
  <2>1. CASE e = d
    <3>1. outbox'[e] = <<>>
      BY <1>1, <2>1
    <3> QED
      BY <3>1 DEF QueueOf
  <2>2. CASE e # d
    <3>1. ASSUME NEW i \in 1..Len(outbox[e])
          PROVE  ins'[outbox[e][i].by] = ins[outbox[e][i].by]
      <4>1. outbox[e][i] \in Puts /\ dev[outbox[e][i].by] = e
        BY <1>1 DEF TypeInv, Queued
      <4> QED
        BY <1>1, <2>2, <4>1 DEF Puts
    <3>2. outbox'[e] = outbox[e]
      BY <1>1, <2>2
    <3> QED
      BY <1>2, <3>1, <3>2, QueueSame
  <2> QED
    BY <2>1, <2>2
<1> QED
  BY <1>3, <1>4, <1>5 DEF OnceInv

LEMMA OnceOthers ==
    ASSUME TypeInv, OnceInv, UNCHANGED <<users, outbox, ins, who>>
    PROVE  OnceInv'
<1>1. PastKept
  BY DEF PastKept
<1>2. \A d \in Devices : QueueOf(d)'
  BY <1>1, QueueSame
<1>3. Started' /\ Listed(users)'
  BY DEF OnceInv, Started, Listed
<1> QED
  BY <1>2, <1>3 DEF OnceInv

LEMMA OnceNext == TypeInv /\ OnceInv /\ [Next]_vars => OnceInv'
<1> SUFFICES ASSUME TypeInv, OnceInv, [Next]_vars PROVE OnceInv'
  OBVIOUS
<1>1. ASSUME NEW s \in Attempts,
             AuthAnswers(s) \/ AuthCompletes(s) \/ NameArrives(s) \/ Converse(s)
      PROVE  OnceInv'
  <2>1. UNCHANGED <<users, outbox, ins, who>>
    BY <1>1 DEF AuthAnswers, AuthGrants, AuthDenies, AuthCompletes,
                GoogleCompletes, PasswordCompletes, NameArrives, Converse,
                server, chains
  <2> QED
    BY <2>1, OnceOthers
<1>2. ASSUME NEW d \in Devices,
             \/ Reconnects(d) \/ Logout(d)
             \/ \E to \in {"main", "profile"} : Navigate(d, to)
      PROVE  OnceInv'
  <2>1. UNCHANGED <<users, outbox, ins, who>>
    BY <1>2 DEF Reconnects, Logout, Navigate, server, chains
  <2> QED
    BY <2>1, OnceOthers
<1>3. CASE UNCHANGED vars
  <2>1. UNCHANGED <<users, outbox, ins, who>>
    BY <1>3 DEF vars, server, chains
  <2> QED
    BY <2>1, OnceOthers
<1> QED
  BY <1>1, <1>2, <1>3, OnceTaps, OnceArrives, OnceAnswers, OnceServer, OnceRestart
  DEF Next

LEMMA OnceAlways == Spec => [](TypeInv /\ OnceInv)
<1>1. Init => OnceInv
  BY DEF Init, OnceInv, Started, Listed, QueueOf
<1> QED
  BY <1>1, OnceNext, TypeInvAlways, PTL DEF Spec

\* For any accounts, devices, attempts and faults: however often an array is
\* sent again and whichever arrays are put over each other, a sign-in puts one
\* entry (insertUser).
THEOREM EntryOnce == Spec => []EntriesOnce
<1>1. TypeInv /\ OnceInv => EntriesOnce
  <2> SUFFICES ASSUME TypeInv, OnceInv PROVE EntriesOnce
    OBVIOUS
  <2>1. users \in Seq(Attempts)
    BY DEF TypeInv, TypeOK
  <2> QED
    BY <2>1 DEF OnceInv, Listed, EntriesOnce
<1> QED
  BY <1>1, OnceAlways, PTL

----------------------------------------------------------------------------
(* Sign-ins that do not overlap                                            *)

In(s, array) == \E k \in 1..Len(array) : array[k] = s

\* One insertion at a time is under way; the array it puts, if it puts one,
\* is the stored one or has one entry more, has all that were inserted and its
\* own entry, and is at the server before the put is answered
PutLists(d, i) ==
    outbox[d][i].to = "users" =>
        /\ \A s \in Attempts : ins[s] = "inserted" => In(s, outbox[d][i].array)
        /\ In(outbox[d][i].by, outbox[d][i].array)
        /\ outbox[d][i].array \in {users, Append(users, outbox[d][i].by)}
        /\ i <= applied[d] => In(outbox[d][i].by, users)

SerialInv ==
    /\ \A s, t \in Attempts : ins[s] \in Waiting /\ ins[t] \in Waiting => s = t
    /\ \A s \in Attempts : ins[s] = "inserted" => In(s, users)
    /\ \A d \in Devices : \A i \in 1..Len(outbox[d]) : PutLists(d, i)

\* There is one put at most, and none before or between an insertion's puts
LEMMA OnePut ==
    ASSUME TypeInv, OnceInv, SerialInv,
           NEW d \in Devices, NEW i \in 1..Len(outbox[d])
    PROVE  /\ outbox[d][i] \in Puts
           /\ \A e \in Devices : \A k \in 1..Len(outbox[e]) : e = d /\ k = i
           /\ ins[outbox[d][i].by] \in {"nodeWrite", "usersWrite"}
           /\ \A s \in Attempts : ins[s] \in Waiting => s = outbox[d][i].by
<1>1. ASSUME NEW e \in Devices, NEW k \in 1..Len(outbox[e])
      PROVE  /\ outbox[e][k] \in Puts /\ outbox[e][k].by \in Attempts
             /\ ins[outbox[e][k].by] \in {"nodeWrite", "usersWrite"}
             /\ dev[outbox[e][k].by] = e
  <2>1. outbox[e][k] \in Puts
    BY DEF TypeInv, TypeOK
  <2>2. Waits(outbox[e][k]) /\ dev[outbox[e][k].by] = e
    BY DEF OnceInv, QueueOf, TypeInv, Queued
  <2> QED
    BY <2>1, <2>2 DEF Waits, Puts
<1>2. \A s \in Attempts : ins[s] \in Waiting => s = outbox[d][i].by
  BY <1>1 DEF SerialInv, Waiting
<1>3. ASSUME NEW e \in Devices, NEW k \in 1..Len(outbox[e])
      PROVE  e = d /\ k = i
  <2>1. outbox[e][k].by = outbox[d][i].by
    BY <1>1, <1>2 DEF Waiting
  <2>2. e = d
    BY <1>1, <2>1
  <2> QED
    BY <2>1, <2>2 DEF OnceInv, QueueOf
<1> QED
  BY <1>1, <1>2, <1>3

LEMMA NoPut ==
    ASSUME TypeInv, OnceInv, SerialInv,
           NEW s \in Attempts, ins[s] \in {"existsRead", "usersRead"}
    PROVE  \A d \in Devices : outbox[d] = <<>>
<1> SUFFICES ASSUME NEW d \in Devices, outbox[d] # <<>> PROVE FALSE
  OBVIOUS
<1>1. 1 \in 1..Len(outbox[d])
  BY DEF TypeInv, TypeOK
<1>2. s = outbox[d][1].by
  BY <1>1, OnePut DEF Waiting
<1> QED
  BY <1>1, <1>2, OnePut

LEMMA SerialTaps ==
    ASSUME Serial, TypeInv, OnceInv, SerialInv, NEW s \in Attempts, Taps(s)
    PROVE  SerialInv'
<1>1. PICK d \in Devices, a \in Accounts :
               GoogleSignIn(s, d, a) \/ PasswordSignIn(s, d, a)
  BY DEF Taps
<1>2. /\ who[s] = None /\ UNCHANGED <<users, outbox>>
      /\ ins' = [ins EXCEPT ![s] = "existsRead"] \/ ins' = ins
      /\ \A t \in Attempts : ins[t] \notin Waiting
      /\ \A e \in Devices : outbox[e] = <<>>
  BY <1>1 DEF GoogleSignIn, PasswordSignIn, MayTap, Quiet, Insertion, server
<1>3. ins \in [Attempts -> Waiting \cup {"none", "inserted", "failed", "gone"}]
  BY DEF TypeInv, TypeOK
<1>4. /\ \A t \in Attempts : t # s => ins'[t] = ins[t]
      /\ ins'[s] \in {"existsRead", "none"}
  BY <1>2, <1>3, AccountConstants DEF OnceInv, Started
<1>5. \A e \in Devices : outbox'[e] = <<>>
  BY <1>2
<1>6. \A t \in Attempts : ins'[t] \in Waiting => t = s
  BY <1>2, <1>4 DEF Waiting
<1>7. \A t \in Attempts : ins'[t] = "inserted" => In(t, users)'
  BY <1>2, <1>4 DEF SerialInv, In
<1> QED
  BY <1>5, <1>6, <1>7 DEF SerialInv

LEMMA FirstPut ==
    ASSUME TypeOK, \A d \in Devices : outbox[d] = <<>>, NEW e \in Devices, NEW q,
           outbox' = [outbox EXCEPT ![e] = Append(@, q)],
           NEW d \in Devices, NEW i \in 1..Len(outbox'[d])
    PROVE  d = e /\ i = 1 /\ outbox'[d][i] = q
<1>1. outbox \in [Devices -> Seq(Puts)]
  BY DEF TypeOK
<1>2. d # e => outbox'[d] = <<>>
  BY <1>1
<1>3. d = e
  BY <1>2
<1>4. outbox'[e] = Append(outbox[e], q)
  BY <1>1
<1>5. outbox'[e] = Append(<<>>, q)
  BY <1>4
<1>6. outbox'[e] = <<q>>
  BY <1>5
<1> QED
  BY <1>3, <1>6

LEMMA SerialArrives ==
    ASSUME TypeInv, OnceInv, SerialInv, NEW s \in Attempts, Arrives(s)
    PROVE  SerialInv'
<1>0. /\ ins \in [Attempts -> Waiting \cup {"none", "inserted", "failed", "gone"}]
      /\ users \in Seq(Attempts) /\ outbox \in [Devices -> Seq(Puts)]
      /\ applied \in [Devices -> Nat]
  BY DEF TypeInv, TypeOK
<1>1. /\ UNCHANGED <<users, applied>> /\ ins[s] \in {"existsRead", "usersRead"}
      /\ ins' = [ins EXCEPT ![s] = IF ins[s] = "existsRead" THEN "nodeWrite"
                                   ELSE "usersWrite"]
  BY DEF Arrives, ExistsArrives, UsersArrive, Insertion, Exists, Put
<1>2. /\ \A t \in Attempts : t # s => ins'[t] = ins[t]
      /\ ins'[s] \in {"nodeWrite", "usersWrite"} /\ ins[s] \in Waiting
  BY <1>0, <1>1 DEF Waiting
<1>3. \A t \in Attempts : ins'[t] \in Waiting => t = s
  BY <1>2 DEF SerialInv, Waiting
<1>4. \A t \in Attempts : ins'[t] = "inserted" => ins[t] = "inserted" /\ In(t, users)
  BY <1>2 DEF SerialInv
<1>5. \A t \in Attempts : ins'[t] = "inserted" => In(t, users)'
  BY <1>1, <1>4 DEF In
<1>6. \A d \in Devices : outbox[d] = <<>> /\ applied[d] = 0
  <2>1. ASSUME NEW d \in Devices PROVE outbox[d] = <<>> /\ applied[d] = 0
    <3>1. outbox[d] = <<>>
      BY <1>1, NoPut
    <3> QED
      BY <1>0, <3>1 DEF TypeInv, Queued
  <2> QED
    BY <2>1
<1>7. dev[s] \in Devices
  BY <1>2 DEF TypeInv, Callers
<1> DEFINE Lists == \A d \in Devices : \A i \in 1..Len(outbox[d]) : PutLists(d, i)
<1>8. CASE ExistsArrives(s)
  <2>1. outbox' = [outbox EXCEPT ![dev[s]] = Append(@, [by |-> s, to |-> "node"])]
    BY <1>8 DEF ExistsArrives, Exists, Put
  <2>2. \A d \in Devices : \A i \in 1..Len(outbox'[d]) : outbox'[d][i].to = "node"
    <3>1. ASSUME NEW d \in Devices, NEW i \in 1..Len(outbox'[d])
          PROVE  outbox'[d][i].to = "node"
      <4>1. outbox'[d][i] = [by |-> s, to |-> "node"]
        BY <1>6, <1>7, <2>1, FirstPut DEF TypeInv
      <4> QED
        BY <4>1
    <3> QED
      BY <3>1
  <2>3. Lists'
    BY <2>2 DEF PutLists
  <2> QED
    BY <1>3, <1>5, <2>3 DEF SerialInv
<1>9. CASE UsersArrive(s)
  <2>1. SeenUsers(dev[s]) = users
    BY <1>6, <1>7 DEF SeenUsers, LastArray
  <2> DEFINE array == Append(users, s)
             p == [by |-> s, to |-> "users", array |-> array]
  <2>2. outbox' = [outbox EXCEPT ![dev[s]] = Append(@, p)]
    BY <1>9, <2>1 DEF UsersArrive, Put
  <2>3. p.by = s /\ p.to = "users" /\ p.array = array
    OBVIOUS
  <2>4. /\ Len(array) = Len(users) + 1 /\ Len(users) \in Nat
        /\ array[Len(users) + 1] = s
        /\ \A k \in 1..Len(users) : array[k] = users[k]
    BY <1>0
  <2> HIDE DEF array, p
  <2>5. /\ In(s, array)
        /\ \A t \in Attempts : In(t, users) => In(t, array)
    BY <2>4 DEF In
  <2>6. ASSUME NEW d \in Devices, NEW i \in 1..Len(outbox'[d])
        PROVE  PutLists(d, i)'
    <3>0. outbox'[d][i] = p /\ i = 1
      BY <1>6, <1>7, <2>2, FirstPut DEF TypeInv
    <3>1. ~(i <= applied'[d])
      BY <1>1, <1>6, <3>0
    <3>2. array = Append(users', s)
      BY <1>1 DEF array
    <3> QED
      <4>1. /\ outbox'[d][i].by = s /\ outbox'[d][i].array = array
        BY <2>3, <3>0
      <4>2. \A t \in Attempts : ins'[t] = "inserted" => In(t, array)
        BY <1>4, <2>5
      <4> QED
        BY <2>5, <3>1, <3>2, <4>1, <4>2 DEF PutLists, In
  <2>7. Lists'
    BY <2>6
  <2> QED
    BY <1>3, <1>5, <2>7 DEF SerialInv
<1> QED
  BY <1>8, <1>9 DEF Arrives

\* The answer to the one put
LEMMA SerialAnswers ==
    ASSUME TypeInv, OnceInv, SerialInv, NEW d \in Devices, Completed(d) \/ Refused(d)
    PROVE  SerialInv'
<1>0. /\ ins \in [Attempts -> Waiting \cup {"none", "inserted", "failed", "gone"}]
      /\ outbox \in [Devices -> Seq(Puts)] /\ applied \in [Devices -> Nat]
      /\ applied[d] <= Len(outbox[d])
  BY DEF TypeInv, TypeOK, Queued
<1>1. outbox[d] # <<>> /\ (Completed(d) => applied[d] >= 1)
  <2>1. CASE Completed(d)
    <3>1. applied[d] > 0
      BY <2>1 DEF Completed
    <3> QED
      BY <1>0, <3>1
  <2>2. CASE Refused(d) /\ ~Completed(d)
    BY <2>2 DEF Refused
  <2> QED
    BY <2>1, <2>2
<1>2. 1 \in 1..Len(outbox[d])
  BY <1>0, <1>1
<1>3. PICK p \in Puts : p = outbox[d][1]
  BY <1>0, <1>2
<1>4. /\ ins[p.by] \in Waiting /\ p.by \in Attempts
      /\ \A s \in Attempts : ins[s] \in Waiting => s = p.by
      /\ \A e \in Devices : \A k \in 1..Len(outbox[e]) : e = d /\ k = 1
  BY <1>2, <1>3, OnePut DEF Waiting, Puts
<1>5. /\ outbox' = [outbox EXCEPT ![d] = Tail(@)] /\ UNCHANGED users
      /\ \E step \in {"usersRead", "inserted", "failed"} :
             /\ ins' = [ins EXCEPT ![p.by] = step]
             /\ step = "inserted" => Completed(d) /\ p.to = "users"
  <2>1. p.to \in {"node", "users"}
    BY DEF Puts
  <2> QED
    BY <1>3, <2>1 DEF Completed, Refused, Answered, Insertion
<1>6. PICK step \in {"usersRead", "inserted", "failed"} :
          /\ ins' = [ins EXCEPT ![p.by] = step]
          /\ step = "inserted" => Completed(d) /\ p.to = "users"
  BY <1>5
<1>7. /\ \A t \in Attempts : t # p.by => ins'[t] = ins[t]
      /\ ins'[p.by] = step
  BY <1>0, <1>4, <1>6
<1>8. \A t \in Attempts : ins'[t] \in Waiting => t = p.by
  BY <1>4, <1>7
<1>9. step = "inserted" => In(p.by, users)
  <2>1. PutLists(d, 1)
    BY <1>2 DEF SerialInv
  <2> QED
    BY <1>1, <1>3, <1>6, <2>1 DEF PutLists
<1>10. \A t \in Attempts : ins'[t] = "inserted" => In(t, users)
  BY <1>7, <1>9 DEF SerialInv
<1>11. \A t \in Attempts : ins'[t] = "inserted" => In(t, users)'
  BY <1>5, <1>10 DEF In
<1>12. ASSUME NEW e \in Devices, NEW i \in 1..Len(outbox'[e])
       PROVE  PutLists(e, i)'
  <2>1. CASE e # d
    <3>1. outbox'[e] = outbox[e]
      BY <1>5, <2>1
    <3> QED
      BY <1>4, <2>1, <3>1
  <2>2. CASE e = d
    <3>1. outbox'[d] = Tail(outbox[d]) /\ Len(outbox'[d]) = Len(outbox[d]) - 1
      BY <1>0, <1>1, <1>5
    <3>2. i + 1 \in 1..Len(outbox[d]) /\ i + 1 # 1
      BY <1>0, <2>2, <3>1
    <3> QED
      BY <1>4, <3>2
  <2> QED
    BY <2>1, <2>2
<1> QED
  BY <1>8, <1>11, <1>12 DEF SerialInv

\* The server stores the one put
LEMMA SerialServer ==
    ASSUME TypeInv, OnceInv, SerialInv, NEW d \in Devices, ServerApplies(d)
    PROVE  SerialInv'
<1>0. /\ outbox[d] \in Seq(Puts) /\ applied \in [Devices -> Nat]
      /\ applied[d] < Len(outbox[d]) /\ UNCHANGED <<ins, outbox>>
  BY DEF TypeInv, TypeOK, ServerApplies, chains
<1>1. applied[d] + 1 \in 1..Len(outbox[d])
  BY <1>0
<1>2. \A e \in Devices : \A k \in 1..Len(outbox[e]) : e = d /\ k = applied[d] + 1
  BY <1>1, OnePut
<1>3. PICK p \in Puts : p = outbox[d][applied[d] + 1]
  BY <1>0, <1>1
<1>4. (p.to = "users" /\ users' = p.array) \/ (p.to # "users" /\ users' = users)
  <2>1. (p.to = "node" /\ users' = users) \/ (p.to = "users" /\ users' = p.array)
    BY <1>3 DEF ServerApplies
  <2> QED
    BY <2>1
<1>5. p.to = "users" => /\ \A t \in Attempts : ins[t] = "inserted" => In(t, p.array)
                        /\ In(p.by, p.array)
  <2>1. PutLists(d, applied[d] + 1)
    BY <1>1 DEF SerialInv
  <2> QED
    BY <1>3, <2>1 DEF PutLists
<1>6. \A t \in Attempts : ins'[t] = "inserted" => In(t, users)'
  BY <1>0, <1>4, <1>5 DEF SerialInv, In
<1>7. ASSUME NEW e \in Devices, NEW i \in 1..Len(outbox'[e])
      PROVE  PutLists(e, i)'
  <2>1. outbox'[e][i] = p
    BY <1>0, <1>2, <1>3
  <2> QED
    BY <1>0, <1>4, <1>5, <2>1 DEF PutLists, In
<1> QED
  BY <1>0, <1>6, <1>7 DEF SerialInv

\* The other steps put nothing, answer nothing and forget at most
LEMMA SerialOthers ==
    ASSUME TypeInv, SerialInv, UNCHANGED users,
           \A d \in Devices :
               \/ outbox'[d] = <<>>
               \/ /\ outbox'[d] = outbox[d]
                  /\ applied'[d] = applied[d] \/ applied'[d] = 0,
           \A t \in Attempts : ins'[t] = ins[t] \/ ins'[t] = "gone"
    PROVE  SerialInv'
<1>1. \A s, t \in Attempts : ins'[s] \in Waiting /\ ins'[t] \in Waiting => s = t
  BY DEF SerialInv, Waiting
<1>2. \A s \in Attempts : ins'[s] = "inserted" => In(s, users)'
  BY DEF SerialInv, In
<1>3. ASSUME NEW d \in Devices, NEW i \in 1..Len(outbox'[d])
      PROVE  PutLists(d, i)'
  <2>1. outbox'[d] = outbox[d] /\ (applied'[d] = applied[d] \/ applied'[d] = 0)
    <3>1. outbox'[d] # <<>>
      OBVIOUS
    <3> QED
      BY <3>1
  <2>2. applied[d] \in Nat
    BY DEF TypeInv, TypeOK
  <2>3. PutLists(d, i) /\ (i <= applied'[d] => i <= applied[d])
    BY <2>1, <2>2 DEF SerialInv
  <2> QED
    BY <2>1, <2>3 DEF PutLists, In
<1> QED
  BY <1>1, <1>2, <1>3 DEF SerialInv

LEMMA SerialNext == Serial /\ TypeInv /\ OnceInv /\ SerialInv /\ [Next]_vars => SerialInv'
<1> SUFFICES ASSUME Serial, TypeInv, OnceInv, SerialInv, [Next]_vars
             PROVE  SerialInv'
  OBVIOUS
<1>1. ASSUME NEW s \in Attempts,
             AuthAnswers(s) \/ AuthCompletes(s) \/ NameArrives(s) \/ Converse(s)
      PROVE  SerialInv'
  <2>1. UNCHANGED <<users, outbox, applied, ins>>
    BY <1>1 DEF AuthAnswers, AuthGrants, AuthDenies, AuthCompletes,
                GoogleCompletes, PasswordCompletes, NameArrives, Converse,
                server, chains
  <2> QED
    BY <2>1, SerialOthers
<1>2. ASSUME NEW d \in Devices,
             Logout(d) \/ \E to \in {"main", "profile"} : Navigate(d, to)
      PROVE  SerialInv'
  <2>1. UNCHANGED <<users, outbox, applied, ins>>
    BY <1>2 DEF Logout, Navigate, server, chains
  <2> QED
    BY <2>1, SerialOthers
<1>3. ASSUME NEW d \in Devices, Reconnects(d) PROVE SerialInv'
  <2>1. /\ applied' = [applied EXCEPT ![d] = 0]
        /\ UNCHANGED <<users, outbox, ins>>
        /\ applied \in [Devices -> Nat]
    BY <1>3 DEF Reconnects, chains, TypeInv, TypeOK
  <2> QED
    BY <2>1, SerialOthers
<1>4. ASSUME NEW d \in Devices, Restart(d) PROVE SerialInv'
  <2>1. /\ outbox' = [outbox EXCEPT ![d] = <<>>]
        /\ applied' = [applied EXCEPT ![d] = 0]
        /\ outbox \in [Devices -> Seq(Puts)]
        /\ applied \in [Devices -> Nat]
        /\ UNCHANGED users
        /\ \A t \in Attempts : ins'[t] = ins[t] \/ ins'[t] = "gone"
    BY <1>4 DEF Restart, TypeInv, TypeOK
  <2> QED
    BY <2>1, SerialOthers
<1>5. CASE UNCHANGED vars
  <2>1. UNCHANGED <<users, outbox, applied, ins>>
    BY <1>5 DEF vars, server, chains
  <2> QED
    BY <2>1, SerialOthers
<1> QED
  BY <1>1, <1>2, <1>3, <1>4, <1>5, SerialTaps, SerialArrives, SerialAnswers, SerialServer
  DEF Next

LEMMA SerialAlways ==
    ASSUME Serial
    PROVE  Spec => [](TypeInv /\ OnceInv /\ SerialInv)
<1>1. Init => SerialInv
  BY DEF Init, SerialInv, Waiting
<1> QED
  BY <1>1, SerialNext, OnceAlways, PTL DEF Spec

\* For any accounts, devices, attempts and faults: where sign-ins do not
\* overlap, an account whose insertion was acknowledged can be found. What other
\* attempts put, repeat or leave undone does not take its entry away.
THEOREM InsertedStays == Spec => []InsertedIsListed
<1>1. CASE Serial
  <2>1. TypeInv /\ SerialInv => InsertedIsListed
    <3> SUFFICES ASSUME TypeInv, SerialInv PROVE InsertedIsListed
      OBVIOUS
    <3>1. users \in Seq(Attempts)
      BY DEF TypeInv, TypeOK
    <3> QED
      BY <3>1 DEF SerialInv, In, InsertedIsListed
  <2> QED
    BY <1>1, <2>1, SerialAlways, PTL
<1>2. CASE ~Serial
  <2>1. InsertedIsListed
    BY <1>2 DEF InsertedIsListed
  <2> QED
    BY <2>1, PTL
<1> QED
  BY <1>1, <1>2

\* Only the server's storing changes the user collection.
LEMMA UsersChange ==
    [Next]_vars => \/ UNCHANGED users
                   \/ \E d \in Devices : ServerApplies(d)
<1> SUFFICES ASSUME [Next]_vars, ~\E d \in Devices : ServerApplies(d)
             PROVE  UNCHANGED users
  OBVIOUS
<1>1. ASSUME NEW s \in Attempts, Taps(s) \/ Arrives(s) PROVE UNCHANGED users
  BY <1>1 DEF Taps, Arrives, GoogleSignIn, PasswordSignIn, ExistsArrives,
              UsersArrive, server
<1>2. ASSUME NEW s \in Attempts,
             AuthAnswers(s) \/ AuthCompletes(s) \/ NameArrives(s) \/ Converse(s)
      PROVE  UNCHANGED users
  BY <1>2 DEF AuthAnswers, AuthGrants, AuthDenies, AuthCompletes,
              GoogleCompletes, PasswordCompletes, NameArrives, Converse, server
<1>3. ASSUME NEW d \in Devices,
             Completed(d) \/ Refused(d) \/ Reconnects(d) \/ Restart(d)
      PROVE  UNCHANGED users
  BY <1>3 DEF Completed, Refused, Reconnects, Restart
<1>4. ASSUME NEW d \in Devices,
             Logout(d) \/ \E to \in {"main", "profile"} : Navigate(d, to)
      PROVE  UNCHANGED users
  BY <1>4 DEF Logout, Navigate, server
<1>5. CASE UNCHANGED vars
  BY <1>5 DEF vars, server
<1> QED
  BY <1>1, <1>2, <1>3, <1>4, <1>5 DEF Next

\* Storing a put adds the entry of its insertion or nothing.
LEMMA EntryAdded ==
    ASSUME TypeInv, OnceInv, SerialInv, NEW d \in Devices, ServerApplies(d)
    PROVE  [Directory!Next]_users
<1>1. /\ outbox[d] \in Seq(Puts) /\ users \in Seq(Attempts)
      /\ applied[d] + 1 \in 1..Len(outbox[d])
  BY DEF TypeInv, TypeOK, ServerApplies
<1>2. PICK p \in Puts : p = outbox[d][applied[d] + 1]
  BY <1>1
<1>3. p.by \in Attempts
  BY DEF Puts
<1>4. UNCHANGED users \/ (p.to = "users" /\ users' = p.array)
  BY <1>2 DEF ServerApplies
<1>5. CASE p.to = "users" /\ users' = p.array /\ p.array = Append(users, p.by)
  <2>1. Listed(p.array)
    <3>1. Waits(p)
      BY <1>1, <1>2 DEF OnceInv, QueueOf
    <3> QED
      BY <1>5, <3>1 DEF Waits
  <2>2. /\ Len(users) \in Nat /\ Len(p.array) = Len(users) + 1
        /\ p.array[Len(users) + 1] = p.by
        /\ \A i \in 1..Len(users) : p.array[i] = users[i]
        /\ DOMAIN users = 1..Len(users)
    BY <1>1, <1>3, <1>5, AppendProperties, LenProperties
  <2>3. ASSUME NEW i \in 1..Len(users) PROVE users[i] # p.by
    <3>1. /\ i \in 1..Len(users) + 1 /\ Len(users) + 1 \in 1..Len(users) + 1
          /\ i # Len(users) + 1
      BY <2>2
    <3> QED
      BY <2>1, <2>2, <3>1 DEF Listed
  <2>4. ~Directory!Stored(p.by)
    BY <2>2, <2>3 DEF Directory!Stored
  <2>5. Directory!Add("users", p.by)
    BY <1>5, <2>4 DEF Directory!Add
  <2> QED
    BY <1>3, <2>5 DEF Directory!Next
<1>6. p.to = "users" => p.array \in {users, Append(users, p.by)}
  <2>1. PutLists(d, applied[d] + 1)
    BY <1>1 DEF SerialInv
  <2> QED
    BY <1>2, <2>1 DEF PutLists
<1> QED
  BY <1>4, <1>5, <1>6

\* For any accounts, devices, attempts and faults: sign-ins that do not overlap
\* treat "users" as a log.  Every step adds one new entry at its end or leaves
\* it alone, though a put replaces the whole array and may be applied twice.
THEOREM DirectoryImplemented ==
    ASSUME Serial
    PROVE  Spec => ImplementsDirectory
<1>1. Init => Directory!Init
  BY DEF Init, Directory!Init
<1>2. TypeInv /\ OnceInv /\ SerialInv /\ [Next]_vars
          => [Directory!Next]_[c \in {"users"} |-> users]
  <2> SUFFICES ASSUME TypeInv, OnceInv, SerialInv, [Next]_vars
               PROVE  [Directory!Next]_users
    OBVIOUS
  <2> QED
    BY UsersChange, EntryAdded
<1> QED
  BY <1>1, <1>2, SerialAlways, PTL DEF Spec, ImplementsDirectory, Directory!Spec
=============================================================================

---------------------------- MODULE SessionProofs ----------------------------
(***************************************************************************)
(* Who a device is signed in as, for any accounts, devices and sign-ins:   *)
(* the screens find an "email", and on the devices of patient users it is  *)
(* the one Auth has.                                                       *)
(***************************************************************************)
EXTENDS AccountsProofs

\* What a step does to the insertions is not part of this
NoSignIn == UNCHANGED <<who, dev, how, auth, defaults, screens>>

LEMMA InsertionSteps ==
    /\ \A s \in Attempts : Arrives(s) \/ Converse(s) => NoSignIn
    /\ \A d \in Devices :
           ServerApplies(d) \/ Completed(d) \/ Refused(d) \/ Reconnects(d) => NoSignIn
<1>1. \A s \in Attempts : Arrives(s) \/ Converse(s) => NoSignIn
  BY DEF Arrives, ExistsArrives, UsersArrive, Converse, chains, NoSignIn
<1>2. ASSUME NEW d \in Devices,
             ServerApplies(d) \/ Completed(d) \/ Refused(d) \/ Reconnects(d)
      PROVE  NoSignIn
  BY <1>2 DEF ServerApplies, Completed, Refused, Reconnects, chains, NoSignIn
<1> QED
  BY <1>1, <1>2

----------------------------------------------------------------------------
(* Whose attempts Auth is asked about                                      *)

Signing == \A s \in Attempts : auth[s] \in Pending => who[s] \in Accounts

\* What Auth answers, the screens and the end of the app never make an attempt
\* of another account, or of another device
LEMMA SigningFrame ==
    ASSUME Signing, who' = who,
           \A s \in Attempts : auth'[s] \in Pending => auth[s] \in Pending
    PROVE  Signing'
BY DEF Signing

LEMMA SigningStep ==
    ASSUME TypeOK, Signing, [Next]_vars
    PROVE  Signing'
<1>0. /\ who \in [Attempts -> Accounts \cup {None}]
      /\ auth \in [Attempts -> Pending \cup {"none", "over"}]
  BY DEF TypeOK
<1>1. ASSUME NEW s \in Attempts, Taps(s)
      PROVE  Signing'
  <2>1. PICK d \in Devices, a \in Accounts :
                 GoogleSignIn(s, d, a) \/ PasswordSignIn(s, d, a)
    BY <1>1 DEF Taps
  <2>2. who' = [who EXCEPT ![s] = a] /\ auth' = [auth EXCEPT ![s] = "asked"]
    BY <2>1 DEF GoogleSignIn, PasswordSignIn, Auth
  <2> QED
    BY <1>0, <2>2 DEF Signing
<1>2. ASSUME NEW s \in Attempts, AuthAnswers(s) \/ AuthCompletes(s) \/ NameArrives(s)
      PROVE  Signing'
  <2>1. /\ who' = who /\ auth[s] \in Pending
        /\ \E step \in Pending \cup {"over"} : auth' = [auth EXCEPT ![s] = step]
    BY <1>2 DEF AuthAnswers, AuthGrants, AuthDenies, AuthCompletes, GoogleCompletes,
                PasswordCompletes, NameArrives, Auth, Pending
  <2> QED
    BY <1>0, <2>1, SigningFrame
<1>3. ASSUME NEW d \in Devices, Restart(d)
      PROVE  Signing'
  <2>1. /\ who' = who
        /\ auth' = [s \in Attempts |->
                      IF dev[s] = d /\ auth[s] \in Pending THEN "over" ELSE auth[s]]
    BY <1>3 DEF Restart
  <2> QED
    BY <2>1, SigningFrame DEF Pending
<1>4. ASSUME NEW d \in Devices,
             Logout(d) \/ (\E to \in {"main", "profile"} : Navigate(d, to))
      PROVE  Signing'
  BY <1>4, SigningFrame DEF Logout, Navigate, chains
<1>5. CASE NoSignIn
  BY <1>5, SigningFrame DEF NoSignIn
<1>6. CASE UNCHANGED vars
  BY <1>6, SigningFrame DEF vars, chains
<1> QED
  BY <1>1, <1>2, <1>3, <1>4, <1>5, <1>6, InsertionSteps DEF Next

----------------------------------------------------------------------------
(* There is an "email"                                                     *)

\* A Google sign-in has set it before anything is asked, and nothing takes it
\* away
EmailOf(d) ==
    /\ ~login[d] => email[d] # None
    /\ \A s \in Attempts : how[s] = "google" /\ dev[s] = d => email[d] # None

EmailInv == \A d \in Devices \ Restarting : EmailOf(d)

LEMMA EmailFrame ==
    ASSUME EmailInv, NEW d \in Devices \ Restarting,
           login'[d] \/ login'[d] = login[d],
           email'[d] = email[d], how' = how, dev' = dev
    PROVE  EmailOf(d)'
<1>1. EmailOf(d)
  BY DEF EmailInv
<1> QED
  BY <1>1, Zenon DEF EmailOf

LEMMA EmailTaps ==
    ASSUME TypeOK, EmailInv, NEW d \in Devices \ Restarting,
           NEW s \in Attempts, NEW e \in Devices, NEW a \in Accounts,
           GoogleSignIn(s, e, a) \/ PasswordSignIn(s, e, a)
    PROVE  EmailOf(d)'
<1>0. /\ email \in [Devices -> Accounts \cup {None}]
      /\ dev \in [Attempts -> Devices \cup {None}]
      /\ how \in [Attempts -> {"none", "google", "password"}]
      /\ EmailOf(d)
  BY DEF TypeOK, EmailInv
<1>1. CASE GoogleSignIn(s, e, a)
  <2>1. /\ email' = [email EXCEPT ![e] = a] /\ login' = login
        /\ dev' = [dev EXCEPT ![s] = e] /\ how' = [how EXCEPT ![s] = "google"]
    BY <1>1 DEF GoogleSignIn, screens
  <2>2. CASE e = d
    <3>1. email'[d] # None
      BY <1>0, <2>1, <2>2, AccountConstants
    <3> QED
      BY <3>1 DEF EmailOf
  <2>3. CASE e # d
    <3>1. email'[d] = email[d]
      BY <1>0, <2>1, <2>3
    <3>2. dev'[s] # d
      BY <1>0, <2>1, <2>3
    <3>3. \A t \in Attempts : t # s => dev'[t] = dev[t] /\ how'[t] = how[t]
      BY <1>0, <2>1
    <3> QED
      BY <1>0, <2>1, <3>1, <3>2, <3>3 DEF EmailOf
  <2> QED
    BY <2>2, <2>3
<1>2. CASE PasswordSignIn(s, e, a)
  <2>1. /\ email' = email /\ login' = login
        /\ dev' = [dev EXCEPT ![s] = e] /\ how' = [how EXCEPT ![s] = "password"]
    BY <1>2 DEF PasswordSignIn, defaults
  <2>2. \A t \in Attempts : how'[t] = "google" => dev'[t] = dev[t] /\ how'[t] = how[t]
    BY <1>0, <2>1
  <2> QED
    BY <1>0, <2>1, <2>2 DEF EmailOf
<1> QED
  BY <1>1, <1>2

LEMMA EmailCompletes ==
    ASSUME TypeOK, Signing, EmailInv, NEW d \in Devices \ Restarting,
           NEW s \in Attempts, AuthCompletes(s)
    PROVE  EmailOf(d)'
<1>0. /\ email \in [Devices -> Accounts \cup {None}]
      /\ login \in [Devices -> BOOLEAN]
      /\ EmailOf(d)
  BY DEF TypeOK, EmailInv
<1>1. how' = how /\ dev' = dev
  BY DEF AuthCompletes, GoogleCompletes, PasswordCompletes
<1>2. CASE dev[s] # d
  <2>1. login'[d] = login[d] /\ email'[d] = email[d]
    BY <1>0, <1>2
    DEF AuthCompletes, GoogleCompletes, PasswordCompletes, Dismiss, screens, defaults
  <2> QED
    BY <1>1, <2>1, EmailFrame
<1>3. CASE dev[s] = d /\ GoogleCompletes(s)
  <2>1. how[s] = "google" /\ email' = email
    BY <1>3 DEF GoogleCompletes, defaults
  <2>2. email'[d] # None
    BY <1>0, <1>3, <2>1 DEF EmailOf
  <2> QED
    BY <2>2 DEF EmailOf
<1>4. CASE dev[s] = d /\ PasswordCompletes(s) /\ alive[s]
  <2>1. email' = [email EXCEPT ![d] = who[s]] /\ who[s] \in Accounts
    BY <1>4 DEF PasswordCompletes, Signing, Pending
  <2>2. email'[d] # None
    BY <1>0, <2>1, AccountConstants
  <2> QED
    BY <2>2 DEF EmailOf
<1>5. CASE PasswordCompletes(s) /\ ~alive[s]
  <2>1. email' = email /\ login' = login
    BY <1>5 DEF PasswordCompletes, screens
  <2> QED
    BY <1>1, <2>1, EmailFrame
<1> QED
  BY <1>2, <1>3, <1>4, <1>5 DEF AuthCompletes

\* The screens' own steps: the login screen comes, or all is as it was
LEMMA ScreenSteps ==
    ASSUME TypeOK, NEW d \in Devices, NEW e \in Devices,
           Logout(e) \/ (\E to \in {"main", "profile"} : Navigate(e, to))
    PROVE  /\ UNCHANGED <<who, dev, how, auth, email>>
           /\ \/ login'[d] = login[d] /\ current'[d] = current[d]
              \/ login'[d] /\ ~login[d]
<1>0. /\ login \in [Devices -> BOOLEAN]
      /\ current \in [Devices -> Accounts \cup {None}]
  BY DEF TypeOK
<1>1. CASE Logout(e)
  BY <1>0, <1>1 DEF Logout, chains
<1>2. ASSUME NEW to \in {"main", "profile"}, Navigate(e, to)
      PROVE  /\ UNCHANGED <<who, dev, how, auth, email>>
             /\ \/ login'[d] = login[d] /\ current'[d] = current[d]
                \/ login'[d] /\ ~login[d]
  <2>1. /\ ~login[e]
        /\ login' = [login EXCEPT ![e] = to = "main" /\ current[e] = None]
        /\ UNCHANGED <<who, dev, how, auth, email, current>>
    BY <1>2 DEF Navigate, chains, defaults
  <2>2. CASE e = d
    <3>1. login'[d] = (to = "main" /\ current[d] = None)
      BY <1>0, <2>1, <2>2
    <3>2. login[d] = FALSE
      BY <1>0, <2>1, <2>2
    <3>3. CASE to = "main" /\ current[d] = None
      BY <2>1, <3>1, <3>2, <3>3
    <3>4. CASE ~(to = "main" /\ current[d] = None)
      BY <2>1, <3>1, <3>2, <3>4
    <3> QED
      BY <3>3, <3>4
  <2>3. CASE e # d
    BY <1>0, <2>1, <2>3
  <2> QED
    BY <2>2, <2>3
<1> QED
  BY <1>1, <1>2

LEMMA EmailStep ==
    ASSUME TypeOK, Signing, EmailInv, [Next]_vars
    PROVE  EmailInv'
<1> SUFFICES ASSUME NEW d \in Devices \ Restarting
             PROVE  EmailOf(d)'
  BY DEF EmailInv
<1>1. ASSUME NEW s \in Attempts, Taps(s)
      PROVE  EmailOf(d)'
  BY <1>1, EmailTaps DEF Taps
<1>2. ASSUME NEW s \in Attempts, AuthCompletes(s)
      PROVE  EmailOf(d)'
  BY <1>2, EmailCompletes
<1>3. ASSUME NEW s \in Attempts, AuthAnswers(s) \/ NameArrives(s)
      PROVE  EmailOf(d)'
  <2>1. UNCHANGED <<how, dev, email, login>>
    BY <1>3 DEF AuthAnswers, AuthGrants, AuthDenies, NameArrives, screens, defaults
  <2> QED
    BY <2>1, EmailFrame
<1>4. ASSUME NEW e \in Devices,
             Logout(e) \/ (\E to \in {"main", "profile"} : Navigate(e, to))
      PROVE  EmailOf(d)'
  BY <1>4, ScreenSteps, EmailFrame
<1>5. ASSUME NEW e \in Devices, Restart(e)
      PROVE  EmailOf(d)'
  <2>1. login'[d] = login[d] /\ UNCHANGED <<how, dev, email>>
    <3>1. e # d /\ login' = [login EXCEPT ![e] = current[e] = None]
      BY <1>5 DEF Restart
    <3> QED
      BY <1>5, <3>1 DEF Restart, defaults, TypeOK
  <2> QED
    BY <2>1, EmailFrame
<1>6. CASE NoSignIn
  BY <1>6, EmailFrame DEF NoSignIn, defaults, screens
<1>7. CASE UNCHANGED vars
  BY <1>7, EmailFrame DEF vars, chains, defaults, screens
<1> QED
  BY <1>1, <1>2, <1>3, <1>4, <1>5, <1>6, <1>7, InsertionSteps DEF Next

LEMMA SigningAlways == Spec => [](TypeOK /\ Signing)
<1>1. Init => Signing
  BY DEF Init, Signing, Pending
<1> QED
  BY <1>1, SigningStep, TypeCorrect, PTL DEF Spec

\* "self sender is nil, email should be catched" (ChatViewController.swift:
\* 326), for any accounts, devices and attempts: whoever dismisses the login
\* screen, one of the blocks has set "email" on the device.
THEOREM EmailIsThere == Spec => []EmailCatched
<1>1. Init => EmailInv
  BY DEF Init, EmailInv, EmailOf
<1>2. EmailInv => EmailCatched
  BY DEF EmailInv, EmailOf, EmailCatched
<1> QED
  BY <1>1, <1>2, SigningAlways, EmailStep, PTL DEF Spec

----------------------------------------------------------------------------
(* It is the one that Auth has                                             *)

Asks(s) == auth[s] \in {"asked", "granted"}

\* A patient user has one attempt with Auth, the login screen stays until Auth
\* has a user, and "email" is by then that of the attempt
SessionOf(d) ==
    /\ ~login[d] => current[d] # None /\ email[d] = current[d]
    /\ \A s, t \in Attempts :
           /\ dev[s] = d /\ auth[s] \in Pending
           /\ dev[t] = d /\ auth[t] \in Pending
           => s = t
    /\ \A s \in Attempts :
           dev[s] = d /\ Asks(s) =>
               /\ login[d]
               /\ auth[s] = "granted" => current[d] = who[s]
               /\ how[s] = "google" => email[d] = who[s]

SessionInv == \A d \in Patient \ Restarting : SessionOf(d)

LEMMA SessionFrame ==
    ASSUME SessionInv, NEW d \in Patient \ Restarting,
           login'[d] = login[d], current'[d] = current[d], email'[d] = email[d],
           \A s \in Attempts :
               dev'[s] = d /\ auth'[s] \in Pending =>
                   /\ dev[s] = d /\ who'[s] = who[s] /\ how'[s] = how[s]
                   /\ auth'[s] = auth[s]
    PROVE  SessionOf(d)'
<1>1. SessionOf(d)
  BY DEF SessionInv
<1>2. ~login'[d] => current'[d] # None /\ email'[d] = current'[d]
  BY <1>1, Zenon DEF SessionOf
<1>3. \A s, t \in Attempts :
          /\ dev'[s] = d /\ auth'[s] \in Pending
          /\ dev'[t] = d /\ auth'[t] \in Pending
          => s = t
  BY <1>1 DEF SessionOf
<1>4. ASSUME NEW s \in Attempts, dev'[s] = d, Asks(s)'
      PROVE  /\ login'[d]
             /\ auth'[s] = "granted" => current'[d] = who'[s]
             /\ how'[s] = "google" => email'[d] = who'[s]
  <2>1. /\ auth'[s] \in Pending /\ auth'[s] = auth[s] /\ dev[s] = d /\ Asks(s)
        /\ who'[s] = who[s] /\ how'[s] = how[s]
    BY <1>4 DEF Asks, Pending
  <2>2. /\ login[d]
        /\ auth[s] = "granted" => current[d] = who[s]
        /\ how[s] = "google" => email[d] = who[s]
    BY <1>1, <2>1 DEF SessionOf
  <2>3. login'[d]
    BY <2>2, Zenon
  <2> QED
    BY <2>1, <2>2, <2>3
<1> QED
  BY <1>2, <1>3, <1>4 DEF SessionOf

\* A tap of a patient user: no attempt of the device is with Auth, and this
\* one is now
LEMMA SessionTaps ==
    ASSUME TypeOK, Signing, SessionInv, NEW d \in Patient \ Restarting,
           NEW s \in Attempts, NEW e \in Devices, NEW a \in Accounts,
           GoogleSignIn(s, e, a) \/ PasswordSignIn(s, e, a)
    PROVE  SessionOf(d)'
<1>0. /\ email \in [Devices -> Accounts \cup {None}]
      /\ dev \in [Attempts -> Devices \cup {None}]
      /\ who \in [Attempts -> Accounts \cup {None}]
      /\ how \in [Attempts -> {"none", "google", "password"}]
      /\ auth \in [Attempts -> Pending \cup {"none", "over"}]
      /\ d \in Devices
      /\ SessionOf(d)
  BY AccountConstants DEF TypeOK, SessionInv
<1>1. /\ who[s] = None /\ login[e]
      /\ e \in Patient => \A t \in Attempts : dev[t] = e => auth[t] \notin Pending
      /\ login' = login /\ current' = current
      /\ who' = [who EXCEPT ![s] = a] /\ dev' = [dev EXCEPT ![s] = e]
      /\ auth' = [auth EXCEPT ![s] = "asked"]
  BY DEF GoogleSignIn, PasswordSignIn, MayTap, Auth, screens, defaults
<1>2. /\ GoogleSignIn(s, e, a) =>
            email' = [email EXCEPT ![e] = a] /\ how' = [how EXCEPT ![s] = "google"]
      /\ PasswordSignIn(s, e, a) =>
            email' = email /\ how' = [how EXCEPT ![s] = "password"]
  BY DEF GoogleSignIn, PasswordSignIn, defaults
<1>3. \A t \in Attempts : t # s =>
          /\ who'[t] = who[t] /\ dev'[t] = dev[t]
          /\ auth'[t] = auth[t] /\ how'[t] = how[t]
  BY <1>0, <1>1, <1>2
<1>4. who'[s] = a /\ dev'[s] = e /\ auth'[s] = "asked"
  BY <1>0, <1>1
<1>5. CASE e = d
  <2>1. \A t \in Attempts : dev'[t] = d /\ auth'[t] \in Pending => t = s
    BY <1>1, <1>3, <1>5
  <2>2. how'[s] = "google" => email'[d] = a
    BY <1>0, <1>2, <1>5
  <2>3. login'[d]
    BY <1>1, <1>5
  <2>4. \A t \in Attempts : dev'[t] = d /\ Asks(t)' => t = s
    BY <2>1 DEF Asks, Pending
  <2> QED
    BY <1>4, <2>1, <2>2, <2>3, <2>4 DEF SessionOf
<1>6. CASE e # d
  <2>1. email'[d] = email[d]
    BY <1>0, <1>2, <1>6
  <2>2. \A t \in Attempts : dev'[t] = d => t # s
    BY <1>4, <1>6
  <2> QED
    BY <1>1, <1>3, <2>1, <2>2, SessionFrame
<1> QED
  BY <1>5, <1>6

\* Auth has the user of the attempt
LEMMA SessionGrants ==
    ASSUME TypeOK, Signing, SessionInv, NEW d \in Patient \ Restarting,
           NEW s \in Attempts, AuthGrants(s)
    PROVE  SessionOf(d)'
<1>0. /\ current \in [Devices -> Accounts \cup {None}]
      /\ auth \in [Attempts -> Pending \cup {"none", "over"}]
      /\ d \in Devices
      /\ SessionOf(d)
  BY AccountConstants DEF TypeOK, SessionInv
<1>1. /\ auth[s] = "asked"
      /\ auth' = [auth EXCEPT ![s] = "granted"]
      /\ current' = [current EXCEPT ![dev[s]] = who[s]]
      /\ UNCHANGED <<who, dev, how, email, login>>
  BY DEF AuthGrants, Auth, screens
<1>2. \A t \in Attempts : t # s => auth'[t] = auth[t]
  BY <1>0, <1>1
<1>3. auth[s] \in Pending /\ Asks(s) /\ auth'[s] = "granted"
  BY <1>0, <1>1 DEF Pending, Asks
<1>4. CASE dev[s] = d
  <2>1. current'[d] = who[s]
    BY <1>0, <1>1, <1>4
  <2>2. \A t \in Attempts : dev[t] = d /\ auth'[t] \in Pending => t = s
    BY <1>0, <1>2, <1>3, <1>4 DEF SessionOf
  <2>3. \A t \in Attempts : dev[t] = d /\ Asks(t)' => t = s
    BY <2>2 DEF Asks, Pending
  <2>4. login[d] /\ (how[s] = "google" => email[d] = who[s])
    BY <1>0, <1>3, <1>4 DEF SessionOf
  <2>5. login'[d]
    BY <1>1, <2>4
  <2> QED
    BY <1>1, <1>3, <2>1, <2>2, <2>3, <2>4, <2>5 DEF SessionOf
<1>5. CASE dev[s] # d
  <2>1. current'[d] = current[d]
    BY <1>0, <1>1, <1>5
  <2> QED
    BY <1>1, <1>2, <1>5, <2>1, SessionFrame
<1> QED
  BY <1>4, <1>5

\* Auth's answer has been worked off: the login screen of the device goes, if
\* it goes, with the account of the attempt in both places
LEMMA SessionCompletes ==
    ASSUME TypeOK, Signing, SessionInv, NEW d \in Patient \ Restarting,
           NEW s \in Attempts, AuthCompletes(s)
    PROVE  SessionOf(d)'
<1>0. /\ email \in [Devices -> Accounts \cup {None}]
      /\ login \in [Devices -> BOOLEAN]
      /\ auth \in [Attempts -> Pending \cup {"none", "over"}]
      /\ d \in Devices
      /\ SessionOf(d)
  BY AccountConstants DEF TypeOK, SessionInv
<1>1. /\ auth[s] = "granted" /\ UNCHANGED <<who, dev, how, current>>
      /\ auth' = [auth EXCEPT ![s] = "over"] \/ auth' = [auth EXCEPT ![s] = "nameRead"]
  BY DEF AuthCompletes, GoogleCompletes, PasswordCompletes, Auth, defaults
<1>2. \A t \in Attempts : t # s => auth'[t] = auth[t]
  BY <1>0, <1>1
<1>3. auth[s] \in Pending /\ Asks(s) /\ ~Asks(s)'
  BY <1>0, <1>1 DEF Pending, Asks
<1>4. who[s] \in Accounts
  BY <1>3 DEF Signing
<1>5. CASE dev[s] # d
  <2>1. login'[d] = login[d] /\ email'[d] = email[d]
    BY <1>0, <1>5
    DEF AuthCompletes, GoogleCompletes, PasswordCompletes, Dismiss, screens, defaults
  <2> QED
    BY <1>1, <1>2, <1>5, <2>1, SessionFrame
<1>6. CASE dev[s] = d
  <2>1. /\ login[d] /\ current[d] = who[s]
        /\ how[s] = "google" => email[d] = who[s]
    BY <1>0, <1>1, <1>3, <1>6 DEF SessionOf
  <2>2. current'[d] # None /\ current'[d] = who[s]
    BY <1>1, <1>4, <2>1, AccountConstants
  <2>3. \A t \in Attempts : dev[t] = d /\ auth'[t] \in Pending => t = s
    BY <1>0, <1>2, <1>3, <1>6 DEF SessionOf
  <2>4. \A t \in Attempts : dev[t] = d => ~Asks(t)'
    BY <1>3, <2>3 DEF Asks, Pending
  <2>5. CASE GoogleCompletes(s)
    <3>1. email'[d] = current'[d]
      BY <2>1, <2>2, <2>5 DEF GoogleCompletes, defaults
    <3> QED
      BY <1>1, <2>2, <2>3, <2>4, <3>1 DEF SessionOf
  <2>6. CASE PasswordCompletes(s) /\ alive[s]
    <3>1. email' = [email EXCEPT ![d] = who[s]]
      BY <1>6, <2>6 DEF PasswordCompletes
    <3>2. email'[d] = current'[d]
      BY <1>0, <2>2, <3>1
    <3> QED
      BY <1>1, <2>2, <2>3, <2>4, <3>2 DEF SessionOf
  <2>7. CASE PasswordCompletes(s) /\ ~alive[s]
    <3>1. login' = login
      BY <2>7 DEF PasswordCompletes, screens
    <3>2. login'[d]
      BY <2>1, <3>1
    <3> QED
      BY <1>1, <2>3, <2>4, <3>2 DEF SessionOf
  <2> QED
    BY <2>5, <2>6, <2>7 DEF AuthCompletes
<1> QED
  BY <1>5, <1>6

\* The app of another device ends
LEMMA SessionRestarts ==
    ASSUME TypeOK, SessionInv, NEW d \in Patient \ Restarting,
           NEW e \in Devices, Restart(e)
    PROVE  SessionOf(d)'
<1>0. login \in [Devices -> BOOLEAN] /\ d \in Devices
  BY AccountConstants DEF TypeOK
<1>1. /\ e # d /\ login' = [login EXCEPT ![e] = current[e] = None]
      /\ UNCHANGED <<who, dev, how, current, email>>
      /\ auth' = [s \in Attempts |->
                    IF dev[s] = e /\ auth[s] \in Pending THEN "over" ELSE auth[s]]
  BY DEF Restart, defaults
<1>2. login'[d] = login[d]
  BY <1>0, <1>1
<1>3. \A s \in Attempts : dev[s] = d => auth'[s] = auth[s]
  BY <1>1
<1> QED
  BY <1>1, <1>2, <1>3, SessionFrame

\* The user goes about, or logs out: no attempt is with Auth then
LEMMA SessionScreens ==
    ASSUME TypeOK, SessionInv, NEW d \in Patient \ Restarting, NEW e \in Devices,
           Logout(e) \/ (\E to \in {"main", "profile"} : Navigate(e, to))
    PROVE  SessionOf(d)'
<1>0. SessionOf(d) /\ d \in Devices
  BY AccountConstants DEF SessionInv
<1>1. /\ UNCHANGED <<who, dev, how, auth, email>>
      /\ \/ login'[d] = login[d] /\ current'[d] = current[d]
         \/ login'[d] /\ ~login[d]
  BY <1>0, ScreenSteps
<1>2. CASE login'[d] = login[d] /\ current'[d] = current[d]
  BY <1>1, <1>2, SessionFrame
<1>3. CASE login'[d] /\ ~login[d]
  <2>1. \A s \in Attempts : dev'[s] = d => ~Asks(s)'
    BY <1>0, <1>1, <1>3 DEF SessionOf, Asks
  <2> QED
    BY <1>0, <1>1, <1>3, <2>1 DEF SessionOf
<1> QED
  BY <1>1, <1>2, <1>3

LEMMA SessionStep ==
    ASSUME TypeOK, Signing, SessionInv, [Next]_vars
    PROVE  SessionInv'
<1> SUFFICES ASSUME NEW d \in Patient \ Restarting
             PROVE  SessionOf(d)'
  BY DEF SessionInv
<1>1. ASSUME NEW s \in Attempts, Taps(s)
      PROVE  SessionOf(d)'
  BY <1>1, SessionTaps DEF Taps
<1>2. ASSUME NEW s \in Attempts, AuthGrants(s)
      PROVE  SessionOf(d)'
  BY <1>2, SessionGrants
<1>3. ASSUME NEW s \in Attempts, AuthCompletes(s)
      PROVE  SessionOf(d)'
  BY <1>3, SessionCompletes
<1>4. ASSUME NEW s \in Attempts, AuthDenies(s) \/ NameArrives(s)
      PROVE  SessionOf(d)'
  <2>1. /\ UNCHANGED <<who, dev, how, current, email, login>>
        /\ auth' = [auth EXCEPT ![s] = "over"]
    BY <1>4 DEF AuthDenies, NameArrives, Auth, screens, defaults
  <2>2. \A t \in Attempts : auth'[t] = auth[t] \/ auth'[t] \notin Pending
    BY <2>1 DEF TypeOK, Pending
  <2> QED
    BY <2>1, <2>2, SessionFrame
<1>5. ASSUME NEW e \in Devices,
             Logout(e) \/ (\E to \in {"main", "profile"} : Navigate(e, to))
      PROVE  SessionOf(d)'
  BY <1>5, SessionScreens
<1>6. ASSUME NEW e \in Devices, Restart(e)
      PROVE  SessionOf(d)'
  BY <1>6, SessionRestarts
<1>7. CASE NoSignIn
  BY <1>7, SessionFrame DEF NoSignIn, defaults, screens
<1>8. CASE UNCHANGED vars
  BY <1>8, SessionFrame DEF vars, chains, defaults, screens
<1> QED
  BY <1>1, <1>2, <1>3, <1>4, <1>5, <1>6, <1>7, <1>8, InsertionSteps
  DEF Next, AuthAnswers

\* For any accounts, devices and attempts, over any number of logouts: a patient
\* user's screens act for the account that Auth has.  With a second attempt
\* before the first is over, "email" may be that of the one and Auth's user that
\* of the other (AppDelegate.swift:45).
THEOREM SessionsMatch == Spec => []SessionMatches
<1>1. Init => SessionInv
  <2> SUFFICES ASSUME Init, NEW d \in Patient \ Restarting
               PROVE  SessionOf(d)
    BY DEF SessionInv
  <2>1. login[d]
    BY AccountConstants DEF Init
  <2>2. \A s \in Attempts : auth[s] = "none"
    BY DEF Init
  <2> QED
    BY <2>1, <2>2 DEF SessionOf, Pending, Asks
<1>2. SessionInv => SessionMatches
  BY DEF SessionInv, SessionOf, SessionMatches
<1> QED
  BY <1>1, <1>2, SigningAlways, SessionStep, PTL DEF Spec
=============================================================================

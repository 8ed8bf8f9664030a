------------------------------ MODULE ChannelProofs ------------------------------
(***************************************************************************)
(* Theorems of the composition of the channel, the conversations, the      *)
(* assistant and the batches (MCChannels): its types, its invariants and   *)
(* its action properties hold for every value of the constants.  A part    *)
(* has an inductive invariant, named after it; the last section puts them  *)
(* together.                                                               *)
(***************************************************************************)
EXTENDS MCChannels, TLAPS, FiniteSetTheorems, SequenceTheorems, WellFoundedInduction

\* The part that moves is chosen at the start.
LEMMA PartStays == [Next]_vars => part' = part
BY DEF Next, vars

\* A step of the composition is a step of the component of its part, or leaves it alone.
LEMMA PartsStep ==
  [Next]_vars =>
    /\ part = "connections" => [Connections!Next]_(Connections!vars)
    /\ part = "signup" => [Signup!Next]_(Signup!vars)
    /\ part = "assets" => [Assets!Next]_(Assets!vars)
    /\ part = "popups" => [Popups!Next]_(Popups!vars)
    /\ part = "payloads" => [Payload!Next]_(Payload!vars)
    /\ part = "inbox" => [Inbox!Next]_(Inbox!vars)
    /\ part = "receipts" => [Receipts!Next]_(Receipts!vars)
    /\ part = "delivery" => [Delivery!Next]_(Delivery!vars)
    /\ part = "turns" => [Answers!Next]_(Answers!vars)
    /\ part = "quota" => [Quota!Next]_(Quota!vars)
    /\ part = "tagging" => [Tagging!Next]_(Tagging!vars)
    /\ part = "tags" => [OneTagging!Next]_(OneTagging!vars)
    /\ part = "screens" => [Screens!Next]_(Screens!vars)
    /\ part = "pages" => [Pages!Next]_(Pages!vars)
    /\ part = "rounds" => [Rounds!Next]_(Rounds!vars)
    /\ part = "answer" => [Retried!Next]_(Retried!vars)
    /\ part = "batches" => [Batches!Next]_(Batches!vars)
BY DEF Next, vars, linkVars, assetsVars, popupVars, payloadVars, inboxVars, deliveryVars,
   turnVars, crmVars, threadVars, pagesVars, runVars, batchVars,
   Connections!vars, Signup!vars, Assets!vars, Assets!world, Popups!vars, Payload!vars,
   Inbox!vars, Receipts!vars, Delivery!vars, Answers!vars, Quota!vars, Tagging!vars,
   OneTagging!vars, Screens!vars, Pages!vars, Rounds!vars, Retried!vars, Batches!vars

\* The state a part starts from is the one its component starts from.
LEMMA PartsStart ==
  Init =>
    /\ part = "connections" => Connections!Init
    /\ part = "signup" => Signup!Init
    /\ part = "assets" => Assets!Init
    /\ part = "popups" => Popups!Init
    /\ part = "payloads" => Payload!Init
    /\ part = "inbox" => Inbox!Init
    /\ part = "receipts" => Receipts!Init
    /\ part = "delivery" => Delivery!Init
    /\ part = "turns" => Answers!Init
    /\ part = "quota" => Quota!Init
    /\ part = "tagging" => Tagging!Init
    /\ part = "tags" => OneTagging!Init
    /\ part = "screens" => Screens!Init
    /\ part = "pages" => Pages!Init
    /\ part = "rounds" => Rounds!Init
    /\ part = "answer" => Retried!Init
    /\ part = "batches" => Batches!Init
BY DEF Init

------------------------------------------------------------------------------
\* A set of naturals that is not empty has a smallest element.
LEMMA Smallest ==
  ASSUME NEW S, S \subseteq Nat, S # {}
  PROVE  \E k \in S : \A j \in S : k <= j
<1>1. PICK k \in S : \A j \in S : ~ (<<j, k>> \in OpToRel(<, Nat))
  BY NatLessThanWellFounded, WFMin
<1>2. \A j \in S : ~ (j < k)
  BY <1>1 DEF OpToRel
<1> QED BY <1>2
\* A bounded set of naturals that is not empty has a largest element.
LEMMA Largest ==
  ASSUME NEW n \in Nat, NEW S, S \subseteq 1 .. n, S # {}
  PROVE  \E k \in S : \A j \in S : k >= j
<1> DEFINE Rest == {n - k : k \in S}
<1>0. \A k \in S : n - k \in Nat /\ k \in Int
  OBVIOUS
<1>1. Rest \subseteq Nat /\ Rest # {}
  BY <1>0
<1>2. PICK rest \in Rest : \A other \in Rest : rest <= other
  <2> HIDE DEF Rest
  <2> QED BY <1>1, Smallest
<1>3. PICK k \in S : rest = n - k
  BY <1>2
<1>4. \A j \in S : n - k <= n - j
  BY <1>2, <1>3
<1>5. \A j \in S : k >= j
  <2> HIDE DEF Rest
  <2> QED BY <1>4
<1> QED BY <1>5

------------------------------------------------------------------------------
(***************************************************************************)
(* The connections of a number.                                            *)
(***************************************************************************)

LinkRowsConnections == [status : Connections!Active \cup {"DISCONNECTED", "NONE"}, synced : 0 .. ConnectionClock]
LinkAttemptsConnections == [id : 0 .. ConnectionAttempts, live : BOOLEAN, code : LinkCodes \cup
    {Connections!NoCode},
                  status : {"NONE", "AWAITING_CODE", "PROCESSING", "SUCCEEDED", "FAILED"}]
LinkRequestsConnections == [pc : {"idle", "exchanging", "connected", "failed"}, attempt : 0 .. ConnectionAttempts,
                  code : LinkCodes \cup {Connections!NoCode}]
LinkSessionsConnections == [op : {"none", "test", "disconnect"}, number : LinkNumbers \cup {"none"}, read :
    LinkRowsConnections]
\* The types, row by row.
LinkShapeConnections ==
  /\ linkRow \in [LinkNumbers -> LinkRowsConnections] /\ pending \subseteq LinkNumbers /\
      linkClock \in 0 .. ConnectionClock
  /\ linkAttempt \in LinkAttemptsConnections
  /\ linkRequest \in [ConnectionSigners -> LinkRequestsConnections]
  /\ session \in [Requests -> LinkSessionsConnections]
  /\ linkAttempt.status # "NONE" => linkAttempt.id # 0
  /\ \A s \in Requests : session[s].op # "none" => session[s].number \in LinkNumbers

\* The types hold at the start.
LEMMA LinkStartConnections == Connections!Init => LinkShapeConnections
<1> SUFFICES ASSUME Connections!Init PROVE LinkShapeConnections
  OBVIOUS
<1>a. ConnectionClock \in Nat /\ ConnectionAttempts \in Nat
  BY Bounds DEF Connections!ConnectionAssumption
<1>1. [status |-> "NONE", synced |-> 0] \in LinkRowsConnections
  BY <1>a DEF LinkRowsConnections
<1>2. Connections!Free \in LinkRequestsConnections /\ Connections!Closed \in LinkSessionsConnections /\
        Connections!Closed.op = "none"
  BY <1>a, <1>1 DEF LinkRequestsConnections, LinkSessionsConnections, Connections!Free, Connections!Closed
<1>3. linkAttempt \in LinkAttemptsConnections /\ linkAttempt.status = "NONE"
  BY <1>a DEF Connections!Init, LinkAttemptsConnections
<1> QED BY <1>a, <1>1, <1>2, <1>3 DEF Connections!Init, LinkShapeConnections

\* The newest of some rows is one of them.
LEMMA LinkNewestConnections ==
  ASSUME LinkShapeConnections, NEW ns \in SUBSET LinkNumbers, ns # {} PROVE Connections!Newest(ns) \in ns
<1> DEFINE Ages == {ConnectionClock - linkRow[n].synced : n \in ns}
<1>1. \A n \in ns : ConnectionClock - linkRow[n].synced \in Nat /\ linkRow[n].synced \in Nat /\
        ConnectionClock \in Nat
  BY Bounds DEF LinkShapeConnections, LinkRowsConnections, Connections!ConnectionAssumption
<1>2. Ages \subseteq Nat /\ Ages # {}
  BY <1>1
<1>3. PICK age \in Ages : \A other \in Ages : age <= other
  <2> HIDE DEF Ages
  <2> QED BY <1>2, Smallest
<1>4. PICK n \in ns : age = ConnectionClock - linkRow[n].synced
  BY <1>3
<1>5. \A m \in ns : linkRow[n].synced >= linkRow[m].synced
  <2> SUFFICES ASSUME NEW m \in ns PROVE linkRow[n].synced >= linkRow[m].synced
    OBVIOUS
  <2>1. ConnectionClock - linkRow[n].synced <= ConnectionClock - linkRow[m].synced
    BY <1>3, <1>4
  <2>2. linkRow[n].synced \in Nat /\ linkRow[m].synced \in Nat /\ ConnectionClock \in Nat
    BY <1>1
  <2> HIDE DEF Ages
  <2> QED BY <2>1, <2>2
<1> QED BY <1>5 DEF Connections!Newest

\* The current row, when there is one, is of a number.
LEMMA LinkCurrentConnections ==
  ASSUME LinkShapeConnections, Connections!Current # "none" PROVE Connections!Current \in LinkNumbers
BY LinkNewestConnections DEF Connections!Current, Connections!ActiveRows

\* A connection saves rows.
LEMMA LinkSavesConnections ==
  ASSUME LinkShapeConnections, NEW n \in LinkNumbers, Connections!Saves(n)
  PROVE  linkRow' \in [LinkNumbers -> LinkRowsConnections] /\ pending' \subseteq LinkNumbers /\
      linkClock' \in 0 .. ConnectionClock
<1>a. ConnectionClock \in Nat /\ linkRow \in [LinkNumbers -> LinkRowsConnections] /\
        linkClock \in 0 .. ConnectionClock
  BY Bounds DEF Connections!ConnectionAssumption, LinkShapeConnections
<1>1. linkClock' = linkClock + 1 /\ linkClock' \in 0 .. ConnectionClock
  BY <1>a DEF Connections!Saves
<1>2. Connections!Connected(linkClock + 1) \in LinkRowsConnections
  BY <1>1 DEF Connections!Connected, LinkRowsConnections, Connections!Active
<1>3. \A m \in LinkNumbers : [linkRow[m] EXCEPT !.status = "DISCONNECTED"] \in LinkRowsConnections
  BY <1>a DEF LinkRowsConnections
<1> QED BY <1>a, <1>1, <1>2, <1>3 DEF Connections!Saves, LinkShapeConnections

\* Every step keeps the types.
LEMMA LinkTypesConnections == LinkShapeConnections /\ Connections!Next => LinkShapeConnections'
<1> SUFFICES ASSUME LinkShapeConnections, Connections!Next PROVE LinkShapeConnections'
  OBVIOUS
<1>a. /\ ConnectionClock \in Nat /\ ConnectionAttempts \in Nat
      /\ linkRow \in [LinkNumbers -> LinkRowsConnections] /\ pending \subseteq LinkNumbers /\
          linkClock \in 0 .. ConnectionClock
      /\ linkAttempt \in LinkAttemptsConnections /\ linkRequest \in [ConnectionSigners -> LinkRequestsConnections]
      /\ session \in [Requests -> LinkSessionsConnections] /\ linkAttempt.id \in 0 .. ConnectionAttempts
  BY Bounds DEF Connections!ConnectionAssumption, LinkShapeConnections, LinkAttemptsConnections
<1>f. Connections!Closed \in LinkSessionsConnections /\ Connections!Closed.op = "none"
  BY <1>a DEF LinkSessionsConnections, LinkRowsConnections, Connections!Closed
<1>1. ASSUME Connections!Starts \/ Connections!TimePasses \/ Connections!Cancels PROVE LinkShapeConnections'
  <2>1. linkAttempt' \in LinkAttemptsConnections /\ (linkAttempt'.status # "NONE" => linkAttempt'.id # 0)
    <3>1. CASE Connections!Starts
      <4>1. linkAttempt.id + 1 \in 0 .. ConnectionAttempts /\ linkAttempt.id + 1 # 0
        BY <1>a, <3>1 DEF Connections!Starts
      <4> QED BY <3>1, <4>1 DEF Connections!Starts, LinkAttemptsConnections
    <3>2. CASE Connections!TimePasses
      BY <1>a, <3>2 DEF Connections!TimePasses, LinkAttemptsConnections, LinkShapeConnections
    <3>3. CASE Connections!Cancels
      BY <1>a, <3>3 DEF Connections!Cancels, Connections!Cancellable, LinkAttemptsConnections, LinkShapeConnections
    <3> QED BY <1>1, <3>1, <3>2, <3>3
  <2>2. UNCHANGED <<linkRow, pending, linkClock, linkRequest, session>>
    BY <1>1 DEF Connections!Starts, Connections!TimePasses, Connections!Cancels
  <2> QED BY <2>1, <2>2 DEF LinkShapeConnections
<1>2. ASSUME NEW n \in LinkNumbers, Connections!Connects(n) \/ Connections!Schedules(n) PROVE LinkShapeConnections'
  BY <1>a, <1>2, LinkSavesConnections DEF Connections!Connects, Connections!Schedules, LinkShapeConnections
<1>3. ASSUME NEW r \in ConnectionSigners, NEW c \in LinkCodes, Connections!Claims(r, c) PROVE LinkShapeConnections'
  <2>1. linkAttempt' \in LinkAttemptsConnections /\ (linkAttempt'.status # "NONE" => linkAttempt'.id # 0)
    BY <1>a, <1>3 DEF Connections!Claims, Connections!Claimable, LinkAttemptsConnections, LinkShapeConnections
  <2>2. linkRequest' \in [ConnectionSigners -> LinkRequestsConnections]
    <3>1. [pc |-> "exchanging", attempt |-> linkAttempt.id, code |-> c] \in LinkRequestsConnections
      BY <1>a DEF LinkRequestsConnections
    <3> QED BY <1>a, <1>3, <3>1 DEF Connections!Claims
  <2> QED BY <1>3, <2>1, <2>2 DEF Connections!Claims, LinkShapeConnections
<1>4. ASSUME NEW r \in ConnectionSigners, NEW pc1 \in {"connected", "failed"},
        linkRequest' = [linkRequest EXCEPT ![r].pc = pc1]
      PROVE  linkRequest' \in [ConnectionSigners -> LinkRequestsConnections]
  BY <1>a, <1>4 DEF LinkRequestsConnections
<1>5. ASSUME NEW r \in ConnectionSigners, NEW n \in LinkNumbers, Connections!Completes(r, n)
        PROVE LinkShapeConnections'
  <2>1. linkAttempt' \in LinkAttemptsConnections /\ (linkAttempt'.status # "NONE" => linkAttempt'.id # 0)
    BY <1>a, <1>5 DEF Connections!Completes, Connections!Owned, LinkAttemptsConnections, LinkShapeConnections
  <2>2. linkRequest' \in [ConnectionSigners -> LinkRequestsConnections]
    BY <1>4, <1>5 DEF Connections!Completes
  <2> QED BY <1>5, <2>1, <2>2, LinkSavesConnections DEF Connections!Completes, LinkShapeConnections
<1>6. ASSUME NEW r \in ConnectionSigners, Connections!FailsSignup(r) PROVE LinkShapeConnections'
  <2>1. linkAttempt' \in LinkAttemptsConnections /\ (linkAttempt'.status # "NONE" => linkAttempt'.id # 0)
    BY <1>a, <1>6 DEF Connections!FailsSignup, LinkAttemptsConnections, LinkShapeConnections
  <2>2. linkRequest' \in [ConnectionSigners -> LinkRequestsConnections]
    BY <1>4, <1>6 DEF Connections!FailsSignup
  <2> QED BY <1>6, <2>1, <2>2 DEF Connections!FailsSignup, LinkShapeConnections
<1>7. ASSUME NEW s \in Requests, NEW op \in {"test", "disconnect"}, Connections!Opens(s, op)
        PROVE LinkShapeConnections'
  <2>1. Connections!Current \in LinkNumbers
    BY <1>7, LinkCurrentConnections DEF Connections!Opens
  <2>2. [op |-> op, number |-> Connections!Current,
          read |-> linkRow[Connections!Current]] \in LinkSessionsConnections
    BY <1>a, <2>1 DEF LinkSessionsConnections
  <2>3. session' = [session EXCEPT ![s] = [op |-> op, number |-> Connections!Current,
          read |-> linkRow[Connections!Current]]]
        /\ UNCHANGED <<linkRow, pending, linkClock, linkAttempt, linkRequest>>
    BY <1>7 DEF Connections!Opens
  <2> HIDE DEF Connections!Current
  <2> QED BY <1>a, <2>1, <2>2, <2>3 DEF LinkShapeConnections
<1>8. ASSUME NEW s \in Requests, Connections!Passes(s) \/ Connections!Disconnects(s) \/ Connections!Changed(s)
                            \/ \E st \in {"ACTION_REQUIRED", "ERROR"} : Connections!Refuses(s, st)
      PROVE LinkShapeConnections'
  <2>1. session' = [session EXCEPT ![s] = Connections!Closed] /\ UNCHANGED <<linkAttempt, linkRequest>>
    BY <1>8 DEF Connections!Passes, Connections!Disconnects, Connections!Changed, Connections!Refuses
  <2>2. linkClock' \in 0 .. ConnectionClock
    BY <1>a, <1>8 DEF Connections!Passes, Connections!Disconnects, Connections!Changed, Connections!Refuses
  <2>3. linkRow' \in [LinkNumbers -> LinkRowsConnections]
    <3>1. CASE Connections!Passes(s)
      <4>1. Connections!Connected(linkClock + 1) \in LinkRowsConnections
        BY <1>a, <3>1 DEF Connections!Passes, Connections!Connected, LinkRowsConnections, Connections!Active
      <4> QED BY <1>a, <3>1, <4>1 DEF Connections!Passes
    <3>2. CASE Connections!Disconnects(s)
      BY <1>a, <3>2 DEF Connections!Disconnects, LinkRowsConnections
    <3>3. CASE Connections!Changed(s)
      BY <1>a, <3>3 DEF Connections!Changed
    <3>4. ASSUME NEW st \in {"ACTION_REQUIRED", "ERROR"}, Connections!Refuses(s, st)
            PROVE linkRow' \in [LinkNumbers -> LinkRowsConnections]
      BY <1>a, <3>4 DEF Connections!Refuses, LinkRowsConnections, Connections!Active
    <3> QED BY <1>8, <3>1, <3>2, <3>3, <3>4
  <2>4. pending' \subseteq LinkNumbers
    BY <1>a, <1>8 DEF Connections!Passes, Connections!Disconnects, Connections!Changed, Connections!Refuses,
        Connections!WithoutFollowUps
  <2> QED BY <1>a, <1>f, <2>1, <2>2, <2>3, <2>4 DEF LinkShapeConnections
<1> QED BY <1>1, <1>2, <1>3, <1>5, <1>6, <1>7, <1>8 DEF Connections!Next

\* The types of the rows, the attempt and the requests.
LEMMA LinkTypedConnections == LinkShapeConnections => Connections!TypeOK
BY DEF LinkShapeConnections, LinkRowsConnections, LinkAttemptsConnections, LinkRequestsConnections,
    LinkSessionsConnections, Connections!TypeOK

\* Why one number is in force and the verdict of a check is of what it read: whoever saves a
\* row gives it a time of its own, later than what any session had read.
OneInForce ==
  /\ \A m \in LinkNumbers, n \in LinkNumbers :
       linkRow[m].status \in Connections!Active /\ linkRow[n].status \in Connections!Active => m = n
  /\ \A n \in pending : linkRow[n].status = "CONNECTED"
  /\ \A n \in LinkNumbers : linkRow[n].synced <= linkClock
\* What the session s has read is what is there, or older.
SessionTrue(s) ==
  session[s].op # "none" =>
    /\ session[s].read.synced <= linkRow[session[s].number].synced
    /\ s \in renewed => session[s].read.synced < linkRow[session[s].number].synced
ConnectionsInv ==
  LinkShapeConnections /\ OneInForce /\ \A s \in Requests : SessionTrue(s)

\* No number is connected at the start.
LEMMA ConnectionsInit == Connections!Init => ConnectionsInv
BY LinkStartConnections DEF Connections!Init, ConnectionsInv, OneInForce, SessionTrue, Connections!Active,
    Connections!Closed

\* The component counts as this module does.
LEMMA LinkCounted == \A S : Connections!Cardinality(S) = Cardinality(S)
BY DEF Connections!Cardinality, Cardinality

\* One number at most is active, and then it is the current one.
LEMMA CurrentIsActive ==
  ASSUME ConnectionsInv, NEW n \in LinkNumbers, Connections!Current = n,
         NEW m \in LinkNumbers, linkRow[m].status \in Connections!Active
  PROVE  m = n
<1> DEFINE A == Connections!ActiveRows
<1>1. A = {m}
  BY DEF Connections!ActiveRows, ConnectionsInv, OneInForce
<1>2. Cardinality(A) = 1
  BY <1>1, FS_Singleton
<1>3. {k \in LinkNumbers : linkRow[k].status # "NONE"} # {}
  BY DEF Connections!Active
<1>4. Connections!Newest(A) \in A
  BY <1>1, LinkNewestConnections DEF ConnectionsInv
<1>5. ~ (Connections!Cardinality(A) > 1)
  BY <1>2, LinkCounted
<1>6. Connections!Current = Connections!Newest(A)
  BY <1>1, <1>3, <1>5 DEF Connections!Current
<1> QED BY <1>1, <1>4, <1>6

\* The connection of a number leaves it alone in force, and the sessions behind.
LEMMA SavesKeeps ==
  ASSUME ConnectionsInv, NEW n \in LinkNumbers, Connections!Saves(n), UNCHANGED session
  PROVE  OneInForce' /\ \A s \in Requests : SessionTrue(s)'
<1>a. /\ linkRow \in [LinkNumbers -> LinkRowsConnections] /\ pending \subseteq LinkNumbers
      /\ linkClock \in Nat /\ session \in [Requests -> LinkSessionsConnections]
      /\ \A m \in LinkNumbers : linkRow[m].synced \in Nat /\ linkRow[m].synced <= linkClock
  BY Bounds DEF ConnectionsInv, OneInForce, LinkShapeConnections, LinkRowsConnections,
      Connections!ConnectionAssumption
<1>1. /\ linkRow'[n] = [status |-> "CONNECTED", synced |-> linkClock + 1]
      /\ \A m \in LinkNumbers : m # n => /\ linkRow'[m].status = "DISCONNECTED" \/
                                            linkRow'[m].status \notin Connections!Active
                                         /\ linkRow'[m].synced = linkRow[m].synced
  BY <1>a DEF Connections!Saves, Connections!Connected, Connections!Disabled, LinkRowsConnections
<1>2. linkClock' = linkClock + 1 /\ pending' \subseteq {n}
  BY <1>a DEF Connections!Saves, Connections!Disabled, ConnectionsInv, OneInForce, Connections!Active
<1>3. renewed' = renewed \cup {s \in Requests : session[s].number = n}
  BY DEF Connections!Saves, Connections!OnNumbers
<1>4. \A m \in LinkNumbers : linkRow'[m].synced <= linkClock'
  BY <1>a, <1>1, <1>2
<1>5. OneInForce'
  BY <1>1, <1>2, <1>4 DEF OneInForce, Connections!Active
<1>6. ASSUME NEW s \in Requests PROVE SessionTrue(s)'
  <2> SUFFICES ASSUME session[s].op # "none"
               PROVE  /\ session[s].read.synced <= linkRow'[session[s].number].synced
                      /\ s \in renewed' => session[s].read.synced < linkRow'[session[s].number].synced
    BY DEF SessionTrue
  <2>1. /\ session[s].number \in LinkNumbers /\ session[s].read.synced \in Nat
        /\ session[s].read.synced <= linkRow[session[s].number].synced
        /\ s \in renewed => session[s].read.synced < linkRow[session[s].number].synced
    BY <1>a, Bounds DEF ConnectionsInv, SessionTrue, LinkShapeConnections, LinkSessionsConnections,
        LinkRowsConnections,
       Connections!ConnectionAssumption
  <2>2. CASE session[s].number = n
    <3>1. linkRow'[n].synced = linkClock + 1 /\ session[s].read.synced <= linkClock
      BY <1>a, <1>1, <2>1, <2>2
    <3> QED BY <1>a, <2>1, <2>2, <3>1
  <2>3. CASE session[s].number # n
    BY <1>1, <1>3, <2>1, <2>3
  <2> QED BY <2>2, <2>3
<1> QED BY <1>5, <1>6

\* Every step keeps it, and a verdict is written over what it is about.
LEMMA ConnectionsStep ==
  ConnectionsInv /\ [Connections!Next]_(Connections!vars) => ConnectionsInv' /\ Connections!VerdictOfReadStep
<1> SUFFICES ASSUME ConnectionsInv, [Connections!Next]_(Connections!vars)
             PROVE  ConnectionsInv' /\ Connections!VerdictOfReadStep
  OBVIOUS
<1>s. LinkShapeConnections'
  BY LinkTypesConnections DEF ConnectionsInv, Connections!vars, LinkShapeConnections
<1>a. /\ linkRow \in [LinkNumbers -> LinkRowsConnections] /\ pending \subseteq LinkNumbers
      /\ linkClock \in Nat /\ session \in [Requests -> LinkSessionsConnections]
      /\ \A m \in LinkNumbers : linkRow[m].synced \in Nat /\ linkRow[m].synced <= linkClock
  BY Bounds DEF ConnectionsInv, OneInForce, LinkShapeConnections, LinkRowsConnections,
      Connections!ConnectionAssumption
<1>b. \A s \in Requests : session[s].op # "none" =>
         session[s].number \in LinkNumbers /\ session[s].read.synced \in Nat
  BY <1>a, Bounds DEF ConnectionsInv, LinkShapeConnections, LinkSessionsConnections, LinkRowsConnections,
     Connections!ConnectionAssumption
<1>u. UNCHANGED session => Connections!VerdictOfReadStep
  BY DEF Connections!VerdictOfReadStep
<1> DEFINE Kept == OneInForce /\ \A s \in Requests : SessionTrue(s)
<1>r. UNCHANGED <<linkRow, linkClock, session, renewed>> /\ (\A n \in pending' : linkRow[n].status =
        "CONNECTED") => Kept'
  BY DEF ConnectionsInv, OneInForce, SessionTrue
<1>1. ASSUME Connections!Starts \/ Connections!TimePasses \/ Connections!Cancels
                \/ \E r \in ConnectionSigners : Connections!FailsSignup(r) \/
                    \E c \in LinkCodes : Connections!Claims(r, c)
      PROVE  Kept' /\ Connections!VerdictOfReadStep
  <2>1. UNCHANGED <<linkRow, pending, linkClock, session, renewed>>
    BY <1>1 DEF Connections!Starts, Connections!TimePasses, Connections!Cancels, Connections!FailsSignup,
        Connections!Claims
  <2> QED BY <1>r, <1>u, <2>1 DEF ConnectionsInv, OneInForce
<1>2. ASSUME NEW n \in LinkNumbers, Connections!Connects(n) \/
        \E r \in ConnectionSigners : Connections!Completes(r, n)
      PROVE  Kept' /\ Connections!VerdictOfReadStep
  <2>1. Connections!Saves(n) /\ UNCHANGED session
    BY <1>2 DEF Connections!Connects, Connections!Completes
  <2> QED BY <1>u, <2>1, SavesKeeps
<1>3. ASSUME NEW n \in LinkNumbers, Connections!Schedules(n) PROVE Kept' /\ Connections!VerdictOfReadStep
  <2>1. UNCHANGED <<linkRow, linkClock, session, renewed>> /\ \A m \in pending' : linkRow[m].status = "CONNECTED"
    BY <1>3 DEF Connections!Schedules, ConnectionsInv, OneInForce
  <2> QED BY <1>r, <1>u, <2>1
<1>4. ASSUME NEW s \in Requests, NEW op \in {"test", "disconnect"}, Connections!Opens(s, op)
      PROVE  Kept' /\ Connections!VerdictOfReadStep
  <2>1. PICK n \in LinkNumbers : session' = [session EXCEPT ![s] = [op |-> op, number |-> n, read |-> linkRow[n]]]
    BY <1>4, LinkCurrentConnections DEF Connections!Opens, ConnectionsInv
  <2>2. /\ session'[s] = [op |-> op, number |-> n, read |-> linkRow[n]]
        /\ \A t \in Requests : t # s => session'[t] = session[t]
    BY <1>a, <2>1
  <2>3. renewed' = renewed \ {s} /\ UNCHANGED <<linkRow, pending, linkClock>>
    BY <1>4 DEF Connections!Opens
  <2>4. \A t \in Requests : SessionTrue(t)'
    BY <1>a, <2>2, <2>3 DEF ConnectionsInv, SessionTrue
  <2>5. OneInForce'
    BY <2>3 DEF ConnectionsInv, OneInForce
  <2>6. Connections!VerdictOfReadStep
    BY <2>3 DEF Connections!VerdictOfReadStep
  <2> QED BY <2>4, <2>5, <2>6
<1>5. ASSUME NEW s \in Requests, session[s].op # "none", session' = [session EXCEPT ![s] = Connections!Closed]
      PROVE  /\ session'[s].op = "none" /\ \A t \in Requests : t # s => session'[t] = session[t]
             /\ (s \in renewed => UNCHANGED linkRow) => Connections!VerdictOfReadStep
  BY <1>a, <1>5 DEF Connections!Closed, Connections!VerdictOfReadStep
<1>6. ASSUME NEW s \in Requests, session[s].op # "none", Connections!Same(s)
      PROVE  /\ s \notin renewed
             /\ \A m \in LinkNumbers : linkRow[m].status \in Connections!Active => m = session[s].number
  <2>1. session[s].number \in LinkNumbers /\ Connections!Current = session[s].number
        /\ linkRow[session[s].number] = session[s].read
    BY <1>6, <1>b DEF Connections!Same
  <2>2. s \notin renewed
    BY <1>6, <1>a, <2>1 DEF ConnectionsInv, SessionTrue
  <2> QED BY <2>1, <2>2, CurrentIsActive
<1>7. ASSUME NEW s \in Requests, NEW n \in LinkNumbers, NEW r \in LinkRowsConnections, session[s].op # "none",
             session[s].number = n, Connections!Same(s),
             linkRow' = [linkRow EXCEPT ![n] = r], r.status \in {"DISCONNECTED", "ACTION_REQUIRED", "ERROR"},
             r.synced = linkRow[n].synced, pending' = pending \ {n}, UNCHANGED <<linkClock, renewed>>,
             session' = [session EXCEPT ![s] = Connections!Closed]
      PROVE  Kept' /\ Connections!VerdictOfReadStep
  <2>1. /\ linkRow'[n] = r /\ \A m \in LinkNumbers : m # n => linkRow'[m] = linkRow[m]
    BY <1>a, <1>7
  <2>2. OneInForce'
    BY <1>6, <1>7, <2>1 DEF ConnectionsInv, OneInForce
  <2>3. \A t \in Requests : t # s => SessionTrue(t)'
    BY <1>b, <1>5, <1>7, <2>1 DEF ConnectionsInv, SessionTrue
  <2>4. SessionTrue(s)'
    BY <1>5, <1>7 DEF SessionTrue
  <2>5. Connections!VerdictOfReadStep
    BY <1>5, <1>6, <1>7
  <2> QED BY <2>2, <2>3, <2>4, <2>5
<1>8. ASSUME NEW s \in Requests, Connections!Disconnects(s) \/
        \E st \in {"ACTION_REQUIRED", "ERROR"} : Connections!Refuses(s, st)
      PROVE  Kept' /\ Connections!VerdictOfReadStep
  <2>1. PICK st \in {"DISCONNECTED", "ACTION_REQUIRED", "ERROR"} :
          linkRow' = [linkRow EXCEPT ![session[s].number].status = st]
    BY <1>8 DEF Connections!Disconnects, Connections!Refuses
  <2> DEFINE n == session[s].number
             r == [linkRow[n] EXCEPT !.status = st]
  <2>2. /\ session[s].op # "none" /\ Connections!Same(s) /\ session' = [session EXCEPT ![s] = Connections!Closed]
        /\ pending' = pending \ {n} /\ UNCHANGED linkClock
    BY <1>8 DEF Connections!Disconnects, Connections!Refuses, Connections!WithoutFollowUps
  <2>3. renewed' = renewed
    BY <1>8 DEF Connections!Disconnects, Connections!Refuses, Connections!OnNumbers
  <2>4. n \in LinkNumbers
    BY <1>b, <2>2
  <2>5. linkRow' = [linkRow EXCEPT ![n] = r]
    BY <2>1
  <2>6. r \in LinkRowsConnections /\ r.status = st /\ r.synced = linkRow[n].synced
    BY <1>a, <2>4 DEF LinkRowsConnections, Connections!Active
  <2> HIDE DEF r
  <2> QED BY <1>7, <2>2, <2>3, <2>4, <2>5, <2>6
<1>9. ASSUME NEW s \in Requests, Connections!Passes(s) PROVE Kept' /\ Connections!VerdictOfReadStep
  <2> DEFINE n == session[s].number
  <2>1. /\ session[s].op # "none" /\ Connections!Same(s) /\ session' = [session EXCEPT ![s] = Connections!Closed]
        /\ UNCHANGED pending /\ linkClock' = linkClock + 1 /\
            renewed' = renewed \cup {t \in Requests : session[t].number = n}
        /\ linkRow' = [linkRow EXCEPT ![n] = [status |-> "CONNECTED", synced |-> linkClock + 1]]
    BY <1>9 DEF Connections!Passes, Connections!OnNumbers, Connections!Connected
  <2>2. n \in LinkNumbers
    BY <1>b, <2>1
  <2>3. /\ linkRow'[n] = [status |-> "CONNECTED", synced |-> linkClock + 1]
        /\ \A m \in LinkNumbers : m # n => linkRow'[m] = linkRow[m]
    BY <1>a, <2>1, <2>2
  <2>4. \A m \in LinkNumbers : linkRow'[m].synced <= linkClock'
    BY <1>a, <2>1, <2>3
  <2>5. OneInForce'
    <3>1. \A m \in LinkNumbers : linkRow'[m].status \in Connections!Active => m = n
      BY <1>6, <2>1, <2>3
    <3>2. \A m \in pending' : linkRow'[m].status = "CONNECTED"
      BY <1>a, <2>1, <2>3 DEF ConnectionsInv, OneInForce
    <3> QED BY <2>4, <3>1, <3>2 DEF OneInForce
  <2>6. ASSUME NEW t \in Requests PROVE SessionTrue(t)'
    <3>1. CASE t = s
      BY <1>5, <2>1, <3>1 DEF SessionTrue
    <3>2. CASE t # s
      <4>1. session'[t] = session[t]
        BY <1>5, <2>1, <3>2
      <4>2. CASE session[t].number = n /\ session[t].op # "none"
        <5>1. session[t].read.synced <= linkClock /\ linkRow'[n].synced = linkClock + 1 /\
                session[t].read.synced \in Nat
          BY <1>a, <1>b, <2>2, <2>3, <4>2 DEF ConnectionsInv, SessionTrue
        <5>2. session[t].read.synced < linkRow'[n].synced
          BY <1>a, <5>1
        <5> QED BY <1>a, <4>1, <4>2, <5>1, <5>2 DEF SessionTrue
      <4>3. CASE session[t].number # n /\ session[t].op # "none"
        BY <1>b, <2>1, <2>3, <4>1, <4>3 DEF ConnectionsInv, SessionTrue
      <4>4. CASE session[t].op = "none"
        BY <4>1, <4>4 DEF SessionTrue
      <4> QED BY <4>2, <4>3, <4>4
    <3> QED BY <3>1, <3>2
  <2>7. Connections!VerdictOfReadStep
    BY <1>5, <1>6, <2>1
  <2> QED BY <2>5, <2>6, <2>7
<1>10. ASSUME NEW s \in Requests, Connections!Changed(s) PROVE Kept' /\ Connections!VerdictOfReadStep
  <2>1. session[s].op # "none" /\ session' = [session EXCEPT ![s] = Connections!Closed]
        /\ UNCHANGED <<linkRow, pending, linkClock, renewed>>
    BY <1>10 DEF Connections!Changed
  <2>2. OneInForce'
    BY <2>1 DEF ConnectionsInv, OneInForce
  <2>3. \A t \in Requests : SessionTrue(t)'
    BY <1>5, <2>1 DEF ConnectionsInv, SessionTrue
  <2> QED BY <1>5, <2>1, <2>2, <2>3
<1>11. ASSUME UNCHANGED Connections!vars PROVE Kept' /\ Connections!VerdictOfReadStep
  <2>1. UNCHANGED <<linkRow, pending, linkClock, session, renewed>>
    BY <1>11 DEF Connections!vars
  <2> QED BY <1>r, <1>u, <2>1 DEF ConnectionsInv, OneInForce
<1>12. Kept' /\ Connections!VerdictOfReadStep
  <2> HIDE DEF Kept
  <2> QED BY <1>1, <1>2, <1>3, <1>4, <1>8, <1>9, <1>10, <1>11 DEF Connections!Next
<1> QED BY <1>s, <1>12 DEF ConnectionsInv

\* What it means for the organization: one number in force, and no follow-up over another.
LEMMA ConnectionsHold == ConnectionsInv => Connections!TypeOK /\ Connections!OneActive /\ Connections!NoFollowUpLeft
<1> SUFFICES ASSUME ConnectionsInv PROVE Connections!TypeOK /\ Connections!OneActive /\ Connections!NoFollowUpLeft
  OBVIOUS
<1>1. Cardinality(Connections!ActiveRows) <= 1
  <2>1. CASE Connections!ActiveRows = {}
    BY <2>1, FS_EmptySet
  <2>2. CASE Connections!ActiveRows # {}
    <3>1. PICK n : Connections!ActiveRows = {n}
      BY <2>2 DEF Connections!ActiveRows, ConnectionsInv, OneInForce
    <3>2. Cardinality({n}) = 1
      BY FS_Singleton
    <3> QED BY <3>1, <3>2
  <2> QED BY <2>1, <2>2
<1>2. Connections!OneActive
  BY <1>1, LinkCounted DEF Connections!OneActive
<1> QED BY <1>2, LinkTypedConnections DEF ConnectionsInv, OneInForce, Connections!NoFollowUpLeft

LinkRowsSignup == [status : Signup!Active \cup {"DISCONNECTED", "NONE"}, synced : 0 .. SignupClock]
LinkAttemptsSignup == [id : 0 .. SignupAttempts, live : BOOLEAN, code : LinkCodes \cup {Signup!NoCode},
                  status : {"NONE", "AWAITING_CODE", "PROCESSING", "SUCCEEDED", "FAILED"}]
LinkRequestsSignup == [pc : {"idle", "exchanging", "connected", "failed"}, attempt : 0 .. SignupAttempts,
                  code : LinkCodes \cup {Signup!NoCode}]
LinkSessionsSignup == [op : {"none", "test", "disconnect"}, number : LinkNumbers \cup {"none"}, read :
    LinkRowsSignup]
\* The types, row by row.
LinkShapeSignup ==
  /\ linkRow \in [LinkNumbers -> LinkRowsSignup] /\ pending \subseteq LinkNumbers /\ linkClock \in 0 .. SignupClock
  /\ linkAttempt \in LinkAttemptsSignup
  /\ linkRequest \in [Requests -> LinkRequestsSignup]
  /\ session \in [SignupSessions -> LinkSessionsSignup]
  /\ linkAttempt.status # "NONE" => linkAttempt.id # 0
  /\ \A s \in SignupSessions : session[s].op # "none" => session[s].number \in LinkNumbers

\* The types hold at the start.
LEMMA LinkStartSignup == Signup!Init => LinkShapeSignup
<1> SUFFICES ASSUME Signup!Init PROVE LinkShapeSignup
  OBVIOUS
<1>a. SignupClock \in Nat /\ SignupAttempts \in Nat
  BY Bounds DEF Signup!ConnectionAssumption
<1>1. [status |-> "NONE", synced |-> 0] \in LinkRowsSignup
  BY <1>a DEF LinkRowsSignup
<1>2. Signup!Free \in LinkRequestsSignup /\ Signup!Closed \in LinkSessionsSignup /\ Signup!Closed.op = "none"
  BY <1>a, <1>1 DEF LinkRequestsSignup, LinkSessionsSignup, Signup!Free, Signup!Closed
<1>3. linkAttempt \in LinkAttemptsSignup /\ linkAttempt.status = "NONE"
  BY <1>a DEF Signup!Init, LinkAttemptsSignup
<1> QED BY <1>a, <1>1, <1>2, <1>3 DEF Signup!Init, LinkShapeSignup

\* The newest of some rows is one of them.
LEMMA LinkNewestSignup ==
  ASSUME LinkShapeSignup, NEW ns \in SUBSET LinkNumbers, ns # {} PROVE Signup!Newest(ns) \in ns
<1> DEFINE Ages == {SignupClock - linkRow[n].synced : n \in ns}
<1>1. \A n \in ns : SignupClock - linkRow[n].synced \in Nat /\ linkRow[n].synced \in Nat /\ SignupClock \in Nat
  BY Bounds DEF LinkShapeSignup, LinkRowsSignup, Signup!ConnectionAssumption
<1>2. Ages \subseteq Nat /\ Ages # {}
  BY <1>1
<1>3. PICK age \in Ages : \A other \in Ages : age <= other
  <2> HIDE DEF Ages
  <2> QED BY <1>2, Smallest
<1>4. PICK n \in ns : age = SignupClock - linkRow[n].synced
  BY <1>3
<1>5. \A m \in ns : linkRow[n].synced >= linkRow[m].synced
  <2> SUFFICES ASSUME NEW m \in ns PROVE linkRow[n].synced >= linkRow[m].synced
    OBVIOUS
  <2>1. SignupClock - linkRow[n].synced <= SignupClock - linkRow[m].synced
    BY <1>3, <1>4
  <2>2. linkRow[n].synced \in Nat /\ linkRow[m].synced \in Nat /\ SignupClock \in Nat
    BY <1>1
  <2> HIDE DEF Ages
  <2> QED BY <2>1, <2>2
<1> QED BY <1>5 DEF Signup!Newest

\* The current row, when there is one, is of a number.
LEMMA LinkCurrentSignup ==
  ASSUME LinkShapeSignup, Signup!Current # "none" PROVE Signup!Current \in LinkNumbers
BY LinkNewestSignup DEF Signup!Current, Signup!ActiveRows

\* A connection saves rows.
LEMMA LinkSavesSignup ==
  ASSUME LinkShapeSignup, NEW n \in LinkNumbers, Signup!Saves(n)
  PROVE  linkRow' \in [LinkNumbers -> LinkRowsSignup] /\ pending' \subseteq LinkNumbers /\
      linkClock' \in 0 .. SignupClock
<1>a. SignupClock \in Nat /\ linkRow \in [LinkNumbers -> LinkRowsSignup] /\ linkClock \in 0 .. SignupClock
  BY Bounds DEF Signup!ConnectionAssumption, LinkShapeSignup
<1>1. linkClock' = linkClock + 1 /\ linkClock' \in 0 .. SignupClock
  BY <1>a DEF Signup!Saves
<1>2. Signup!Connected(linkClock + 1) \in LinkRowsSignup
  BY <1>1 DEF Signup!Connected, LinkRowsSignup, Signup!Active
<1>3. \A m \in LinkNumbers : [linkRow[m] EXCEPT !.status = "DISCONNECTED"] \in LinkRowsSignup
  BY <1>a DEF LinkRowsSignup
<1> QED BY <1>a, <1>1, <1>2, <1>3 DEF Signup!Saves, LinkShapeSignup

\* Every step keeps the types.
LEMMA LinkTypesSignup == LinkShapeSignup /\ Signup!Next => LinkShapeSignup'
<1> SUFFICES ASSUME LinkShapeSignup, Signup!Next PROVE LinkShapeSignup'
  OBVIOUS
<1>a. /\ SignupClock \in Nat /\ SignupAttempts \in Nat
      /\ linkRow \in [LinkNumbers -> LinkRowsSignup] /\ pending \subseteq LinkNumbers /\
          linkClock \in 0 .. SignupClock
      /\ linkAttempt \in LinkAttemptsSignup /\ linkRequest \in [Requests -> LinkRequestsSignup]
      /\ session \in [SignupSessions -> LinkSessionsSignup] /\ linkAttempt.id \in 0 .. SignupAttempts
  BY Bounds DEF Signup!ConnectionAssumption, LinkShapeSignup, LinkAttemptsSignup
<1>f. Signup!Closed \in LinkSessionsSignup /\ Signup!Closed.op = "none"
  BY <1>a DEF LinkSessionsSignup, LinkRowsSignup, Signup!Closed
<1>1. ASSUME Signup!Starts \/ Signup!TimePasses \/ Signup!Cancels PROVE LinkShapeSignup'
  <2>1. linkAttempt' \in LinkAttemptsSignup /\ (linkAttempt'.status # "NONE" => linkAttempt'.id # 0)
    <3>1. CASE Signup!Starts
      <4>1. linkAttempt.id + 1 \in 0 .. SignupAttempts /\ linkAttempt.id + 1 # 0
        BY <1>a, <3>1 DEF Signup!Starts
      <4> QED BY <3>1, <4>1 DEF Signup!Starts, LinkAttemptsSignup
    <3>2. CASE Signup!TimePasses
      BY <1>a, <3>2 DEF Signup!TimePasses, LinkAttemptsSignup, LinkShapeSignup
    <3>3. CASE Signup!Cancels
      BY <1>a, <3>3 DEF Signup!Cancels, Signup!Cancellable, LinkAttemptsSignup, LinkShapeSignup
    <3> QED BY <1>1, <3>1, <3>2, <3>3
  <2>2. UNCHANGED <<linkRow, pending, linkClock, linkRequest, session>>
    BY <1>1 DEF Signup!Starts, Signup!TimePasses, Signup!Cancels
  <2> QED BY <2>1, <2>2 DEF LinkShapeSignup
<1>2. ASSUME NEW n \in LinkNumbers, Signup!Connects(n) \/ Signup!Schedules(n) PROVE LinkShapeSignup'
  BY <1>a, <1>2, LinkSavesSignup DEF Signup!Connects, Signup!Schedules, LinkShapeSignup
<1>3. ASSUME NEW r \in Requests, NEW c \in LinkCodes, Signup!Claims(r, c) PROVE LinkShapeSignup'
  <2>1. linkAttempt' \in LinkAttemptsSignup /\ (linkAttempt'.status # "NONE" => linkAttempt'.id # 0)
    BY <1>a, <1>3 DEF Signup!Claims, Signup!Claimable, LinkAttemptsSignup, LinkShapeSignup
  <2>2. linkRequest' \in [Requests -> LinkRequestsSignup]
    <3>1. [pc |-> "exchanging", attempt |-> linkAttempt.id, code |-> c] \in LinkRequestsSignup
      BY <1>a DEF LinkRequestsSignup
    <3> QED BY <1>a, <1>3, <3>1 DEF Signup!Claims
  <2> QED BY <1>3, <2>1, <2>2 DEF Signup!Claims, LinkShapeSignup
<1>4. ASSUME NEW r \in Requests, NEW pc1 \in {"connected", "failed"},
        linkRequest' = [linkRequest EXCEPT ![r].pc = pc1]
      PROVE  linkRequest' \in [Requests -> LinkRequestsSignup]
  BY <1>a, <1>4 DEF LinkRequestsSignup
<1>5. ASSUME NEW r \in Requests, NEW n \in LinkNumbers, Signup!Completes(r, n) PROVE LinkShapeSignup'
  <2>1. linkAttempt' \in LinkAttemptsSignup /\ (linkAttempt'.status # "NONE" => linkAttempt'.id # 0)
    BY <1>a, <1>5 DEF Signup!Completes, Signup!Owned, LinkAttemptsSignup, LinkShapeSignup
  <2>2. linkRequest' \in [Requests -> LinkRequestsSignup]
    BY <1>4, <1>5 DEF Signup!Completes
  <2> QED BY <1>5, <2>1, <2>2, LinkSavesSignup DEF Signup!Completes, LinkShapeSignup
<1>6. ASSUME NEW r \in Requests, Signup!FailsSignup(r) PROVE LinkShapeSignup'
  <2>1. linkAttempt' \in LinkAttemptsSignup /\ (linkAttempt'.status # "NONE" => linkAttempt'.id # 0)
    BY <1>a, <1>6 DEF Signup!FailsSignup, LinkAttemptsSignup, LinkShapeSignup
  <2>2. linkRequest' \in [Requests -> LinkRequestsSignup]
    BY <1>4, <1>6 DEF Signup!FailsSignup
  <2> QED BY <1>6, <2>1, <2>2 DEF Signup!FailsSignup, LinkShapeSignup
<1>7. ASSUME NEW s \in SignupSessions, NEW op \in {"test", "disconnect"}, Signup!Opens(s, op) PROVE LinkShapeSignup'
  <2>1. Signup!Current \in LinkNumbers
    BY <1>7, LinkCurrentSignup DEF Signup!Opens
  <2>2. [op |-> op, number |-> Signup!Current, read |-> linkRow[Signup!Current]] \in LinkSessionsSignup
    BY <1>a, <2>1 DEF LinkSessionsSignup
  <2>3. session' = [session EXCEPT ![s] = [op |-> op, number |-> Signup!Current, read |-> linkRow[Signup!Current]]]
        /\ UNCHANGED <<linkRow, pending, linkClock, linkAttempt, linkRequest>>
    BY <1>7 DEF Signup!Opens
  <2> HIDE DEF Signup!Current
  <2> QED BY <1>a, <2>1, <2>2, <2>3 DEF LinkShapeSignup
<1>8. ASSUME NEW s \in SignupSessions, Signup!Passes(s) \/ Signup!Disconnects(s) \/ Signup!Changed(s)
                            \/ \E st \in {"ACTION_REQUIRED", "ERROR"} : Signup!Refuses(s, st)
      PROVE LinkShapeSignup'
  <2>1. session' = [session EXCEPT ![s] = Signup!Closed] /\ UNCHANGED <<linkAttempt, linkRequest>>
    BY <1>8 DEF Signup!Passes, Signup!Disconnects, Signup!Changed, Signup!Refuses
  <2>2. linkClock' \in 0 .. SignupClock
    BY <1>a, <1>8 DEF Signup!Passes, Signup!Disconnects, Signup!Changed, Signup!Refuses
  <2>3. linkRow' \in [LinkNumbers -> LinkRowsSignup]
    <3>1. CASE Signup!Passes(s)
      <4>1. Signup!Connected(linkClock + 1) \in LinkRowsSignup
        BY <1>a, <3>1 DEF Signup!Passes, Signup!Connected, LinkRowsSignup, Signup!Active
      <4> QED BY <1>a, <3>1, <4>1 DEF Signup!Passes
    <3>2. CASE Signup!Disconnects(s)
      BY <1>a, <3>2 DEF Signup!Disconnects, LinkRowsSignup
    <3>3. CASE Signup!Changed(s)
      BY <1>a, <3>3 DEF Signup!Changed
    <3>4. ASSUME NEW st \in {"ACTION_REQUIRED", "ERROR"}, Signup!Refuses(s, st)
            PROVE linkRow' \in [LinkNumbers -> LinkRowsSignup]
      BY <1>a, <3>4 DEF Signup!Refuses, LinkRowsSignup, Signup!Active
    <3> QED BY <1>8, <3>1, <3>2, <3>3, <3>4
  <2>4. pending' \subseteq LinkNumbers
    BY <1>a, <1>8 DEF Signup!Passes, Signup!Disconnects, Signup!Changed, Signup!Refuses, Signup!WithoutFollowUps
  <2> QED BY <1>a, <1>f, <2>1, <2>2, <2>3, <2>4 DEF LinkShapeSignup
<1> QED BY <1>1, <1>2, <1>3, <1>5, <1>6, <1>7, <1>8 DEF Signup!Next

\* The types of the rows, the attempt and the requests.
LEMMA LinkTypedSignup == LinkShapeSignup => Signup!TypeOK
BY DEF LinkShapeSignup, LinkRowsSignup, LinkAttemptsSignup, LinkRequestsSignup, LinkSessionsSignup, Signup!TypeOK

\* Why a code is exchanged once and an attempt connects once: an attempt that waits for its
\* code has not been exchanged, one that is unfinished has not connected nor been cancelled,
\* and the attempts to come have done nothing.
OnceOnly ==
  /\ linkExchanged \in [Signup!Attempts -> [LinkCodes -> Nat]]
  /\ connections \in [Signup!Attempts -> Nat]
  /\ \A a \in Signup!Attempts, c \in LinkCodes :
       /\ linkExchanged[a][c] <= 1
       /\ a > linkAttempt.id => linkExchanged[a][c] = 0
       /\ a = linkAttempt.id /\ linkAttempt.status = "AWAITING_CODE" => linkExchanged[a][c] = 0
  /\ \A a \in Signup!Attempts :
       /\ connections[a] <= (IF a \in cancelled THEN 0 ELSE 1)
       /\ a > linkAttempt.id => connections[a] = 0 /\ a \notin cancelled
       /\ a = linkAttempt.id /\ linkAttempt.status \in {"AWAITING_CODE", "PROCESSING"} =>
            connections[a] = 0 /\ a \notin cancelled
SignupInv == LinkShapeSignup /\ OnceOnly

\* Nothing was exchanged at the start.
LEMMA SignupInit == Signup!Init => SignupInv
BY LinkStartSignup DEF Signup!Init, SignupInv, OnceOnly, Signup!Attempts

\* Every step keeps it.
LEMMA SignupStep == SignupInv /\ [Signup!Next]_(Signup!vars) => SignupInv'
<1> SUFFICES ASSUME SignupInv, [Signup!Next]_(Signup!vars) PROVE SignupInv'
  OBVIOUS
<1>s. LinkShapeSignup'
  BY LinkTypesSignup DEF SignupInv, Signup!vars, LinkShapeSignup
<1>a. /\ linkAttempt \in LinkAttemptsSignup /\ linkAttempt.id \in 0 .. SignupAttempts /\ SignupAttempts \in Nat
      /\ linkAttempt.status # "NONE" => linkAttempt.id \in Signup!Attempts
      /\ linkExchanged \in [Signup!Attempts -> [LinkCodes -> Nat]] /\ connections \in [Signup!Attempts -> Nat]
  BY Bounds DEF SignupInv, OnceOnly, LinkShapeSignup, LinkAttemptsSignup, Signup!Attempts,
      Signup!ConnectionAssumption
<1>1. ASSUME Signup!Starts PROVE OnceOnly'
  <2>1. /\ linkAttempt'.id = linkAttempt.id + 1 /\ linkAttempt'.status = "AWAITING_CODE"
        /\ UNCHANGED <<linkExchanged, connections, cancelled>>
    BY <1>1 DEF Signup!Starts
  <2>2. \A a \in Signup!Attempts : a >= linkAttempt'.id => a > linkAttempt.id
    BY <1>a, <2>1 DEF Signup!Attempts
  <2>3. \A a \in Signup!Attempts : a = linkAttempt'.id \/ a > linkAttempt'.id => a > linkAttempt.id
    BY <1>a, <2>1, <2>2 DEF Signup!Attempts
  <2> QED BY <2>1, <2>3 DEF SignupInv, OnceOnly
<1>2. ASSUME linkAttempt'.id = linkAttempt.id, UNCHANGED <<linkExchanged, connections, cancelled>>,
             linkAttempt'.status = linkAttempt.status \/ linkAttempt'.status \notin {"AWAITING_CODE", "PROCESSING"}
      PROVE  OnceOnly'
  BY <1>2 DEF SignupInv, OnceOnly
<1>3. ASSUME Signup!Cancels PROVE OnceOnly'
  <2>1. /\ linkAttempt'.id = linkAttempt.id /\ linkAttempt'.status = "FAILED"
        /\ linkAttempt.status = "AWAITING_CODE" /\ UNCHANGED <<linkExchanged, connections>>
        /\ cancelled' = cancelled \cup {linkAttempt.id}
    BY <1>3, <1>a DEF Signup!Cancels, Signup!Cancellable, LinkAttemptsSignup
  <2>2. \A a \in Signup!Attempts : a > linkAttempt.id => a # linkAttempt.id
    BY <1>a DEF Signup!Attempts
  <2>3. connections[linkAttempt.id] = 0
    BY <1>a, <2>1 DEF SignupInv, OnceOnly
  <2> QED BY <2>1, <2>2, <2>3 DEF SignupInv, OnceOnly
<1>4. ASSUME NEW r \in Requests, NEW c \in LinkCodes, Signup!Claims(r, c) PROVE OnceOnly'
  <2> DEFINE id == linkAttempt.id
  <2>1. /\ linkAttempt'.id = id /\ linkAttempt'.status = "PROCESSING" /\ linkAttempt.status = "AWAITING_CODE"
        /\ linkExchanged' = [linkExchanged EXCEPT ![id][c] = @ + 1] /\ UNCHANGED <<connections, cancelled>>
    BY <1>4, <1>a DEF Signup!Claims, Signup!Claimable, LinkAttemptsSignup
  <2>2. id \in Signup!Attempts /\ linkExchanged[id][c] = 0
    BY <1>a, <2>1 DEF SignupInv, OnceOnly
  <2> HIDE DEF id
  <2>3. /\ linkExchanged' \in [Signup!Attempts -> [LinkCodes -> Nat]] /\ linkExchanged'[id][c] = 1
        /\ \A a \in Signup!Attempts, d \in LinkCodes : a # id \/ d # c => linkExchanged'[a][d] = linkExchanged[a][d]
    BY <1>a, <2>1, <2>2
  <2>4. \A a \in Signup!Attempts : a > id => a # id
    BY <1>a DEF Signup!Attempts, id
  <2> QED BY <2>1, <2>2, <2>3, <2>4 DEF SignupInv, OnceOnly, id
<1>5. ASSUME NEW r \in Requests, NEW n \in LinkNumbers, Signup!Completes(r, n) PROVE OnceOnly'
  <2> DEFINE id == linkAttempt.id
  <2>1. /\ linkAttempt'.id = id /\ linkAttempt'.status = "SUCCEEDED" /\ linkAttempt.status = "PROCESSING"
        /\ connections' = [connections EXCEPT ![id] = @ + 1] /\ UNCHANGED <<linkExchanged, cancelled>>
    BY <1>5, <1>a DEF Signup!Completes, Signup!Owned, LinkAttemptsSignup
  <2>2. id \in Signup!Attempts /\ connections[id] = 0 /\ id \notin cancelled
    BY <1>a, <2>1 DEF SignupInv, OnceOnly
  <2> HIDE DEF id
  <2>3. /\ connections' \in [Signup!Attempts -> Nat] /\ connections'[id] = 1
        /\ \A a \in Signup!Attempts : a # id => connections'[a] = connections[a]
    BY <1>a, <2>1, <2>2
  <2>4. \A a \in Signup!Attempts : a > id => a # id
    BY <1>a DEF Signup!Attempts, id
  <2> QED BY <2>1, <2>2, <2>3, <2>4 DEF SignupInv, OnceOnly, id
<1>6. ASSUME Signup!TimePasses \/ \E r \in Requests : Signup!FailsSignup(r) PROVE OnceOnly'
  <2>1. linkAttempt'.id = linkAttempt.id /\ UNCHANGED <<linkExchanged, connections, cancelled>>
        /\ (linkAttempt'.status = linkAttempt.status \/ linkAttempt'.status \notin {"AWAITING_CODE", "PROCESSING"})
    BY <1>6, <1>a DEF Signup!TimePasses, Signup!FailsSignup, LinkAttemptsSignup
  <2> QED BY <1>2, <2>1
<1>7. ASSUME UNCHANGED Signup!vars \/ (\E n \in LinkNumbers : Signup!Connects(n) \/ Signup!Schedules(n))
         \/ \E s \in SignupSessions :
              \/ \E op \in {"test", "disconnect"} : Signup!Opens(s, op)
              \/ Signup!Passes(s) \/ Signup!Disconnects(s) \/ Signup!Changed(s)
              \/ \E st \in {"ACTION_REQUIRED", "ERROR"} : Signup!Refuses(s, st)
      PROVE OnceOnly'
  <2>1. UNCHANGED <<linkAttempt, linkExchanged, connections, cancelled>>
    BY <1>7 DEF Signup!vars, Signup!Connects, Signup!Schedules, Signup!Opens, Signup!Passes, Signup!Disconnects,
       Signup!Changed, Signup!Refuses
  <2> QED BY <1>2, <2>1
<1>8. OnceOnly'
  BY <1>1, <1>3, <1>4, <1>5, <1>6, <1>7 DEF Signup!Next
<1> QED BY <1>s, <1>8 DEF SignupInv

\* What it means for an attempt: one exchange of a code, one connection.
LEMMA SignupHolds == SignupInv => Signup!TypeOK /\ Signup!OncePerAttempt
BY LinkTypedSignup DEF SignupInv, OnceOnly, Signup!OncePerAttempt

------------------------------------------------------------------------------
\* The numbers of the provider.
Asked == 1 .. AssetNumbers
CheckRows ==
  [op : AssetOperations \cup {"none"},
   pc : {"idle", "exchange", "inspect", "owner", "phones", "subscription", "subscribe", "confirm", "ended"},
   waba : AssetWabas \cup {Assets!NoWaba}, number : 0 .. AssetNumbers, page : 0 .. AssetPages,
   cursor : 0 .. AssetNumbers, answer : Assets!Answers]
\* The types, row by row.
AssetShape ==
  /\ home \in [Asked -> AssetWabas \cup {Assets!NoWaba}]
  /\ granted \subseteq AssetWabas /\ subscribed \subseteq AssetWabas
  /\ token \in {"valid", "narrow", "expired"}
  /\ check \in CheckRows
  /\ changes \in 0 .. AssetChanges /\ still \in BOOLEAN /\ stayed \subseteq Asked
\* Which operations come where, and with what.
AssetPlaces ==
  /\ check.pc = "exchange" => check.op = "signup"
  /\ check.pc \in {"inspect", "owner"} => check.op \in {"signup", "manual", "test", "reconnect"}
  /\ check.pc = "subscription" => check.op \in {"test", "reconnect"}
  /\ check.pc = "subscribe" => check.op \in {"signup", "manual", "reconnect"}
  /\ check.pc = "confirm" => check.op = "manual"
  /\ check.pc # "idle" /\ check.op # "signup" => check.number \in Asked
  /\ check.page < AssetPages
  /\ check.pc \in {"exchange", "inspect", "owner"} => check.page = 0 /\ check.cursor = 0
\* What an operation has learned, while nothing changes.
AssetKnown ==
  still =>
    /\ check.pc \in {"owner", "phones", "subscription", "subscribe", "confirm"} =>
         /\ check.op \in Assets!OfPopup => granted = {check.waba} /\ token = "valid"
         /\ check.op = "manual" => check.waba \in granted /\ token = "valid"
    /\ check.pc \in {"subscription", "subscribe"} /\ check.op \in Assets!OfPopup =>
         Assets!Listed(check.waba) = {check.number}
    /\ check.pc \in {"subscribe", "confirm"} /\ check.op = "manual" => home[check.number] = check.waba
\* The walk has not come to the number yet, and the pages it read were full ones, of the
\* numbers of ns.
Below(ns, k) == {m \in ns : m <= k}
Beyond(ns, number, cursor, page) == number > cursor /\ page * AssetPage <= Cardinality(Below(ns, cursor))
\* How far a walk has come without finding its number.
AssetWalk ==
  check.pc = "phones" =>
    /\ check.op = "manual" =>
         /\ stayed \subseteq Assets!Listed(check.waba)
         /\ check.number \in stayed => Beyond(Asked, check.number, check.cursor, check.page)
         /\ still /\ check.number \in Assets!Listed(check.waba) =>
              Beyond(Assets!Listed(check.waba), check.number, check.cursor, check.page)
    /\ check.op = "ycloud" /\ still /\ check.number \in Assets!Listed(check.waba) =>
         check.page * AssetPage <= Cardinality({m \in Assets!Listed(check.waba) : m < check.number})
\* What must be so for an operation to end with an answer.
Reason(verdict) ==
  /\ still /\ verdict = "ok" =>
       /\ token # "expired"
       /\ check.op # "phone" => home[check.number] = check.waba /\ check.waba \in granted
       /\ check.op \in Assets!OfPopup => Assets!Listed(check.waba) = {check.number} /\ granted = {check.waba}
       /\ check.op \in Assets!OfPopup \cup {"manual"} => token = "valid" /\ check.waba \in subscribed
  /\ still /\ verdict = "permissions" =>
       token # "valid" \/ check.waba \notin granted \/ Cardinality(granted) # 1
  /\ still /\ verdict = "authentication" =>
       token = "expired" \/ (IF check.op = "phone" THEN home[check.number] ELSE check.waba) \notin granted
  /\ still /\ verdict = "ambiguous" =>
       Cardinality(granted) # 1 \/ Cardinality(Assets!Listed(check.waba)) # 1
  /\ still /\ verdict = "not_listed" =>
       check.number \notin {n \in Assets!Listed(check.waba) : Assets!InReach(n, Assets!Listed(check.waba))}
  /\ still /\ verdict = "webhook_pending" => check.waba \notin subscribed
  /\ check.op = "manual" /\ verdict = "not_listed" =>
       check.number \notin stayed \/ ~ Assets!InReach(check.number, Asked)
AssetsInv ==
  AssetShape /\ AssetPlaces /\ AssetKnown /\ AssetWalk /\ (check.pc = "ended" => Reason(check.answer))

\* The component counts as this module does.
LEMMA AssetCounted == \A S : Assets!Cardinality(S) = Cardinality(S)
BY DEF Assets!Cardinality, Cardinality

\* What is promised of the operations.
LEMMA AssetsHold ==
  AssetsInv => Assets!TypeOK /\ Assets!AcceptedIsTrue /\ Assets!RefusedIsTrue /\ Assets!WalkFindsWhatStays
<1> SUFFICES ASSUME AssetsInv
             PROVE  Assets!TypeOK /\ Assets!AcceptedIsTrue /\ Assets!RefusedIsTrue /\ Assets!WalkFindsWhatStays
  OBVIOUS
<1>1. Assets!TypeOK
  BY DEF AssetsInv, AssetShape, Assets!TypeOK, Asked, CheckRows, Assets!Numbers
<1>2. Assets!AcceptedIsTrue
  BY DEF AssetsInv, Reason, Assets!AcceptedIsTrue, Assets!Ended
<1>3. Assets!RefusedIsTrue
  BY AssetCounted DEF AssetsInv, Reason, Assets!RefusedIsTrue, Assets!Ended
<1>4. Assets!WalkFindsWhatStays
  BY DEF AssetsInv, Reason, Assets!WalkFindsWhatStays, Assets!Ended, Asked, Assets!Numbers
<1> QED BY <1>1, <1>2, <1>3, <1>4

\* Nothing is asked at the start.
LEMMA AssetsInit == Assets!Init => AssetsInv
<1> SUFFICES ASSUME Assets!Init PROVE AssetsInv
  OBVIOUS
<1>a. AssetNumbers \in Nat /\ AssetPages \in Nat \ {0} /\ AssetChanges \in Nat
  BY Bounds DEF Assets!AssetsAssumption
<1>1. Assets!NoCheck \in CheckRows
  BY <1>a DEF Assets!NoCheck, CheckRows, Assets!Answers
<1>2. AssetShape
  BY <1>a, <1>1 DEF Assets!Init, AssetShape, Asked, Assets!Numbers
<1>3. check.pc = "idle" /\ check.page = 0
  BY DEF Assets!Init, Assets!NoCheck
<1> QED BY <1>a, <1>2, <1>3 DEF AssetsInv, AssetPlaces, AssetKnown, AssetWalk

\* The numbers of an account are finitely many.
LEMMA AssetFinite ==
  ASSUME NEW ns \in SUBSET Asked PROVE IsFiniteSet(ns) /\ Cardinality(ns) \in Nat
<1>1. AssetNumbers \in Int
  BY Bounds DEF Assets!AssetsAssumption
<1>2. IsFiniteSet(Asked)
  BY <1>1, FS_Interval DEF Asked
<1> QED BY <1>2, FS_Subset, FS_CardinalityType

\* A page that does not bring a number after the cursor is full, of numbers before it.
LEMMA FullPage ==
  ASSUME NEW ns \in SUBSET Asked, NEW all \in SUBSET Asked, ns \subseteq all,
         NEW cursor \in 0 .. AssetNumbers, NEW number \in ns, number > cursor,
         NEW page, page = Assets!PageOf(Assets!After(ns, cursor)), number \notin page
  PROVE  /\ page # {} /\ Assets!Last(page) \in page /\ Assets!Last(page) < number
         /\ Cardinality(Below(all, Assets!Last(page))) >= Cardinality(Below(all, cursor)) + AssetPage
<1>a. AssetNumbers \in Nat /\ AssetPage \in Nat \ {0}
  BY Bounds DEF Assets!AssetsAssumption
<1> DEFINE rest == Assets!After(ns, cursor)
           Before(n) == {m \in rest : m < n}
           later == rest \ page
<1>1. rest \subseteq ns /\ rest \subseteq Nat /\ number \in rest /\ cursor \in Nat
      /\ \A m \in rest : m > cursor /\ m \in Asked
  <2>1. Asked \subseteq Nat /\ cursor \in Nat
    BY <1>a DEF Asked
  <2>2. rest \subseteq ns /\ number \in rest /\ \A m \in rest : m > cursor
    BY DEF Assets!After
  <2> HIDE DEF rest
  <2> QED BY <2>1, <2>2
<1>2. \A n : IsFiniteSet(Before(n)) /\ Cardinality(Before(n)) \in Nat
  BY <1>1, AssetFinite
<1>3. page \subseteq rest /\ \A n \in rest : n \in page <=> Cardinality(Before(n)) < AssetPage
  BY <1>1, AssetCounted DEF Assets!PageOf
<1>4. later \subseteq Nat /\ number \in later
  BY <1>1
<1>5. PICK first \in later : \A n \in later : first <= n
  <2> HIDE DEF later
  <2> QED BY <1>4, Smallest
<1> HIDE DEF rest
<1>6. first \in rest /\ first \in Nat /\ first <= number /\ Cardinality(Before(first)) >= AssetPage
  <2>1. first \in rest /\ first \notin page /\ first \in Nat
    BY <1>1, <1>5
  <2>2. ~ (Cardinality(Before(first)) < AssetPage)
    BY <1>3, <2>1
  <2>3. Cardinality(Before(first)) \in Nat
    BY <1>2
  <2> HIDE DEF Before
  <2> QED BY <1>a, <1>4, <1>5, <2>1, <2>2, <2>3
<1>7. Before(first) \subseteq page
  <2> SUFFICES ASSUME NEW m \in rest, m < first, m \notin page PROVE FALSE
    OBVIOUS
  <2>1. first <= m
    BY <1>5
  <2> QED BY <1>1, <1>6, <2>1
<1>8. \A m \in page : m < first
  <2> SUFFICES ASSUME NEW m \in page, ~ (m < first) PROVE FALSE
    OBVIOUS
  <2>1. m \in rest /\ m \in Nat
    BY <1>1, <1>3
  <2>2. Before(first) \in SUBSET Before(m)
    <3> SUFFICES ASSUME NEW k \in rest, k < first PROVE k < m
      OBVIOUS
    <3>1. k \in Nat /\ first \in Nat /\ m \in Nat
      BY <1>1, <1>6, <2>1
    <3> HIDE DEF Before, later
    <3> QED BY <2>1, <3>1
  <2>3. Cardinality(Before(first)) <= Cardinality(Before(m))
    BY <1>2, <2>2, FS_Subset
  <2>4. Cardinality(Before(m)) < AssetPage
    BY <1>3, <2>1
  <2>5. Cardinality(Before(m)) \in Nat /\ Cardinality(Before(first)) \in Nat
    BY <1>2
  <2> HIDE DEF Before
  <2> QED BY <1>a, <1>6, <2>3, <2>4, <2>5
<1>9. Before(first) # {}
  <2>1. Cardinality({}) = 0
    BY FS_EmptySet
  <2> HIDE DEF Before
  <2> QED BY <1>a, <1>6, <2>1
<1>10. page # {} /\ page \subseteq 1 .. AssetNumbers
  BY <1>1, <1>3, <1>7, <1>9 DEF Asked
<1>11. PICK greatest \in page : \A m \in page : greatest >= m
  BY <1>a, <1>10, Largest
<1>12. Assets!Last(page) \in page /\ \A m \in page : m <= Assets!Last(page)
  <2>1. greatest \in page /\ \A m \in page : m <= greatest
    BY <1>a, <1>10, <1>11
  <2> QED BY <2>1 DEF Assets!Last
<1> DEFINE last1 == Assets!Last(page)
           low == Below(all, cursor)
           high == Below(all, last1)
           block == Before(first)
<1>13. last1 \in Nat /\ last1 < first /\ last1 < number /\ last1 > cursor
  <2>1. last1 \in Nat /\ last1 < first /\ last1 > cursor
    BY <1>1, <1>3, <1>8, <1>12
  <2> QED BY <1>1, <1>6, <2>1
<1>14. block \subseteq high /\ low \subseteq high /\ low \cap block = {} /\ high \in SUBSET Asked /\
         low \in SUBSET Asked
  <2>1. \A m \in block : m \in all /\ m <= last1 /\ m > cursor /\ m \in Nat
    BY <1>1, <1>7, <1>12
  <2>2. \A m \in low : m \in all /\ m <= cursor /\ m \in Nat
    BY <1>a DEF Below, Asked
  <2> HIDE DEF block, last1
  <2>3. \A m \in low : m <= last1
    BY <1>1, <1>13, <2>2
  <2>4. block \subseteq high /\ low \subseteq high
    BY <2>1, <2>2, <2>3 DEF Below
  <2>5. low \cap block = {}
    <3> HIDE DEF low
    <3> QED BY <1>1, <2>1, <2>2
  <2> QED BY <2>4, <2>5 DEF Below
<1>15. Cardinality(block) >= AssetPage /\ IsFiniteSet(block) /\ Cardinality(block) \in Nat
  BY <1>2, <1>6
<1> HIDE DEF block, low, high, last1
<1>16. IsFiniteSet(low) /\ Cardinality(low) \in Nat /\ IsFiniteSet(high) /\ Cardinality(high) \in Nat
  BY <1>14, AssetFinite
<1>17. Cardinality(low \cup block) = Cardinality(low) + Cardinality(block)
  <2>1. Cardinality({}) = 0
    BY FS_EmptySet
  <2>2. Cardinality(low \cup block) = Cardinality(low) + Cardinality(block) - Cardinality(low \cap block)
    BY <1>15, <1>16, FS_Union
  <2> QED BY <1>14, <1>15, <1>16, <2>1, <2>2
<1>18. low \cup block \in SUBSET high
  BY <1>14
<1>19. Cardinality(low \cup block) <= Cardinality(high)
  BY <1>16, <1>18, FS_Subset
<1>20. Cardinality(high) >= Cardinality(low) + AssetPage
  BY <1>a, <1>15, <1>16, <1>17, <1>19
<1> QED BY <1>10, <1>12, <1>13, <1>20 DEF low, high, last1

\* An operation that ends for a reason.
LEMMA AssetsEnds ==
  ASSUME AssetsInv, NEW a \in Assets!Answers, Assets!Ends(a), Reason(a), check.pc # "idle"
  PROVE  AssetsInv'
<1>1. /\ check' = [check EXCEPT !.pc = "ended", !.answer = a]
      /\ UNCHANGED <<home, granted, token, subscribed, changes, still, stayed>>
  BY DEF Assets!Ends, Assets!Advances, Assets!world
<1>2. check' \in CheckRows /\ check'.pc = "ended" /\ check'.answer = a
      /\ check'.op = check.op /\ check'.waba = check.waba /\ check'.number = check.number /\
          check'.page = check.page
  BY <1>1 DEF AssetsInv, AssetShape, CheckRows
<1>3. AssetShape'
  BY <1>1, <1>2 DEF AssetsInv, AssetShape
<1>4. AssetPlaces'
  BY <1>2 DEF AssetsInv, AssetPlaces
<1>5. AssetKnown' /\ AssetWalk'
  BY <1>2 DEF AssetKnown, AssetWalk
<1>6. Reason(a)'
  BY <1>1, <1>2 DEF Reason, Assets!Listed, Assets!InReach
<1> QED BY <1>2, <1>3, <1>4, <1>5, <1>6 DEF AssetsInv

\* What the provider does changes what was learned: nothing is still so.
LEMMA ProviderKeeps == AssetsInv /\ Assets!ProviderChanges => AssetsInv'
<1> SUFFICES ASSUME AssetsInv, Assets!ProviderChanges PROVE AssetsInv'
  OBVIOUS
<1>a. AssetChanges \in Nat /\ AssetShape
  BY Bounds DEF Assets!AssetsAssumption, AssetsInv
<1>1. check' = check /\ still' = FALSE /\ stayed' = {n \in stayed : home'[n] = check.waba} /\
        changes' \in 0 .. AssetChanges
  BY <1>a DEF Assets!ProviderChanges, AssetShape
<1>2. /\ home' \in [Asked -> AssetWabas \cup {Assets!NoWaba}] /\ granted' \subseteq AssetWabas
      /\ subscribed' \subseteq AssetWabas /\ token' \in {"valid", "narrow", "expired"}
  <2>1. CASE \E n \in Asked, w \in AssetWabas \cup {Assets!NoWaba} : home' = [home EXCEPT ![n] = w]
                 /\ UNCHANGED <<granted, token, subscribed>>
    BY <1>a, <2>1 DEF AssetShape
  <2>2. CASE granted' \in SUBSET AssetWabas /\ UNCHANGED <<home, token, subscribed>>
    BY <1>a, <2>2 DEF AssetShape
  <2>3. CASE token' \in {"narrow", "expired"} /\ UNCHANGED <<home, granted, subscribed>>
    BY <1>a, <2>3 DEF AssetShape
  <2>4. CASE \E w \in AssetWabas : subscribed' = subscribed \ {w} /\ UNCHANGED <<home, granted, token>>
    BY <1>a, <2>4 DEF AssetShape
  <2> QED BY <2>1, <2>2, <2>3, <2>4 DEF Assets!ProviderChanges, Asked, Assets!Numbers
<1>3. AssetShape'
  BY <1>a, <1>1, <1>2 DEF AssetShape
<1>4. AssetPlaces' /\ AssetKnown'
  BY <1>1 DEF AssetsInv, AssetPlaces, AssetKnown
<1>5. stayed' \subseteq stayed /\ stayed' \subseteq Assets!Listed(check.waba)'
  BY <1>a, <1>1 DEF Assets!Listed, AssetShape, Asked, Assets!Numbers
<1>6. AssetWalk'
  BY <1>1, <1>5 DEF AssetsInv, AssetWalk
<1>7. check'.pc = "ended" => Reason(check.answer)'
  BY <1>1, <1>5 DEF AssetsInv, Reason
<1> QED BY <1>1, <1>3, <1>4, <1>6, <1>7 DEF AssetsInv

\* An operation begins with nothing learned.
LEMMA AssetsBegin ==
  ASSUME AssetsInv, NEW op \in AssetOperations, NEW w \in AssetWabas, NEW n \in Asked, Assets!Begins(op, w, n)
  PROVE  AssetsInv'
<1>a. /\ AssetNumbers \in Nat /\ AssetPages \in Nat \ {0} /\ AssetPage \in Nat /\ AssetShape
      /\ op \in {"signup", "manual", "test", "reconnect", "phone", "ycloud"}
  BY Bounds DEF Assets!AssetsAssumption, AssetsInv
<1> DEFINE pc1 == CASE op = "signup" -> "exchange" [] op \in {"phone", "ycloud"} -> "phones" [] OTHER -> "inspect"
           w1 == IF op = "signup" THEN Assets!NoWaba ELSE w
           n1 == IF op = "signup" THEN 0 ELSE n
           c == [Assets!NoCheck EXCEPT !.op = op, !.pc = pc1, !.waba = w1, !.number = n1]
<1>1. /\ check' = c /\ still' = TRUE /\ stayed' = (IF op = "ycloud" THEN Assets!Listed(w) ELSE {})
      /\ UNCHANGED <<home, granted, token, subscribed, changes>>
  BY DEF Assets!Begins, Assets!world
<1>2. /\ op = "signup" => pc1 = "exchange"
      /\ op \in {"phone", "ycloud"} => pc1 = "phones"
      /\ op \in {"manual", "test", "reconnect"} => pc1 = "inspect"
  OBVIOUS
<1>3. w1 \in AssetWabas \cup {Assets!NoWaba} /\ n1 \in 0 .. AssetNumbers /\ (op # "signup" => n1 \in Asked)
  BY <1>a DEF Asked
<1> HIDE DEF pc1, w1, n1
<1>4. c \in CheckRows /\ c.op = op /\ c.pc = pc1 /\ c.number = n1 /\ c.page = 0 /\ c.cursor = 0
  <2>1. pc1 \in {"exchange", "inspect", "phones"}
    BY <1>a, <1>2
  <2>2. 0 \in 0 .. AssetPages /\ 0 \in 0 .. AssetNumbers
    BY <1>a
  <2> QED BY <1>3, <2>1, <2>2 DEF CheckRows, Assets!NoCheck, Assets!Answers
<1> HIDE DEF c
<1>5. AssetShape'
  BY <1>a, <1>1, <1>4 DEF AssetShape, Assets!Listed, Asked, Assets!Numbers
<1>6. pc1 \in {"exchange", "inspect", "phones"} /\ (pc1 = "phones" => op \in {"phone", "ycloud"})
      /\ (pc1 = "exchange" <=> op = "signup") /\ (pc1 = "inspect" => op \in {"manual", "test", "reconnect"})
  BY <1>a, <1>2
<1>7. AssetPlaces'
  BY <1>a, <1>1, <1>3, <1>4, <1>6 DEF AssetPlaces
<1>8. AssetKnown'
  BY <1>1, <1>4, <1>6 DEF AssetKnown, Assets!OfPopup
<1>9. AssetWalk'
  <2>1. 0 * AssetPage = 0 /\ \A S : S \subseteq Asked => Cardinality(S) >= 0
    BY <1>a, AssetFinite
  <2>2. {m \in Assets!Listed(check.waba)' : m < check'.number} \subseteq Asked
    BY DEF Assets!Listed, Asked, Assets!Numbers
  <2>3. Cardinality({m \in Assets!Listed(check.waba)' : m < check'.number}) >= 0
    BY <2>1, <2>2
  <2> QED BY <1>1, <1>4, <1>6, <2>1, <2>3 DEF AssetWalk
<1> QED BY <1>1, <1>4, <1>5, <1>6, <1>7, <1>8, <1>9 DEF AssetsInv

\* The token of the popup, and what the token says.
LEMMA AssetsInspect ==
  ASSUME AssetsInv, Assets!Exchanges \/ Assets!Inspects
  PROVE  AssetsInv'
<1>a. /\ AssetShape /\ check \in CheckRows /\ Assets!IsFiniteSet(AssetWabas)
      /\ check.pc \in {"exchange", "inspect"} /\ check.page = 0 /\ check.cursor = 0
      /\ check.op \in {"signup", "manual", "test", "reconnect"}
  BY Bounds DEF Assets!AssetsAssumption, AssetsInv, AssetShape, AssetPlaces, Assets!Exchanges, Assets!Inspects,
      Assets!At
<1>b. IsFiniteSet(granted)
  <2>1. IsFiniteSet(AssetWabas)
    BY <1>a DEF Assets!IsFiniteSet, IsFiniteSet
  <2> QED BY <1>a, <2>1, FS_Subset DEF AssetShape
<1>c. Cardinality(granted) = 1 <=> \E w : granted = {w}
  BY <1>b, FS_Singleton
<1>1. ASSUME NEW w \in AssetWabas \cup {Assets!NoWaba}, NEW pc1 \in {"inspect", "owner"},
             Assets!Advances([check EXCEPT !.pc = pc1, !.waba = w]),
             pc1 = "owner" => token = "valid" /\ w \in granted /\ (check.op \in Assets!OfPopup => granted = {w})
      PROVE  AssetsInv'
  <2> DEFINE c == [check EXCEPT !.pc = pc1, !.waba = w]
  <2>1. c \in CheckRows /\ c.pc = pc1 /\ c.waba = w /\ c.op = check.op /\ c.number = check.number
        /\ c.page = check.page /\ c.cursor = check.cursor
    BY <1>a DEF CheckRows
  <2>2. check' = c /\ UNCHANGED <<home, granted, token, subscribed, changes, still, stayed>>
    BY <1>1 DEF Assets!Advances, Assets!world
  <2> HIDE DEF c
  <2>3. AssetShape'
    BY <1>a, <2>1, <2>2 DEF AssetShape
  <2>4. AssetPlaces'
    BY <1>a, <2>1, <2>2 DEF AssetsInv, AssetPlaces
  <2>5. AssetKnown' /\ AssetWalk' /\ check'.pc # "ended"
    BY <1>1, <2>1, <2>2 DEF AssetKnown, AssetWalk
  <2> QED BY <2>3, <2>4, <2>5 DEF AssetsInv
<1>2. ASSUME NEW a \in {"authentication", "permissions", "ambiguous"}, Assets!Ends(a), Reason(a) PROVE AssetsInv'
  BY <1>a, <1>2, AssetsEnds DEF Assets!Answers
<1>s. ASSUME NEW pc1 PROVE [check EXCEPT !.pc = pc1] = [check EXCEPT !.pc = pc1, !.waba = check.waba]
  BY <1>a DEF CheckRows
<1>3. CASE Assets!Exchanges
  <2>1. Assets!Advances([check EXCEPT !.pc = "inspect", !.waba = check.waba]) /\
          check.waba \in AssetWabas \cup {Assets!NoWaba}
    BY <1>a, <1>s, <1>3 DEF Assets!Exchanges, CheckRows
  <2> QED BY <1>1, <2>1
<1>4. CASE Assets!Inspects
  <2>1. CASE token # "valid" /\ Assets!Ends(IF token = "expired" THEN "authentication" ELSE "permissions")
    <3>1. CASE token = "expired"
      <4>1. Reason("authentication")
        BY <3>1 DEF Reason
      <4> QED BY <1>2, <2>1, <3>1, <4>1
    <3>2. CASE token # "expired"
      <4>1. Reason("permissions")
        BY <2>1 DEF Reason
      <4> QED BY <1>2, <2>1, <3>2, <4>1
    <3> QED BY <3>1, <3>2
  <2>2. ASSUME Assets!Advances([check EXCEPT !.pc = "owner"]), check.waba \in granted, token = "valid",
               check.op = "manual" \/ granted = {check.waba}
        PROVE  AssetsInv'
    <3>1. Assets!Advances([check EXCEPT !.pc = "owner", !.waba = check.waba]) /\
            check.waba \in AssetWabas \cup {Assets!NoWaba}
      BY <1>a, <1>s, <2>2 DEF CheckRows
    <3> QED BY <1>1, <2>2, <3>1 DEF Assets!OfPopup
  <2>3. ASSUME Assets!Ends("permissions"), check.waba \notin granted \/ ~ \E w : granted = {w} PROVE AssetsInv'
    <3>1. Reason("permissions")
      BY <1>c, <2>3 DEF Reason
    <3> QED BY <1>2, <2>3, <3>1
  <2>4. CASE /\ token = "valid" /\ check.op = "manual"
             /\ IF check.waba \in granted
                THEN Assets!Advances([check EXCEPT !.pc = "owner"]) ELSE Assets!Ends("permissions")
    BY <2>2, <2>3, <2>4
  <2>5. CASE /\ token = "valid" /\ check.op = "signup"
             /\ IF Assets!OnlyOne(granted)
                THEN \E w \in granted : Assets!Advances([check EXCEPT !.pc = "owner", !.waba = w])
                ELSE Assets!Ends("ambiguous")
    <3>1. CASE Assets!OnlyOne(granted)
      <4>1. PICK w \in granted : Assets!Advances([check EXCEPT !.pc = "owner", !.waba = w])
        BY <2>5, <3>1
      <4>2. granted = {w} /\ w \in AssetWabas \cup {Assets!NoWaba}
        BY <1>a, <1>c, <3>1, <4>1, AssetCounted DEF Assets!OnlyOne, AssetShape
      <4> QED BY <1>1, <2>5, <4>1, <4>2
    <3>2. CASE ~ Assets!OnlyOne(granted)
      <4>1. Reason("ambiguous")
        BY <3>2, AssetCounted DEF Reason, Assets!OnlyOne
      <4> QED BY <1>2, <2>5, <3>2, <4>1
    <3> QED BY <3>1, <3>2
  <2>6. CASE /\ token = "valid" /\ check.op \in {"test", "reconnect"}
             /\ IF granted = {check.waba}
                THEN Assets!Advances([check EXCEPT !.pc = "owner"]) ELSE Assets!Ends("permissions")
    <3>1. granted # {check.waba} => check.waba \notin granted \/ ~ \E w : granted = {w}
      OBVIOUS
    <3> QED BY <2>2, <2>3, <2>6, <3>1
  <2> QED BY <1>4, <2>1, <2>4, <2>5, <2>6 DEF Assets!Inspects
<1> QED BY <1>3, <1>4

\* A step of an operation that only goes on.
AssetMoves(pc1, number, page, cursor) ==
  /\ check' \in CheckRows /\ check'.pc = pc1 /\ check'.number = number /\ check'.page = page
  /\ check'.cursor = cursor /\ check'.op = check.op /\ check'.waba = check.waba
  /\ UNCHANGED <<home, granted, token, changes, still>>

\* The owner is read; the walk begins.
LEMMA AssetsOwner ==
  ASSUME AssetsInv, Assets!ReadsOwner
  PROVE  AssetsInv'
<1>a. /\ AssetShape /\ check \in CheckRows /\ check.pc = "owner" /\ check.page = 0 /\ check.cursor = 0
      /\ check.op \in {"signup", "manual", "test", "reconnect"}
      /\ check.op # "signup" => check.number \in Asked
      /\ AssetNumbers \in Nat /\ AssetPage \in Nat
  BY Bounds DEF Assets!AssetsAssumption, AssetsInv, AssetShape, AssetPlaces, Assets!ReadsOwner, Assets!At
<1>1. CASE Assets!Accepted
  <2>1. AssetMoves("phones", check.number, 0, 0) /\ stayed' = Assets!Listed(check.waba) /\ UNCHANGED subscribed
    BY <1>a, <1>1 DEF Assets!ReadsOwner, AssetMoves, CheckRows, Assets!world
  <2>2. AssetShape'
    BY <1>a, <2>1 DEF AssetShape, AssetMoves, Assets!Listed, Asked, Assets!Numbers
  <2>3. AssetPlaces'
    BY <1>a, <2>1 DEF AssetsInv, AssetPlaces, AssetMoves
  <2>4. AssetKnown'
    BY <1>a, <2>1 DEF AssetsInv, AssetKnown, AssetMoves
  <2>5. Assets!Listed(check.waba)' = Assets!Listed(check.waba)
    BY <2>1 DEF AssetMoves, Assets!Listed
  <2>6. ASSUME NEW ns \in SUBSET Asked, check.number \in Asked PROVE Beyond(ns, check.number, 0, 0)
    <3>1. check.number > 0 /\ 0 * AssetPage = 0
      BY <1>a, <2>6 DEF Asked
    <3>2. Below(ns, 0) \in SUBSET Asked
      BY DEF Below
    <3> QED BY <3>1, <3>2, AssetFinite DEF Beyond
  <2>7. Assets!Listed(check.waba) \in SUBSET Asked /\ Asked \in SUBSET Asked
    BY DEF Assets!Listed, Asked, Assets!Numbers
  <2>8. AssetWalk'
    BY <1>a, <2>1, <2>5, <2>6, <2>7 DEF AssetWalk, AssetMoves
  <2> QED BY <2>1, <2>2, <2>3, <2>4, <2>8 DEF AssetsInv, AssetMoves
<1>2. CASE ~ Assets!Accepted
  <2>1. Assets!Ends("authentication")
    BY <1>2 DEF Assets!ReadsOwner
  <2>2. Reason("authentication") /\ "authentication" \in Assets!Answers
    BY <1>a, <1>2 DEF Reason, Assets!Accepted, Assets!Answers
  <2> QED BY <1>a, <2>1, <2>2, AssetsEnds
<1> QED BY <1>1, <1>2

\* A refused token ends an operation that is not of one number.
LEMMA AssetsRefused ==
  ASSUME AssetsInv, ~ Assets!Accepted, Assets!Ends("authentication"), check.pc # "idle", check.op # "phone"
  PROVE  AssetsInv'
<1>1. Reason("authentication") /\ "authentication" \in Assets!Answers
  BY DEF Reason, Assets!Accepted, Assets!Answers
<1> QED BY <1>1, AssetsEnds

\* The only number of the account.
LEMMA AssetsOnlyPhone ==
  ASSUME AssetsInv, Assets!ReadsOnlyPhone
  PROVE  AssetsInv'
<1>a. /\ AssetShape /\ check \in CheckRows /\ check.pc = "phones" /\ check.op \in {"signup", "test", "reconnect"}
      /\ check.page < AssetPages
      /\ check.op # "signup" => check.number \in Asked
  BY DEF AssetsInv, AssetShape, AssetPlaces, Assets!ReadsOnlyPhone, Assets!At
<1> DEFINE ns == Assets!Listed(check.waba)
<1>b. ns \in SUBSET Asked
  BY DEF Assets!Listed, Asked, Assets!Numbers
<1>c. IsFiniteSet(ns) /\ (Cardinality(ns) = 1 <=> \E n : ns = {n})
  BY <1>b, AssetFinite, FS_Singleton
<1>1. ASSUME NEW n \in Asked, ns = {n}, NEW pc1 \in {"subscribe", "subscription"},
             Assets!Advances([check EXCEPT !.pc = pc1, !.number = n]),
             pc1 = "subscribe" <=> check.op = "signup"
      PROVE  AssetsInv'
  <2>1. n \in 0 .. AssetNumbers
    BY DEF Asked
  <2>2. AssetMoves(pc1, n, check.page, check.cursor) /\ UNCHANGED <<subscribed, stayed>>
    BY <1>a, <1>1, <2>1 DEF AssetMoves, Assets!Advances, Assets!world, CheckRows
  <2>3. AssetShape'
    BY <1>a, <2>2 DEF AssetShape, AssetMoves
  <2>4. AssetPlaces'
    BY <1>a, <1>1, <2>2 DEF AssetsInv, AssetPlaces, AssetMoves
  <2>5. Assets!Listed(check.waba)' = ns
    BY <2>2 DEF AssetMoves, Assets!Listed
  <2>6. check.op # "manual"
    BY <1>a
  <2> HIDE DEF ns
  <2>7. AssetKnown'
    BY <1>a, <1>1, <2>2, <2>5, <2>6 DEF AssetsInv, AssetKnown, AssetMoves
  <2>8. AssetWalk' /\ check'.pc # "ended"
    BY <1>1, <2>2 DEF AssetMoves, AssetWalk
  <2> QED BY <2>3, <2>4, <2>7, <2>8 DEF AssetsInv
<1>2. CASE ~ Assets!Accepted /\ Assets!Ends("authentication")
  BY <1>a, <1>2, AssetsRefused
<1>3. CASE Assets!Accepted /\ ~ Assets!Unequivocal(ns) /\ Assets!Ends("ambiguous")
  <2>1. Reason("ambiguous") /\ "ambiguous" \in Assets!Answers
    BY <1>3, AssetCounted DEF Reason, Assets!Unequivocal, Assets!Answers
  <2> QED BY <1>a, <1>3, <2>1, AssetsEnds
<1>4. CASE /\ Assets!Accepted /\ Assets!Unequivocal(ns)
           /\ IF check.op = "signup"
              THEN \E n \in ns : Assets!Advances([check EXCEPT !.pc = "subscribe", !.number = n])
              ELSE IF check.number \in ns THEN Assets!Advances([check EXCEPT !.pc = "subscription"])
              ELSE Assets!Ends("changed")
  <2>1. \E n : ns = {n}
    BY <1>c, <1>4, AssetCounted DEF Assets!Unequivocal
  <2>2. CASE check.op = "signup"
    <3>1. PICK n \in ns : Assets!Advances([check EXCEPT !.pc = "subscribe", !.number = n])
      BY <1>4, <2>2
    <3>2. n \in Asked /\ ns = {n}
      BY <1>b, <2>1, <3>1
    <3> HIDE DEF ns
    <3> QED BY <1>1, <2>2, <3>1, <3>2
  <2>3. CASE check.op # "signup" /\ check.number \in ns
    <3>1. Assets!Advances([check EXCEPT !.pc = "subscription"])
      BY <1>4, <2>3
    <3>2. [check EXCEPT !.pc = "subscription"] = [check EXCEPT !.pc = "subscription", !.number = check.number]
      BY <1>a DEF CheckRows
    <3>3. check.number \in Asked /\ ns = {check.number}
      BY <1>a, <2>1, <2>3
    <3> HIDE DEF ns
    <3> QED BY <1>1, <2>3, <3>1, <3>2, <3>3
  <2>4. CASE check.op # "signup" /\ check.number \notin ns
    <3>1. Assets!Ends("changed")
      BY <1>4, <2>4
    <3>2. Reason("changed") /\ "changed" \in Assets!Answers
      BY DEF Reason, Assets!Answers
    <3> QED BY <1>a, <3>1, <3>2, AssetsEnds
  <2> QED BY <2>2, <2>3, <2>4
<1> QED BY <1>2, <1>3, <1>4 DEF Assets!ReadsOnlyPhone

\* Multiplication by the size of a page.
LEMMA OnePageMore == \A n \in Nat : AssetPage \in Nat => (n + 1) * AssetPage = n * AssetPage + AssetPage /\
    n * AssetPage \in Nat
OBVIOUS

\* The walk over the pages of the account.
LEMMA AssetsWalk ==
  ASSUME AssetsInv, Assets!WalksPhones
  PROVE  AssetsInv'
<1>a. /\ AssetShape /\ check \in CheckRows /\ check.pc = "phones" /\ check.op = "manual"
      /\ check.page < AssetPages /\ check.number \in Asked /\ check.page \in Nat
      /\ check.cursor \in 0 .. AssetNumbers
      /\ AssetPage \in Nat \ {0} /\ AssetPages \in Nat \ {0} /\ AssetNumbers \in Nat
  BY Bounds DEF AssetsInv, AssetShape, AssetPlaces, Assets!WalksPhones, Assets!At, CheckRows,
      Assets!AssetsAssumption
<1> DEFINE ns == Assets!Listed(check.waba)
           page == Assets!NextPage(ns)
           seek == check.number
<1>b. ns \in SUBSET Asked
  BY DEF Assets!Listed, Asked, Assets!Numbers
<1>c. stayed \subseteq ns /\ (seek \in stayed => Beyond(Asked, seek, check.cursor, check.page))
      /\ (still /\ seek \in ns => Beyond(ns, seek, check.cursor, check.page))
  BY <1>a DEF AssetsInv, AssetWalk
<1>d. page = Assets!PageOf(Assets!After(ns, check.cursor)) /\ page \subseteq ns
  BY DEF Assets!NextPage, Assets!PageOf, Assets!After
<1> HIDE DEF page
<1>e. ASSUME NEW all \in SUBSET Asked, ns \subseteq all, seek \in ns, seek \notin page,
             Beyond(all, seek, check.cursor, check.page)
      PROVE  page # {} /\ Assets!After(ns, Assets!Last(page)) # {} /\
          Beyond(all, seek, Assets!Last(page), check.page + 1)
  <2>1. seek > check.cursor /\ check.page * AssetPage <= Cardinality(Below(all, check.cursor))
    BY <1>e DEF Beyond
  <2>2. /\ page # {} /\ Assets!Last(page) \in page /\ Assets!Last(page) < seek
        /\ Cardinality(Below(all, Assets!Last(page))) >= Cardinality(Below(all, check.cursor)) + AssetPage
    BY <1>a, <1>b, <1>d, <1>e, <2>1, FullPage
  <2>3. Assets!Last(page) \in Nat /\ seek \in Nat
    BY <1>a, <1>b, <1>d, <2>2 DEF Asked
  <2>4. seek \in Assets!After(ns, Assets!Last(page))
    BY <1>e, <2>2, <2>3 DEF Assets!After
  <2>5. Below(all, Assets!Last(page)) \in SUBSET Asked /\ Below(all, check.cursor) \in SUBSET Asked
    BY DEF Below
  <2>6. Cardinality(Below(all, Assets!Last(page))) \in Nat /\ Cardinality(Below(all, check.cursor)) \in Nat
    BY <2>5, AssetFinite
  <2>7. (check.page + 1) * AssetPage = check.page * AssetPage + AssetPage /\ check.page * AssetPage \in Nat
    BY <1>a, OnePageMore
  <2> DEFINE high == Cardinality(Below(all, Assets!Last(page)))
             low == Cardinality(Below(all, check.cursor))
             read == check.page * AssetPage
             next1 == (check.page + 1) * AssetPage
  <2>8. next1 <= high
    <3>1. next1 = read + AssetPage /\ read <= low /\ high >= low + AssetPage /\ read \in Nat /\ low \in Nat /\
            high \in Nat
      BY <2>1, <2>2, <2>6, <2>7
    <3> HIDE DEF next1, read, high, low
    <3> QED BY <1>a, <3>1
  <2>9. Assets!Last(page) < seek => seek > Assets!Last(page)
    BY <2>3
  <2> QED BY <2>2, <2>4, <2>8, <2>9 DEF Beyond
<1>f. ASSUME NEW all \in SUBSET Asked, seek \in all, check.page + 1 = AssetPages,
             NEW last1 \in Asked, Beyond(all, seek, last1, check.page + 1)
      PROVE  ~ Assets!InReach(seek, all)
  <2>1. Below(all, last1) \in SUBSET {m \in all : m < seek} /\ {m \in all : m < seek} \in SUBSET Asked
    <3>1. SUFFICES ASSUME NEW m \in all, m <= last1 PROVE m < seek
      BY DEF Below
    <3>2. m \in Nat /\ seek \in Nat /\ last1 \in Nat /\ seek > last1
      BY <1>a, <1>f DEF Asked, Beyond
    <3> QED BY <3>1, <3>2
  <2>2. IsFiniteSet({m \in all : m < seek}) /\ Cardinality({m \in all : m < seek}) \in Nat /\
          Cardinality(Below(all, last1)) \in Nat
    <3>1. Below(all, last1) \in SUBSET Asked
      BY <2>1
    <3> QED BY <2>1, <3>1, AssetFinite
  <2>3. Cardinality(Below(all, last1)) <= Cardinality({m \in all : m < seek})
    BY <2>1, <2>2, FS_Subset
  <2>4. AssetPages * AssetPage <= Cardinality(Below(all, last1))
    BY <1>f DEF Beyond
  <2>5. Assets!Cardinality({m \in all : m < seek}) = Cardinality({m \in all : m < seek})
    BY AssetCounted
  <2>6. AssetPages * AssetPage \in Nat
    BY <1>a, OnePageMore
  <2> DEFINE rank == Cardinality({m \in all : m < seek})
             low == Cardinality(Below(all, last1))
             reach == AssetPages * AssetPage
  <2>7. ~ (rank < reach)
    <3>1. rank \in Nat /\ low \in Nat /\ reach \in Nat /\ reach <= low /\ low <= rank
      BY <2>2, <2>3, <2>4, <2>6
    <3> HIDE DEF rank, low, reach
    <3> QED BY <3>1
  <2> QED BY <2>5, <2>7 DEF Assets!InReach
<1>1. CASE ~ Assets!Accepted /\ Assets!Ends("authentication")
  BY <1>a, <1>1, AssetsRefused
<1>2. CASE Assets!Accepted /\ seek \in page /\ Assets!Advances([check EXCEPT !.pc = "subscribe"])
  <2>1. AssetMoves("subscribe", seek, check.page, check.cursor) /\ UNCHANGED <<subscribed, stayed>>
    BY <1>a, <1>2 DEF AssetMoves, Assets!Advances, Assets!world, CheckRows
  <2>2. AssetShape'
    BY <1>a, <2>1 DEF AssetShape, AssetMoves
  <2>3. AssetPlaces'
    BY <1>a, <2>1 DEF AssetsInv, AssetPlaces, AssetMoves
  <2>4. home[seek] = check.waba
    BY <1>2, <1>d DEF Assets!Listed
  <2>5. AssetKnown'
    BY <1>a, <2>1, <2>4 DEF AssetsInv, AssetKnown, AssetMoves, Assets!OfPopup
  <2>6. AssetWalk' /\ check'.pc # "ended"
    BY <2>1 DEF AssetMoves, AssetWalk
  <2> QED BY <2>2, <2>3, <2>5, <2>6 DEF AssetsInv
<1>3. CASE /\ Assets!Accepted /\ seek \notin page
           /\ page # {} /\ Assets!After(ns, Assets!Last(page)) # {} /\ check.page + 1 < AssetPages
           /\ Assets!Advances([check EXCEPT !.page = check.page + 1, !.cursor = Assets!Last(page)])
  <2>0. Assets!Last(page) \in Asked
    <3>1. page \subseteq 1 .. AssetNumbers /\ page \subseteq Asked
      BY <1>b, <1>d DEF Asked
    <3>2. PICK greatest \in page : \A m \in page : greatest >= m
      BY <1>a, <1>3, <3>1, Largest
    <3>3. greatest \in page /\ \A m \in page : m <= greatest
      BY <1>a, <3>1, <3>2
    <3>4. Assets!Last(page) \in page
      BY <3>3 DEF Assets!Last
    <3> QED BY <3>1, <3>4
  <2>1. check.page + 1 \in 0 .. AssetPages /\ Assets!Last(page) \in 0 .. AssetNumbers
    BY <1>a, <1>3, <2>0 DEF Asked
  <2>2. AssetMoves("phones", seek, check.page + 1, Assets!Last(page)) /\ UNCHANGED <<subscribed, stayed>>
    BY <1>a, <1>3, <2>1 DEF AssetMoves, Assets!Advances, Assets!world, CheckRows
  <2>3. AssetShape'
    BY <1>a, <2>2 DEF AssetShape, AssetMoves
  <2>4. AssetPlaces'
    BY <1>a, <1>3, <2>2 DEF AssetsInv, AssetPlaces, AssetMoves
  <2>5. AssetKnown'
    BY <1>a, <2>2 DEF AssetsInv, AssetKnown, AssetMoves
  <2>6. Assets!Listed(check.waba)' = ns
    BY <2>2 DEF AssetMoves, Assets!Listed
  <2> HIDE DEF ns
  <2>7. seek \in stayed => Beyond(Asked, seek, Assets!Last(page), check.page + 1)
    BY <1>3, <1>b, <1>c, <1>e
  <2>8. still /\ seek \in ns => Beyond(ns, seek, Assets!Last(page), check.page + 1)
    BY <1>3, <1>b, <1>c, <1>e
  <2>9. AssetWalk'
    BY <1>a, <1>c, <2>2, <2>6, <2>7, <2>8 DEF AssetMoves, AssetWalk
  <2> QED BY <2>2, <2>3, <2>4, <2>5, <2>9 DEF AssetsInv, AssetMoves
<1>4. CASE /\ Assets!Accepted /\ seek \notin page
           /\ ~ (page # {} /\ Assets!After(ns, Assets!Last(page)) # {} /\ check.page + 1 < AssetPages)
           /\ Assets!Ends("not_listed")
  <2>1. ASSUME NEW all \in SUBSET Asked, ns \subseteq all, seek \in ns, Beyond(all, seek, check.cursor, check.page)
        PROVE  ~ Assets!InReach(seek, all)
    <3>1. page # {} /\ Assets!After(ns, Assets!Last(page)) # {} /\
            Beyond(all, seek, Assets!Last(page), check.page + 1)
      BY <1>4, <1>e, <2>1
    <3>2. check.page + 1 = AssetPages
      BY <1>a, <1>4, <3>1
    <3>3. Assets!Last(page) \in Asked
      <4>1. page \subseteq 1 .. AssetNumbers /\ page \subseteq Asked
        BY <1>b, <1>d DEF Asked
      <4>2. PICK greatest \in page : \A m \in page : greatest >= m
        BY <1>a, <3>1, <4>1, Largest
      <4>3. greatest \in page /\ \A m \in page : m <= greatest
        BY <1>a, <4>1, <4>2
      <4>4. Assets!Last(page) \in page
        BY <4>3 DEF Assets!Last
      <4> QED BY <4>1, <4>4
    <3> QED BY <1>f, <2>1, <3>1, <3>2, <3>3
  <2> HIDE DEF ns
  <2>2. still /\ seek \in ns => ~ Assets!InReach(seek, ns)
    BY <1>b, <1>c, <2>1
  <2>3. seek \in stayed => ~ Assets!InReach(seek, Asked)
    <3>1. Asked \in SUBSET Asked
      OBVIOUS
    <3> QED BY <1>b, <1>c, <2>1, <3>1
  <2>4. still => seek \notin {n \in ns : Assets!InReach(n, ns)}
    BY <2>2
  <2>5. Reason("not_listed") /\ "not_listed" \in Assets!Answers
    BY <2>3, <2>4 DEF Reason, Assets!Answers, ns
  <2> QED BY <1>4, <1>a, <2>5, AssetsEnds
<1> QED BY <1>1, <1>2, <1>3, <1>4 DEF Assets!WalksPhones, page

\* The walk over the pages of the account of a key.
LEMMA AssetsPages ==
  ASSUME AssetsInv, Assets!WalksPages
  PROVE  AssetsInv'
<1>a. /\ AssetShape /\ check \in CheckRows /\ check.pc = "phones" /\ check.op = "ycloud"
      /\ check.page < AssetPages /\ check.number \in Asked /\ check.page \in Nat
      /\ AssetPage \in Nat \ {0} /\ AssetPages \in Nat \ {0} /\ AssetNumbers \in Nat
  BY Bounds DEF AssetsInv, AssetShape, AssetPlaces, Assets!WalksPages, Assets!At, CheckRows, Assets!AssetsAssumption
<1> DEFINE ns == Assets!Listed(check.waba)
           Rank(n) == Cardinality({m \in ns : m < n})
           read == check.page * AssetPage
           next1 == (check.page + 1) * AssetPage
           page == {n \in ns : Rank(n) \in read .. next1 - 1}
           seek == check.number
<1>b. ns \in SUBSET Asked
  BY DEF Assets!Listed, Asked, Assets!Numbers
<1>c. still /\ seek \in ns => read <= Rank(seek)
  BY <1>a DEF AssetsInv, AssetWalk
<1>d. next1 = read + AssetPage /\ read \in Nat
  BY <1>a, OnePageMore
<1>e. \A n : {m \in ns : m < n} \in SUBSET ns /\ IsFiniteSet({m \in ns : m < n}) /\ Rank(n) \in Nat
  BY <1>b, AssetFinite
<1>f. seek \in ns => Rank(seek) < Cardinality(ns)
  <2> SUFFICES ASSUME seek \in ns PROVE Rank(seek) < Cardinality(ns)
    OBVIOUS
  <2>1. seek \notin {m \in ns : m < seek}
    BY <1>a, <1>b DEF Asked
  <2>2. IsFiniteSet(ns) /\ Cardinality(ns) \in Nat
    BY <1>b, AssetFinite
  <2>3. Rank(seek) <= Cardinality(ns) /\ (Cardinality(ns) = Rank(seek) => ns = {m \in ns : m < seek})
    BY <1>e, <2>2, FS_Subset
  <2>4. Cardinality(ns) # Rank(seek) /\ Rank(seek) \in Nat
    BY <1>e, <2>1, <2>3
  <2> DEFINE all == Cardinality(ns)
             below == Rank(seek)
  <2>5. all \in Nat /\ below \in Nat /\ below <= all /\ all # below
    BY <2>2, <2>3, <2>4
  <2> HIDE DEF all, below
  <2> SUFFICES below < all
    BY DEF all, below
  <2> QED BY <2>5
<1>g. \A S : Assets!Cardinality(S) = Cardinality(S)
  BY AssetCounted
<1>h. page = {n \in ns : Assets!Cardinality({m \in ns :
        m < n}) \in check.page * AssetPage .. (check.page + 1) * AssetPage - 1}
  BY <1>g
<1>i. /\ next1 = (check.page + 1) * AssetPage /\ \A n : Rank(n) = Cardinality({m \in ns : m < n})
      /\ ns = Assets!Listed(check.waba) /\ seek = check.number /\ read = check.page * AssetPage
  OBVIOUS
<1>j. seek \notin page /\ seek \in ns /\ read <= Rank(seek) => next1 <= Rank(seek)
  <2> DEFINE below == Rank(seek)
  <2>0. below \in Nat
    BY <1>e
  <2>1. next1 \in Nat /\ read \in Nat
    <3> HIDE DEF next1, read
    <3> QED BY <1>a, <1>d
  <2>2. seek \notin page /\ seek \in ns => below \notin read .. next1 - 1
    OBVIOUS
  <2> HIDE DEF below, read, next1, page, ns, Rank
  <2> SUFFICES seek \notin page /\ seek \in ns /\ read <= below => next1 <= below
    BY DEF below
  <2> QED BY <1>a, <1>d, <2>0, <2>1, <2>2
<1>1. CASE ~ Assets!Accepted /\ Assets!Ends("authentication")
  BY <1>a, <1>1, AssetsRefused
<1>2. CASE Assets!Accepted /\ seek \in page /\ Assets!Ends("ok")
  <2>1. home[seek] = check.waba /\ check.waba \in granted /\ token # "expired"
    BY <1>2 DEF Assets!Listed, Assets!Accepted
  <2>2. Reason("ok") /\ "ok" \in Assets!Answers
    BY <1>a, <2>1 DEF Reason, Assets!Answers, Assets!OfPopup
  <2> QED BY <1>a, <1>2, <2>2, AssetsEnds
<1>3. CASE /\ Assets!Accepted /\ seek \notin page
           /\ next1 < Cardinality(ns) /\ check.page + 1 < AssetPages
           /\ Assets!Advances([check EXCEPT !.page = check.page + 1])
  <2>1. check.page + 1 \in 0 .. AssetPages
    BY <1>a
  <2>2. AssetMoves("phones", seek, check.page + 1, check.cursor) /\ UNCHANGED <<subscribed, stayed>>
    BY <1>a, <1>3, <2>1 DEF AssetMoves, Assets!Advances, Assets!world, CheckRows
  <2>3. AssetShape'
    BY <1>a, <2>2 DEF AssetShape, AssetMoves
  <2>4. AssetPlaces'
    BY <1>a, <1>3, <2>2 DEF AssetsInv, AssetPlaces, AssetMoves
  <2>5. AssetKnown'
    BY <1>a, <2>2 DEF AssetsInv, AssetKnown, AssetMoves, Assets!OfPopup
  <2>6. Assets!Listed(check.waba)' = ns
    BY <2>2 DEF AssetMoves, Assets!Listed
  <2>7. still /\ seek \in ns => next1 <= Rank(seek)
    BY <1>3, <1>c, <1>j
  <2>8. still /\ seek \in ns => (check.page + 1) * AssetPage <= Cardinality({m \in ns : m < seek})
    BY <2>7
  <2> HIDE DEF ns, Rank, next1, read, page
  <2>9. AssetWalk'
    BY <1>a, <2>2, <2>6, <2>8 DEF AssetMoves, AssetWalk
  <2> QED BY <2>2, <2>3, <2>4, <2>5, <2>9 DEF AssetsInv, AssetMoves
<1>4. CASE /\ Assets!Accepted /\ seek \notin page
           /\ ~ (next1 < Cardinality(ns) /\ check.page + 1 < AssetPages)
           /\ Assets!Ends("not_listed")
  <2>1. still /\ seek \in ns => ~ Assets!InReach(seek, ns)
    <3> SUFFICES ASSUME still, seek \in ns PROVE ~ Assets!InReach(seek, ns)
      OBVIOUS
    <3>1. next1 <= Rank(seek) /\ Rank(seek) < Cardinality(ns)
      BY <1>4, <1>c, <1>f, <1>j
    <3>2. check.page + 1 = AssetPages
      <4>1. next1 \in Nat /\ Rank(seek) \in Nat /\ Cardinality(ns) \in Nat
        BY <1>a, <1>b, <1>d, <1>e, AssetFinite
      <4>2. next1 < Cardinality(ns)
        <5> DEFINE all == Cardinality(ns)
                   below == Rank(seek)
        <5>1. all \in Nat /\ below \in Nat /\ next1 \in Nat /\ next1 <= below /\ below < all
          BY <3>1, <4>1
        <5> HIDE DEF all, below, next1
        <5> SUFFICES next1 < all
          BY DEF all
        <5> QED BY <5>1
      <4> HIDE DEF next1, ns
      <4> QED BY <1>a, <1>4, <4>2
    <3>3. ~ (Rank(seek) < AssetPages * AssetPage)
      <4>0. next1 \in Nat
        <5> HIDE DEF next1, read
        <5> QED BY <1>a, <1>d
      <4>1. AssetPages * AssetPage = next1 /\ Rank(seek) \in Nat
        <5>1. AssetPages * AssetPage = next1
          BY <3>2
        <5> QED BY <1>e, <5>1
      <4> DEFINE below == Rank(seek)
                 reach == AssetPages * AssetPage
      <4>2. reach = next1 /\ next1 \in Nat /\ below \in Nat /\ next1 <= below
        BY <3>1, <4>0, <4>1
      <4> HIDE DEF below, reach, next1
      <4> SUFFICES ~ (below < reach)
        BY DEF below, reach
      <4> QED BY <4>2
    <3>4. Assets!Cardinality({m \in ns : m < seek}) = Rank(seek)
      BY <1>g
    <3> HIDE DEF Rank, ns
    <3> QED BY <3>3, <3>4 DEF Assets!InReach
  <2> HIDE DEF ns
  <2>2. still => seek \notin {n \in ns : Assets!InReach(n, ns)}
    BY <2>1
  <2>3. Reason("not_listed") /\ "not_listed" \in Assets!Answers
    BY <1>a, <2>2 DEF Reason, Assets!Answers, ns
  <2> QED BY <1>4, <1>a, <2>3, AssetsEnds
<1>5. \/ ~ Assets!Accepted /\ Assets!Ends("authentication")
      \/ Assets!Accepted /\ seek \in page /\ Assets!Ends("ok")
      \/ /\ Assets!Accepted /\ seek \notin page
         /\ IF next1 < Cardinality(ns) /\ check.page + 1 < AssetPages
            THEN Assets!Advances([check EXCEPT !.page = check.page + 1])
            ELSE Assets!Ends("not_listed")
  BY <1>g DEF Assets!WalksPages
<1> HIDE DEF page, next1, ns, Rank, read
<1> QED BY <1>1, <1>2, <1>3, <1>4, <1>5

\* The number of a form, read by its identifier.
LEMMA AssetsPhone ==
  ASSUME AssetsInv, Assets!ReadsPhone
  PROVE  AssetsInv'
<1>a. check.pc = "phones" /\ check.op = "phone"
  BY DEF Assets!ReadsPhone, Assets!At
<1>1. CASE token # "expired" /\ home[check.number] \in granted
  <2>1. Reason("ok") /\ "ok" \in Assets!Answers
    BY <1>a, <1>1 DEF Reason, Assets!Answers, Assets!OfPopup
  <2>2. Assets!Ends("ok")
    BY <1>1 DEF Assets!ReadsPhone
  <2> QED BY <1>a, <2>1, <2>2, AssetsEnds
<1>2. CASE ~ (token # "expired" /\ home[check.number] \in granted)
  <2>1. Reason("authentication") /\ "authentication" \in Assets!Answers
    BY <1>a, <1>2 DEF Reason, Assets!Answers
  <2>2. Assets!Ends("authentication")
    BY <1>2 DEF Assets!ReadsPhone
  <2> QED BY <1>a, <2>1, <2>2, AssetsEnds
<1> QED BY <1>1, <1>2

\* The subscription of a stored connection.
LEMMA AssetsSubscription ==
  ASSUME AssetsInv, Assets!ReadsSubscription
  PROVE  AssetsInv'
<1>a. /\ AssetShape /\ check \in CheckRows /\ check.pc = "subscription" /\ check.op \in {"test", "reconnect"}
      /\ check.number \in Asked /\ check.page < AssetPages
      /\ still => granted = {check.waba} /\ token = "valid" /\ Assets!Listed(check.waba) = {check.number}
  BY DEF AssetsInv, AssetShape, AssetPlaces, AssetKnown, Assets!ReadsSubscription, Assets!At, Assets!OfPopup
<1>1. CASE ~ Assets!Accepted /\ Assets!Ends("authentication")
  BY <1>a, <1>1, AssetsRefused
<1>2. CASE Assets!Accepted /\ check.waba \in subscribed /\ Assets!Ends("ok")
  <2>1. still => home[check.number] = check.waba
    BY <1>a DEF Assets!Listed
  <2>2. Reason("ok") /\ "ok" \in Assets!Answers
    BY <1>a, <1>2, <2>1 DEF Reason, Assets!Answers, Assets!OfPopup
  <2> QED BY <1>a, <1>2, <2>2, AssetsEnds
<1>3. CASE check.waba \notin subscribed /\ Assets!Ends("webhook_pending")
  <2>1. Reason("webhook_pending") /\ "webhook_pending" \in Assets!Answers
    BY <1>3 DEF Reason, Assets!Answers
  <2> QED BY <1>a, <1>3, <2>1, AssetsEnds
<1>4. CASE Assets!MaySubscribe /\ Assets!Advances([check EXCEPT !.pc = "subscribe"])
  <2>1. AssetMoves("subscribe", check.number, check.page, check.cursor) /\ UNCHANGED <<subscribed, stayed>>
    BY <1>a, <1>4 DEF AssetMoves, Assets!Advances, Assets!world, CheckRows
  <2>2. AssetShape'
    BY <1>a, <2>1 DEF AssetShape, AssetMoves
  <2>3. AssetPlaces'
    BY <1>a, <1>4, <2>1 DEF AssetsInv, AssetPlaces, AssetMoves, Assets!MaySubscribe
  <2>4. Assets!Listed(check.waba)' = Assets!Listed(check.waba)
    BY <2>1 DEF AssetMoves, Assets!Listed
  <2>5. AssetKnown'
    BY <1>a, <2>1, <2>4 DEF AssetsInv, AssetKnown, AssetMoves, Assets!OfPopup
  <2>6. AssetWalk' /\ check'.pc # "ended"
    BY <2>1 DEF AssetMoves, AssetWalk
  <2> QED BY <2>2, <2>3, <2>5, <2>6 DEF AssetsInv
<1> QED BY <1>1, <1>2, <1>3, <1>4 DEF Assets!ReadsSubscription

\* The webhook is subscribed.
LEMMA AssetsSubscribe ==
  ASSUME AssetsInv, Assets!Subscribes \/ Assets!SubscribesUnheard
  PROVE  AssetsInv'
<1>a. /\ AssetShape /\ check \in CheckRows /\ check.pc = "subscribe" /\
        check.op \in {"signup", "manual", "reconnect"}
      /\ check.page < AssetPages /\ (check.op # "signup" => check.number \in Asked)
      /\ still /\ check.op \in Assets!OfPopup =>
           granted = {check.waba} /\ token = "valid" /\ Assets!Listed(check.waba) = {check.number}
      /\ still /\ check.op = "manual" => token = "valid" /\ check.waba \in granted /\
          home[check.number] = check.waba
  BY DEF AssetsInv, AssetShape, AssetPlaces, AssetKnown, Assets!Subscribes, Assets!SubscribesUnheard, Assets!At
<1>1. CASE ~ Assets!Accepted /\ Assets!Ends("authentication")
  BY <1>a, <1>1, AssetsRefused
<1>2. ASSUME NEW pc1 \in {"confirm", "ended"}, NEW a \in {"ok", "unavailable", check.answer}, Assets!Accepted,
             check' = [check EXCEPT !.pc = pc1, !.answer = a], subscribed' = subscribed \cup {check.waba},
             UNCHANGED <<home, granted, token, changes, still, stayed>>,
             pc1 = "confirm" => check.op = "manual",
             pc1 = "ended" => a = "unavailable" \/ (a = "ok" /\ check.op # "manual")
      PROVE  AssetsInv'
  <2>0. a \in Assets!Answers
    BY <1>a DEF CheckRows, Assets!Answers
  <2>1. AssetMoves(pc1, check.number, check.page, check.cursor) /\ check'.answer = a /\ stayed' = stayed
    BY <1>a, <1>2, <2>0 DEF AssetMoves, CheckRows
  <2>2. subscribed' \subseteq AssetWabas
    BY <1>a, <1>2 DEF AssetShape, Assets!Accepted
  <2>3. AssetShape'
    BY <1>a, <2>1, <2>2 DEF AssetShape, AssetMoves
  <2>4. AssetPlaces'
    BY <1>a, <1>2, <2>1 DEF AssetsInv, AssetPlaces, AssetMoves
  <2>5. Assets!Listed(check.waba)' = Assets!Listed(check.waba)
    BY <2>1 DEF AssetMoves, Assets!Listed
  <2>6. AssetKnown'
    BY <1>a, <1>2, <2>1, <2>5 DEF AssetsInv, AssetKnown, AssetMoves, Assets!OfPopup
  <2>7. AssetWalk'
    BY <1>2, <2>1 DEF AssetMoves, AssetWalk
  <2>8. check'.pc = "ended" => Reason(check.answer)'
    <3> SUFFICES ASSUME pc1 = "ended" PROVE Reason(check.answer)'
      BY <2>1 DEF AssetMoves
    <3>1. CASE a = "unavailable"
      BY <2>1, <3>1 DEF Reason
    <3>2. CASE a = "ok"
      <4>1. check.op \in Assets!OfPopup /\ check.op # "phone"
        BY <1>a, <1>2, <3>2 DEF Assets!OfPopup
      <4>2. still => home[check.number] = check.waba
        BY <1>a, <4>1 DEF Assets!Listed
      <4>3. check.waba \in subscribed'
        BY <1>2
      <4> QED BY <1>a, <2>1, <2>5, <3>2, <4>1, <4>2, <4>3 DEF Reason, AssetMoves
    <3> QED BY <1>2, <3>1, <3>2
  <2> QED BY <2>3, <2>4, <2>6, <2>7, <2>8 DEF AssetsInv
<1>3. CASE Assets!SubscribesUnheard
  BY <1>2, <1>3 DEF Assets!SubscribesUnheard
<1>4. CASE /\ Assets!Accepted
           /\ subscribed' = subscribed \cup {check.waba}
           /\ check' = IF check.op = "manual" THEN [check EXCEPT !.pc = "confirm"]
                       ELSE [check EXCEPT !.pc = "ended", !.answer = "ok"]
           /\ UNCHANGED <<home, granted, token, changes, still, stayed>>
  <2>1. CASE check.op = "manual"
    <3>1. [check EXCEPT !.pc = "confirm"] = [check EXCEPT !.pc = "confirm", !.answer = check.answer]
      BY <1>a DEF CheckRows
    <3> QED BY <1>2, <1>4, <2>1, <3>1
  <2>2. CASE check.op # "manual"
    BY <1>2, <1>4, <2>2
  <2> QED BY <2>1, <2>2
<1> QED BY <1>1, <1>3, <1>4 DEF Assets!Subscribes

\* The form asks whether the webhook is subscribed.
LEMMA AssetsConfirm ==
  ASSUME AssetsInv, Assets!Confirms
  PROVE  AssetsInv'
<1>a. /\ check.pc = "confirm" /\ check.op = "manual"
      /\ still => token = "valid" /\ check.waba \in granted /\ home[check.number] = check.waba
  BY DEF AssetsInv, AssetPlaces, AssetKnown, Assets!Confirms, Assets!At
<1>1. CASE ~ Assets!Accepted /\ Assets!Ends("authentication")
  BY <1>a, <1>1, AssetsRefused
<1>2. CASE check.waba \in subscribed /\ Assets!Ends("ok")
  <2>1. Reason("ok") /\ "ok" \in Assets!Answers
    BY <1>a, <1>2 DEF Reason, Assets!Answers, Assets!OfPopup
  <2> QED BY <1>a, <1>2, <2>1, AssetsEnds
<1>3. CASE check.waba \notin subscribed /\ Assets!Ends("webhook_pending")
  <2>1. Reason("webhook_pending") /\ "webhook_pending" \in Assets!Answers
    BY <1>3 DEF Reason, Assets!Answers
  <2> QED BY <1>a, <1>3, <2>1, AssetsEnds
<1> QED BY <1>1, <1>2, <1>3 DEF Assets!Confirms

\* Every step keeps it, and a test only reads.
LEMMA AssetsStep == AssetsInv /\ [Assets!Next]_(Assets!vars) => AssetsInv' /\ Assets!TestOnlyReadsStep
<1> SUFFICES ASSUME AssetsInv, [Assets!Next]_(Assets!vars) PROVE AssetsInv' /\ Assets!TestOnlyReadsStep
  OBVIOUS
<1>1. AssetsInv'
  <2>1. CASE Assets!Unanswered
    <3>1. Assets!Ends("unavailable") /\ check.pc # "idle"
      BY <2>1 DEF Assets!Unanswered, Assets!At
    <3>2. Reason("unavailable") /\ "unavailable" \in Assets!Answers
      BY DEF Reason, Assets!Answers
    <3> QED BY <3>1, <3>2, AssetsEnds
  <2>2. CASE UNCHANGED Assets!vars
    <3>1. UNCHANGED <<home, granted, token, subscribed, check, changes, still, stayed>>
      BY <2>2 DEF Assets!vars, Assets!world
    <3>2. AssetShape' /\ AssetPlaces'
      BY <3>1 DEF AssetsInv, AssetShape, AssetPlaces
    <3>3. AssetKnown' /\ AssetWalk'
      BY <3>1 DEF AssetsInv, AssetKnown, AssetWalk, Assets!Listed
    <3>4. check'.pc = "ended" => Reason(check.answer)'
      BY <3>1 DEF AssetsInv, Reason, Assets!Listed, Assets!InReach
    <3> QED BY <3>2, <3>3, <3>4 DEF AssetsInv
  <2> QED BY <2>1, <2>2, ProviderKeeps, AssetsBegin, AssetsInspect, AssetsOwner, AssetsOnlyPhone, AssetsWalk,
             AssetsPages, AssetsPhone, AssetsSubscription, AssetsSubscribe, AssetsConfirm
          DEF Assets!Next, Assets!Numbers, Asked
<1>2. Assets!TestOnlyReadsStep
  <2>1. CASE Assets!Subscribes \/ Assets!SubscribesUnheard
    <3>1. check.op \in {"signup", "manual", "reconnect"}
      BY <2>1 DEF AssetsInv, AssetPlaces, Assets!Subscribes, Assets!SubscribesUnheard, Assets!At
    <3>2. subscribed' \subseteq subscribed \cup {check.waba}
      BY <2>1 DEF Assets!Subscribes, Assets!SubscribesUnheard, Assets!Ends, Assets!Advances, Assets!world
    <3> QED BY <3>1, <3>2 DEF Assets!TestOnlyReadsStep
  <2>2. ASSUME subscribed' \subseteq subscribed PROVE Assets!TestOnlyReadsStep
    BY <2>2 DEF Assets!TestOnlyReadsStep
  <2>3. ASSUME \E op \in AssetOperations, w \in AssetWabas, n \in Assets!Numbers : Assets!Begins(op, w, n)
          PROVE subscribed' \subseteq subscribed
    BY <2>3 DEF Assets!Begins, Assets!world
  <2>4. ASSUME Assets!ProviderChanges \/ UNCHANGED Assets!vars PROVE subscribed' \subseteq subscribed
    BY <2>4 DEF Assets!ProviderChanges, Assets!vars, Assets!world
  <2>5. ASSUME Assets!Unanswered \/ Assets!Exchanges \/ Assets!Inspects \/ Assets!ReadsOwner
          PROVE subscribed' \subseteq subscribed
    BY <2>5 DEF Assets!Unanswered, Assets!Exchanges, Assets!Inspects, Assets!ReadsOwner, Assets!Ends,
        Assets!Advances, Assets!world
  <2>6. ASSUME Assets!ReadsOnlyPhone \/ Assets!WalksPhones \/ Assets!WalksPages
          PROVE subscribed' \subseteq subscribed
    BY <2>6 DEF Assets!ReadsOnlyPhone, Assets!WalksPhones, Assets!WalksPages, Assets!Ends, Assets!Advances,
        Assets!world
  <2>7. ASSUME Assets!ReadsPhone \/ Assets!ReadsSubscription \/ Assets!Confirms
          PROVE subscribed' \subseteq subscribed
    BY <2>7 DEF Assets!ReadsPhone, Assets!ReadsSubscription, Assets!Confirms, Assets!Ends, Assets!Advances,
        Assets!world
  <2> QED BY <2>1, <2>2, <2>3, <2>4, <2>5, <2>6, <2>7 DEF Assets!Next
<1> QED BY <1>1, <1>2

------------------------------------------------------------------------------
(***************************************************************************)
(* The popup of Meta.                                                      *)
(***************************************************************************)
\* Why an attempt is exchanged once: one that waits for its code has not been, and neither
\* has one that does not exist yet; and what is being exchanged is running.
ExchangedOnce ==
  /\ \A a \in Popups!Attempts :
       /\ popupExchanged[a] <= 1
       /\ a > popupAttempt.id => popupExchanged[a] = 0 /\ a \notin popupRunning
  /\ popupAttempt.status = "AWAITING_CODE" =>
       popupAttempt.id \in Popups!Attempts /\ popupExchanged[popupAttempt.id] = 0
  /\ popupAttempt.status = "PROCESSING" => popupAttempt.id \in popupRunning
PopupInv == Popups!TypeOK /\ ExchangedOnce

\* Nothing was exchanged at the start.
LEMMA PopupInit == Popups!Init => PopupInv
BY Bounds DEF Popups!Init, Popups!PopupAssumption, PopupInv, ExchangedOnce, Popups!TypeOK,
   Popups!Attempts, Popups!NoCall, Popups!Answers, Popups!Unfinished

PopupCards == [pc : {"idle", "starting", "loading", "closing", "popup", "completing"},
               mounted : BOOLEAN, open : BOOLEAN, of : 0 .. PopupAttempts]
PopupCalls == [kind : {"none", "start", "complete"}, cookie : 0 .. PopupAttempts,
               answer : Popups!Answers, sets : 0 .. PopupAttempts]
PopupCancels == [by : Requests, of : 0 .. PopupAttempts, cookie : 0 .. PopupAttempts,
                 failed : BOOLEAN, handled : BOOLEAN]
PopupRows == [id : 0 .. PopupAttempts, live : BOOLEAN,
              status : Popups!Unfinished \cup {"NONE", "SUCCEEDED", "FAILED"}]
\* What the browser keeps.
BrowserShape ==
  /\ card \in [Requests -> PopupCards] /\ call \in [Requests -> PopupCalls]
  /\ cancels \subseteq PopupCancels /\ jar \in 0 .. PopupAttempts /\ clicks \in 0 .. PopupClicks
\* What the server keeps.
AttemptShape ==
  /\ popupAttempt \in PopupRows /\ popupRunning \subseteq Popups!Attempts
  /\ popupExchanged \in [Popups!Attempts -> Nat]

\* Both together are the types.
LEMMA PopupShape == Popups!TypeOK <=> BrowserShape /\ AttemptShape
BY DEF Popups!TypeOK, BrowserShape, AttemptShape, PopupCards, PopupCalls, PopupCancels, PopupRows

\* What a card does, its routes apart, changes nothing on the server.
LEMMA PopupCardStep ==
  ASSUME BrowserShape, NEW c \in Requests, Popups!OfCard(c),
         ~ Popups!HandlesStart(c), ~ Popups!HandlesComplete(c)
  PROVE  BrowserShape' /\ UNCHANGED <<popupAttempt, popupRunning, popupExchanged>>
<1>a. PopupAttempts \in Nat /\ PopupClicks \in Nat
  BY Bounds DEF Popups!PopupAssumption
<1>b. /\ card \in [Requests -> PopupCards] /\ call \in [Requests -> PopupCalls]
      /\ cancels \subseteq PopupCancels /\ jar \in 0 .. PopupAttempts /\ clicks \in 0 .. PopupClicks
      /\ card[c] \in PopupCards /\ call[c] \in PopupCalls
  BY DEF BrowserShape
<1>c. Popups!NoCall \in PopupCalls
  BY <1>a DEF PopupCalls, Popups!NoCall, Popups!Answers
<1>d. ASSUME NEW at \in {"idle", "starting", "loading", "closing", "popup", "completing"},
             NEW shown \in BOOLEAN, Popups!Goes(c, at, shown)
      PROVE  card' \in [Requests -> PopupCards]
  <2>1. card' = [card EXCEPT ![c].pc = at, ![c].open = shown]
    BY <1>d DEF Popups!Goes
  <2> QED BY <1>b, <2>1 DEF PopupCards
<1>e. ASSUME NEW kind \in {"start", "complete"}, Popups!Asks(c, kind)
      PROVE  call' \in [Requests -> PopupCalls]
  <2>1. call' = [call EXCEPT ![c] = [Popups!NoCall EXCEPT !.kind = kind, !.cookie = jar]]
    BY <1>e DEF Popups!Asks
  <2>2. [Popups!NoCall EXCEPT !.kind = kind, !.cookie = jar] \in PopupCalls
    BY <1>b, <1>c DEF PopupCalls
  <2> QED BY <1>b, <2>1, <2>2
<1>f. ASSUME NEW force \in BOOLEAN PROVE Popups!Cancelling(c, force) \subseteq PopupCancels
  <2>1. [by |-> c, of |-> card[c].of, cookie |-> jar, failed |-> force, handled |-> FALSE] \in PopupCancels
    BY <1>b DEF PopupCancels, PopupCards
  <2> QED BY <1>b, <2>1 DEF Popups!Cancelling
<1>g. [call EXCEPT ![c] = Popups!NoCall] \in [Requests -> PopupCalls]
  BY <1>b, <1>c
<1>1. CASE Popups!Clicks(c)
  <2>1. /\ Popups!Goes(c, "starting", FALSE) /\ Popups!Asks(c, "start")
        /\ clicks' = clicks + 1 /\ clicks < PopupClicks
        /\ UNCHANGED <<popupAttempt, popupRunning, popupExchanged, jar, cancels>>
    BY <1>1 DEF Popups!Clicks, Popups!Server
  <2>2. clicks' \in 0 .. PopupClicks
    BY <1>a, <1>b, <2>1
  <2>3. card' \in [Requests -> PopupCards] /\ call' \in [Requests -> PopupCalls]
    BY <1>d, <1>e, <2>1
  <2> QED BY <1>b, <2>1, <2>2, <2>3 DEF BrowserShape
<1>3. CASE Popups!StartLost(c)
  BY <1>a, <1>b, <1>d, <1>e, <1>f, <1>g, <1>3 DEF BrowserShape, Popups!StartLost, Popups!Kept, Popups!Server
<1>4. CASE Popups!Loads(c)
  BY <1>a, <1>b, <1>d, <1>e, <1>f, <1>g, <1>4 DEF BrowserShape, Popups!Loads, Popups!Kept, Popups!Server, PopupCards
<1>5. CASE Popups!LoadFails(c)
  BY <1>a, <1>b, <1>d, <1>e, <1>f, <1>g, <1>5 DEF BrowserShape, Popups!LoadFails, Popups!Kept, Popups!Server
<1>6. CASE Popups!Closed(c)
  BY <1>a, <1>b, <1>d, <1>e, <1>f, <1>g, <1>6 DEF BrowserShape, Popups!Closed, Popups!Kept, Popups!Server
<1>7. CASE Popups!PopupEnds(c)
  BY <1>a, <1>b, <1>d, <1>e, <1>f, <1>g, <1>7 DEF BrowserShape, Popups!PopupEnds, Popups!Kept, Popups!Server
<1>8. CASE Popups!PopupGivesCode(c)
  BY <1>a, <1>b, <1>d, <1>e, <1>f, <1>g, <1>8 DEF BrowserShape, Popups!PopupGivesCode, Popups!Kept, Popups!Server
<1>9. CASE Popups!Completed(c)
  <2>1. /\ Popups!Goes(c, "idle", FALSE) /\ call' = [call EXCEPT ![c] = Popups!NoCall]
        /\ jar' \in {jar, 0} /\ cancels' \in {Popups!Cancelling(c, TRUE), cancels}
        /\ UNCHANGED <<popupAttempt, popupRunning, popupExchanged, clicks>>
    BY <1>9 DEF Popups!Completed, Popups!Kept, Popups!Server
  <2>2. jar' \in 0 .. PopupAttempts /\ cancels' \subseteq PopupCancels
    <3>1. Popups!Cancelling(c, TRUE) \subseteq PopupCancels
      BY <1>f
    <3>2. cancels' \subseteq PopupCancels
      BY <1>b, <2>1, <3>1
    <3>3. jar' \in 0 .. PopupAttempts
      BY <1>a, <1>b, <2>1
    <3> QED BY <3>2, <3>3
  <2>3. card' \in [Requests -> PopupCards] /\ call' \in [Requests -> PopupCalls]
    BY <1>d, <1>g, <2>1
  <2> QED BY <1>b, <2>1, <2>2, <2>3 DEF BrowserShape
<1>10. CASE Popups!CompleteLost(c)
  BY <1>a, <1>b, <1>d, <1>e, <1>f, <1>g, <1>10 DEF BrowserShape, Popups!CompleteLost, Popups!Kept, Popups!Server
<1>2. CASE Popups!Started(c)
  <2> DEFINE of == IF call[c].sets > 0 THEN call[c].sets ELSE call[c].cookie
  <2>1. of \in 0 .. PopupAttempts /\ jar' \in 0 .. PopupAttempts
    BY <1>b, <1>2 DEF Popups!Started, PopupCalls
  <2>2. card' \in [Requests -> PopupCards]
    <3>1. CASE call[c].answer = "in_progress"
      BY <1>2, <1>d, <3>1 DEF Popups!Started
    <3>2. CASE call[c].answer # "in_progress"
      <4> HIDE DEF of
      <4>1. card' = [card EXCEPT ![c].of = of, ![c].open = card[c].mounted,
                       ![c].pc = IF card[c].mounted THEN "loading" ELSE "idle"]
        BY <1>2, <3>2 DEF Popups!Started, of
      <4> QED BY <1>b, <2>1, <4>1 DEF PopupCards
    <3> QED BY <3>1, <3>2
  <2>3. cancels' \subseteq PopupCancels
    <3> HIDE DEF of
    <3>1. cancels' \subseteq cancels \cup
            {[by |-> c, of |-> of, cookie |-> jar', failed |-> FALSE, handled |-> FALSE]}
      BY <1>2 DEF Popups!Started, of
    <3>2. [by |-> c, of |-> of, cookie |-> jar', failed |-> FALSE, handled |-> FALSE] \in PopupCancels
      BY <2>1 DEF PopupCancels
    <3> QED BY <1>b, <3>1, <3>2
  <2> QED
    BY <1>b, <1>g, <1>2, <2>1, <2>2, <2>3 DEF BrowserShape, Popups!Started, Popups!Kept, Popups!Server
<1>11. CASE Popups!Unmounts(c)
  <2>1. card' \in [Requests -> PopupCards]
    BY <1>b, <1>11 DEF Popups!Unmounts, PopupCards
  <2> QED
    BY <1>b, <1>f, <1>11, <2>1 DEF BrowserShape, Popups!Unmounts, Popups!Kept, Popups!Server
<1> QED
  BY <1>1, <1>2, <1>3, <1>4, <1>5, <1>6, <1>7, <1>8, <1>9, <1>10, <1>11 DEF Popups!OfCard

\* The routes, the time and the cards keep that a code is exchanged once.
LEMMA PopupStep == PopupInv /\ [Popups!Next]_(Popups!vars) => PopupInv'
<1> SUFFICES ASSUME PopupInv, [Popups!Next]_(Popups!vars) PROVE PopupInv'
  OBVIOUS
<1> USE DEF PopupInv
<1>a. PopupAttempts \in Nat /\ PopupClicks \in Nat
  BY Bounds DEF Popups!PopupAssumption
<1>b. BrowserShape /\ AttemptShape /\ ExchangedOnce
  BY PopupShape
<1>c. /\ popupAttempt \in PopupRows /\ popupAttempt.id \in 0 .. PopupAttempts
      /\ popupRunning \subseteq Popups!Attempts
      /\ popupExchanged \in [Popups!Attempts -> Nat]
  BY <1>b DEF AttemptShape, PopupRows
<1>d. SUFFICES BrowserShape' /\ AttemptShape' /\ ExchangedOnce'
  BY DEF Popups!TypeOK, BrowserShape, AttemptShape, PopupCards, PopupCalls, PopupCancels, PopupRows
<1>1. CASE UNCHANGED Popups!vars
  BY <1>1, <1>b DEF Popups!vars, BrowserShape, AttemptShape, ExchangedOnce
<1>2. ASSUME NEW a \in Popups!Attempts, NEW ok \in BOOLEAN, Popups!Exchanged(a, ok)
      PROVE  BrowserShape' /\ AttemptShape' /\ ExchangedOnce'
  <2>1. /\ popupAttempt' \in PopupRows /\ popupAttempt'.id = popupAttempt.id
        /\ popupAttempt'.status \in {popupAttempt.status, "SUCCEEDED", "FAILED"}
        /\ popupAttempt'.status = "PROCESSING" => popupAttempt.status = "PROCESSING" /\ popupAttempt.id # a
        /\ popupRunning' = popupRunning \ {a} /\ UNCHANGED <<jar, card, cancels, clicks, popupExchanged>>
    BY <1>2, <1>c DEF Popups!Exchanged, PopupRows
  <2>2. call' \in [Requests -> PopupCalls]
    BY <1>2, <1>b DEF Popups!Exchanged, Popups!Answers, BrowserShape, PopupCalls
  <2> QED
    BY <1>a, <1>b, <1>c, <2>1, <2>2 DEF BrowserShape, AttemptShape, ExchangedOnce, Popups!Attempts
<1>3. ASSUME NEW c \in Requests, Popups!OfCard(c)
      PROVE  BrowserShape' /\ AttemptShape' /\ ExchangedOnce'
  <2>0. /\ card \in [Requests -> PopupCards] /\ call \in [Requests -> PopupCalls]
        /\ call[c] \in PopupCalls
        /\ cancels \subseteq PopupCancels /\ jar \in 0 .. PopupAttempts /\ clicks \in 0 .. PopupClicks
    BY <1>b DEF BrowserShape
  <2>a. CASE Popups!HandlesStart(c)
    <3>1. \/ UNCHANGED popupAttempt
          \/ /\ popupAttempt.id < PopupAttempts
             /\ popupAttempt' = [id |-> popupAttempt.id + 1, live |-> TRUE, status |-> "AWAITING_CODE"]
      BY <2>a DEF Popups!HandlesStart
    <3>2. UNCHANGED <<jar, card, cancels, clicks, popupRunning, popupExchanged>>
      BY <2>a DEF Popups!HandlesStart
    <3>3. \/ \E said \in {"ready", "in_progress"} : call' = [call EXCEPT ![c].answer = said]
          \/ /\ popupAttempt.id < PopupAttempts
             /\ call' = [call EXCEPT ![c].answer = "ready", ![c].sets = popupAttempt.id + 1]
      BY <2>a DEF Popups!HandlesStart, Popups!CookieOf
    <3>4. call' \in [Requests -> PopupCalls]
      <4>1. CASE \E said \in {"ready", "in_progress"} : call' = [call EXCEPT ![c].answer = said]
        BY <2>0, <4>1 DEF PopupCalls, Popups!Answers
      <4>2. CASE /\ popupAttempt.id < PopupAttempts
                 /\ call' = [call EXCEPT ![c].answer = "ready", ![c].sets = popupAttempt.id + 1]
        <5>1. popupAttempt.id + 1 \in 0 .. PopupAttempts
          BY <1>a, <1>c, <4>2
        <5> QED BY <2>0, <4>2, <5>1 DEF PopupCalls, Popups!Answers
      <4> QED BY <3>3, <4>1, <4>2
    <3>5. BrowserShape'
      BY <2>0, <3>2, <3>4 DEF BrowserShape
    <3>6. AttemptShape'
      <4>1. popupAttempt' \in PopupRows
        <5>1. CASE UNCHANGED popupAttempt
          BY <1>c, <5>1
        <5>2. CASE /\ popupAttempt.id < PopupAttempts
                   /\ popupAttempt' = [id |-> popupAttempt.id + 1, live |-> TRUE, status |-> "AWAITING_CODE"]
          <6>1. popupAttempt.id + 1 \in 0 .. PopupAttempts
            BY <1>a, <1>c, <5>2
          <6> QED BY <5>2, <6>1 DEF PopupRows, Popups!Unfinished
        <5> QED BY <3>1, <5>1, <5>2
      <4> QED BY <1>c, <3>2, <4>1 DEF AttemptShape
    <3>7. ExchangedOnce'
      BY <1>a, <1>b, <1>c, <3>1, <3>2 DEF ExchangedOnce, Popups!Attempts
    <3> QED BY <3>5, <3>6, <3>7
  <2>b. CASE Popups!HandlesComplete(c)
    <3>1. CASE call[c].cookie # 0 /\ Popups!Claimable(c)
      <4>1. /\ popupAttempt.id \in Popups!Attempts /\ popupAttempt.status = "AWAITING_CODE"
            /\ popupAttempt' = [popupAttempt EXCEPT !.status = "PROCESSING"]
            /\ call' = [call EXCEPT ![c].answer = "exchanging"]
            /\ popupRunning' = popupRunning \cup {popupAttempt.id}
            /\ popupExchanged' = [popupExchanged EXCEPT ![popupAttempt.id] = @ + 1]
            /\ UNCHANGED <<jar, card, cancels, clicks>>
        BY <1>a, <1>b, <2>b, <3>1
        DEF Popups!HandlesComplete, Popups!Claimable, ExchangedOnce
      <4>2. /\ popupAttempt'.id = popupAttempt.id /\ popupAttempt'.status = "PROCESSING"
            /\ popupAttempt' \in PopupRows
        BY <1>c, <4>1 DEF PopupRows, Popups!Unfinished
      <4>3. call' \in [Requests -> PopupCalls]
        BY <2>0, <4>1 DEF PopupCalls, Popups!Answers
      <4>4. /\ popupExchanged[popupAttempt.id] = 0
            /\ popupExchanged' \in [Popups!Attempts -> Nat] /\ popupExchanged'[popupAttempt.id] = 1
            /\ \A a \in Popups!Attempts : a # popupAttempt.id => popupExchanged'[a] = popupExchanged[a]
        BY <1>b, <1>c, <4>1 DEF ExchangedOnce
      <4>5. ExchangedOnce'
        BY <1>a, <1>b, <1>c, <4>1, <4>2, <4>4 DEF ExchangedOnce, Popups!Attempts
      <4> QED
        BY <1>c, <2>0, <4>1, <4>2, <4>3, <4>4, <4>5 DEF AttemptShape, BrowserShape
    <3>2. CASE ~ (call[c].cookie # 0 /\ Popups!Claimable(c))
      <4>1. /\ call' = [call EXCEPT ![c].answer = "failed"]
            /\ UNCHANGED <<popupAttempt, popupRunning, popupExchanged, jar, card, cancels, clicks>>
        BY <2>b, <3>2 DEF Popups!HandlesComplete, Popups!Server
      <4>2. call' \in [Requests -> PopupCalls]
        BY <2>0, <4>1 DEF PopupCalls, Popups!Answers
      <4> QED BY <1>b, <2>0, <4>1, <4>2 DEF BrowserShape, AttemptShape, ExchangedOnce
    <3> QED BY <3>1, <3>2
  <2>c. CASE ~ Popups!HandlesStart(c) /\ ~ Popups!HandlesComplete(c)
    <3>1. BrowserShape' /\ UNCHANGED <<popupAttempt, popupRunning, popupExchanged>>
      BY <1>b, <1>3, <2>c, PopupCardStep
    <3> QED BY <1>b, <3>1 DEF AttemptShape, ExchangedOnce
  <2> QED BY <2>a, <2>b, <2>c
<1>4. ASSUME NEW x \in cancels, Popups!HandlesCancel(x) \/ Popups!Cancelled(x) \/ Popups!CancelLost(x)
      PROVE  BrowserShape' /\ AttemptShape' /\ ExchangedOnce'
  <2>0. x \in PopupCancels /\ [x EXCEPT !.handled = TRUE] \in PopupCancels
    BY <1>b DEF BrowserShape, PopupCancels
  <2>1. /\ popupAttempt' \in PopupRows /\ popupAttempt'.id = popupAttempt.id
        /\ popupAttempt'.status \in {popupAttempt.status, "FAILED"}
        /\ UNCHANGED <<popupRunning, popupExchanged, card, call, clicks>>
    BY <1>4, <1>c DEF PopupRows, Popups!HandlesCancel, Popups!Cancelled, Popups!CancelLost,
       Popups!Kept, Popups!Server
  <2>2. jar' \in 0 .. PopupAttempts /\ cancels' \subseteq PopupCancels
    <3>1. jar' \in {jar, 0} /\ cancels' \subseteq cancels \cup {[x EXCEPT !.handled = TRUE]}
      BY <1>4 DEF Popups!HandlesCancel, Popups!Cancelled, Popups!CancelLost
    <3>2. jar \in 0 .. PopupAttempts /\ cancels \subseteq PopupCancels
      BY <1>b DEF BrowserShape
    <3>3. jar' \in 0 .. PopupAttempts
      BY <1>a, <3>1, <3>2
    <3> QED BY <2>0, <3>1, <3>2, <3>3
  <2> QED
    BY <1>b, <2>1, <2>2 DEF BrowserShape, AttemptShape, ExchangedOnce
<1>5. CASE Popups!Expires
  <2>1. /\ popupAttempt' \in PopupRows /\ popupAttempt'.id = popupAttempt.id
        /\ popupAttempt'.status = popupAttempt.status
        /\ UNCHANGED <<jar, card, call, cancels, clicks, popupRunning, popupExchanged>>
    BY <1>5, <1>c DEF Popups!Expires, PopupRows
  <2> QED BY <1>b, <2>1 DEF BrowserShape, AttemptShape, ExchangedOnce
<1> QED BY <1>1, <1>2, <1>3, <1>4, <1>5 DEF Popups!Next

\* An exchange ends when its own request ends: a cancellation finds no code in what it closes.
LEMMA PopupUndisturbed ==
  PopupInv /\ [Popups!Next]_(Popups!vars) => Popups!ExchangeUndisturbedStep
<1> SUFFICES ASSUME PopupInv, [Popups!Next]_(Popups!vars),
                    popupAttempt.status = "PROCESSING", popupAttempt'.id = popupAttempt.id,
                    popupAttempt'.status # "PROCESSING"
             PROVE  popupAttempt.id \in popupRunning \ popupRunning'
  BY DEF Popups!ExchangeUndisturbedStep
<1>1. popupAttempt.id \in popupRunning /\ popupAttempt.id \in Nat
  BY DEF PopupInv, ExchangedOnce, Popups!TypeOK, Popups!Attempts
<1>2. PICK a \in Popups!Attempts, ok \in BOOLEAN : Popups!Exchanged(a, ok)
  <2>1. \A x \in cancels : Popups!HandlesCancel(x) => UNCHANGED popupAttempt
    BY DEF Popups!HandlesCancel, Popups!Cancellable
  <2>2. \A c \in Requests : Popups!HandlesStart(c) => popupAttempt'.id # popupAttempt.id \/ UNCHANGED popupAttempt
    BY <1>1 DEF Popups!HandlesStart
  <2>3. \A c \in Requests : Popups!HandlesComplete(c) => UNCHANGED popupAttempt
    BY DEF Popups!HandlesComplete, Popups!Claimable, Popups!Server
  <2>4. Popups!Expires => popupAttempt'.status = popupAttempt.status
    BY DEF Popups!Expires, PopupInv, Popups!TypeOK
  <2> QED
    BY <2>1, <2>2, <2>3, <2>4 DEF Popups!Next, Popups!vars, Popups!OfCard, Popups!Clicks,
       Popups!Started, Popups!StartLost, Popups!Loads, Popups!LoadFails, Popups!Closed,
       Popups!PopupEnds, Popups!PopupGivesCode, Popups!Completed, Popups!CompleteLost,
       Popups!Unmounts, Popups!Cancelled, Popups!CancelLost, Popups!Server, Popups!Kept
<1> QED BY <1>1, <1>2 DEF Popups!Exchanged

\* What is promised of the popup.
LEMMA PopupHolds == PopupInv => Popups!TypeOK /\ Popups!OneExchange
BY DEF PopupInv, ExchangedOnce, Popups!OneExchange

------------------------------------------------------------------------------
(***************************************************************************)
(* The payloads.                                                           *)
(***************************************************************************)
\* The events of the changes read so far: each change has its place among the events, and the
\* ones after it are its items, in their order.
Placed(place, changed, given, upto) ==
  /\ place \in [1 .. upto -> 0 .. Len(given)]
  /\ place[1] = 0 /\ place[upto] = Len(given)
  /\ \A i \in 1 .. upto - 1 :
       LET change == changed[i] IN
       IF change.field = "messages"
       THEN /\ place[i + 1] = place[i] + Len(change.items)
            /\ \A j \in DOMAIN change.items :
                 given[place[i] + j].kind = change.items[j].kind
       ELSE place[i + 1] = place[i]
PayloadShape ==
  /\ body \in Payload!Bodies /\ tries \in 0 .. MaxTries
  /\ next \in 0 .. PayloadChanges + 1
  /\ answer \in {"none", "200", "400", "ignored"}
  /\ events \in Seq(Payload!Events)
  /\ Payload!OfMeta => /\ next <= Len(body.changes) + 1
                       /\ next = 0 => events = <<>> /\ answer # "200"
                       /\ answer = "200" => next = Len(body.changes) + 1
                       /\ next > 0 => \E place : Placed(place, body.changes, events, next)
PayloadInv == PayloadShape

\* What a change of a batch is made of.
LEMMA ChangeShape ==
  ASSUME NEW change \in Payload!Changes
  PROVE  /\ change.items \in Seq(Payload!Items) /\ Len(change.items) \in {1, 2}
         /\ DOMAIN change.items = 1 .. Len(change.items)
         /\ change.contacts \in Seq(Customers)
         /\ change.phone \in Phones
<1>1. PICK n \in 1 .. 2 : change.items \in [1 .. n -> Payload!Items]
  BY DEF Payload!Changes
<1>2. PICK m \in 0 .. 2 : change.contacts \in [1 .. m -> Customers]
  BY DEF Payload!Changes, Payload!Contacts
<1> QED BY <1>1, <1>2 DEF Payload!Changes

\* A batch of Meta is a sequence of changes.
LEMMA BatchShape ==
  ASSUME body \in Payload!Bodies, Payload!OfMeta
  PROVE  /\ body.changes \in Seq(Payload!Changes) /\ Len(body.changes) \in 1 .. PayloadChanges
         /\ DOMAIN body.changes = 1 .. Len(body.changes)
<1>1. body \in Payload!Meta
  BY DEF Payload!OfMeta, Payload!Bodies, Payload!Meta, Payload!YCloud
<1>2. PICK n \in 1 .. PayloadChanges : body.changes \in [1 .. n -> Payload!Changes]
  BY <1>1 DEF Payload!Meta
<1>3. PayloadChanges \in Nat
  BY Bounds DEF Payload!PayloadAssumption
<1> QED BY <1>2, <1>3

\* The events of a change keep its items, one each.
LEMMA EventsShape ==
  ASSUME NEW change \in Payload!Changes
  PROVE  /\ Payload!EventsOf(change) \in Seq(Payload!Events)
         /\ Len(Payload!EventsOf(change)) = Len(change.items)
         /\ \A j \in DOMAIN change.items : Payload!EventsOf(change)[j].kind = change.items[j].kind
<1> DEFINE e == Payload!EventsOf(change)
<1>1. /\ change.items \in Seq(Payload!Items) /\ Len(change.items) \in {1, 2}
      /\ DOMAIN change.items = 1 .. Len(change.items)
      /\ change.contacts \in Seq(Customers)
      /\ change.phone \in Phones
  BY ChangeShape
<1>2. \A j \in DOMAIN change.items :
        /\ change.items[j].kind \in {"message", "status"}
        /\ change.items[j].from \in Customers
  <2>1. (CHOOSE c \in Customers : TRUE) \in Customers
    BY Bounds DEF Payload!PayloadAssumption
  <2>2. \A j \in DOMAIN change.items : change.items[j] \in Payload!Items
    BY <1>1
  <2> QED BY <2>1, <2>2 DEF Payload!Items
<1>3. \A from \in Customers : Payload!Customer(change, from) \in Customers
  <2>1. change.contacts # <<>> => change.contacts[1] \in Customers
    BY <1>1
  <2> QED BY <2>1 DEF Payload!Customer
<1>4. /\ DOMAIN e = DOMAIN change.items
      /\ \A j \in DOMAIN e : e[j] = [kind |-> change.items[j].kind, phone |-> change.phone,
           customer |-> IF change.items[j].kind = "message"
                        THEN Payload!Customer(change, change.items[j].from) ELSE change.items[j].from]
  BY DEF Payload!EventsOf
<1>5. \A j \in DOMAIN e : e[j] \in Payload!Events /\ e[j].kind = change.items[j].kind
  <2> SUFFICES ASSUME NEW j \in DOMAIN e
               PROVE  e[j] \in Payload!Events /\ e[j].kind = change.items[j].kind
    OBVIOUS
  <2> DEFINE whose == IF change.items[j].kind = "message"
                      THEN Payload!Customer(change, change.items[j].from) ELSE change.items[j].from
  <2>1. change.items[j].kind \in {"message", "status"} /\ whose \in Customers
    BY <1>2, <1>3, <1>4
  <2>2. e[j] = [kind |-> change.items[j].kind, phone |-> change.phone, customer |-> whose]
    BY <1>4
  <2> HIDE DEF e, whose
  <2> QED BY <1>1, <2>1, <2>2 DEF Payload!Events
<1>6. e \in [1 .. Len(change.items) -> Payload!Events]
  BY <1>1, <1>4, <1>5 DEF Payload!EventsOf
<1> QED
  BY <1>1, <1>4, <1>5, <1>6

\* No batch was read at the start.
LEMMA PayloadInit == Payload!Init => PayloadInv
BY Bounds DEF Payload!Init, Payload!PayloadAssumption, PayloadInv, PayloadShape

\* Reading a change gives its events their place after the ones before.
LEMMA PayloadStep == PayloadInv /\ [Payload!Next]_(Payload!vars) => PayloadInv'
<1> SUFFICES ASSUME PayloadInv, [Payload!Next]_(Payload!vars) PROVE PayloadInv'
  OBVIOUS
<1> USE DEF PayloadInv
<1>a. PayloadChanges \in Nat /\ MaxTries \in Nat
  BY Bounds DEF Payload!PayloadAssumption
<1>1. CASE UNCHANGED Payload!vars
  BY <1>1 DEF Payload!vars, PayloadShape, Placed, Payload!OfMeta
<1>2. CASE Payload!Receives
  <2>1. Len(body.changes) \in Nat /\ Payload!OfMeta /\ next = 0 /\ events = <<>>
    BY <1>2, BatchShape DEF Payload!Receives, PayloadShape
  <2>2. CASE Payload!Valid
    <3>1. next' = 1 /\ UNCHANGED <<body, events, answer>> /\ answer \notin {"200"}
      BY <1>2, <2>2 DEF Payload!Receives
    <3>2. Placed([i \in 1 .. 1 |-> 0], body.changes, events', next')
      BY <2>1, <3>1 DEF Placed
    <3> QED
      BY <1>a, <1>2, <2>1, <3>1, <3>2 DEF Payload!Receives, PayloadShape, Payload!OfMeta
  <2>3. CASE ~ Payload!Valid
    BY <1>a, <1>2, <2>1, <2>3 DEF Payload!Receives, PayloadShape, Payload!OfMeta
  <2> QED BY <2>2, <2>3
<1>3. CASE Payload!ParsesChange
  <2> DEFINE change == body.changes[next]
  <2>1. /\ body.changes \in Seq(Payload!Changes) /\ Len(body.changes) \in 1 .. PayloadChanges
        /\ DOMAIN body.changes = 1 .. Len(body.changes)
        /\ next \in 1 .. Len(body.changes) /\ Payload!OfMeta /\ body \in Payload!Bodies
    BY <1>3, BatchShape DEF Payload!ParsesChange, PayloadShape
  <2>2. change \in Payload!Changes
    BY <2>1
  <2>3. PICK place : Placed(place, body.changes, events, next)
    BY <1>3, <2>1 DEF PayloadShape
  <2>4. next' = next + 1 /\ UNCHANGED <<body, answer, tries>> /\ events \in Seq(Payload!Events)
    BY <1>3 DEF Payload!ParsesChange, PayloadShape
  <2> DEFINE new == [i \in 1 .. next + 1 |-> IF i = next + 1 THEN Len(events') ELSE place[i]]
  <2>5. CASE change.field = "messages"
    <3> DEFINE e == Payload!EventsOf(change)
    <3>1. e \in Seq(Payload!Events) /\ Len(e) = Len(change.items)
          /\ Len(change.items) \in {1, 2} /\ DOMAIN change.items = 1 .. Len(change.items)
          /\ \A j \in DOMAIN change.items : e[j].kind = change.items[j].kind
      BY <2>2, EventsShape, ChangeShape
    <3>2. events' = events \o e
      BY <1>3, <2>1, <2>5 DEF Payload!ParsesChange, Payload!Taken
    <3> HIDE DEF e, change
    <3>3. /\ events' \in Seq(Payload!Events) /\ Len(events') = Len(events) + Len(change.items)
          /\ \A i \in 1 .. Len(events) : events'[i] = events[i]
          /\ \A j \in 1 .. Len(e) : events'[Len(events) + j] = e[j]
      BY <2>4, <3>1, <3>2
    <3>4. Placed(new, body.changes, events', next')
      <4>1. new \in [1 .. next' -> 0 .. Len(events')] /\ new[1] = 0 /\ new[next'] = Len(events')
        BY <2>1, <2>3, <2>4, <3>1, <3>3 DEF Placed
      <4>2. ASSUME NEW i \in 1 .. next' - 1, body.changes[i].field = "messages"
            PROVE  /\ new[i + 1] = new[i] + Len(body.changes[i].items)
                   /\ \A j \in DOMAIN body.changes[i].items :
                        events'[new[i] + j].kind = body.changes[i].items[j].kind
        <5>1. CASE i = next
          <6>1. new[i] = Len(events) /\ new[i + 1] = Len(events') /\ body.changes[i] = change
            BY <2>1, <2>3, <5>1 DEF Placed, change
          <6> HIDE DEF new
          <6>2. new[i + 1] = new[i] + Len(change.items)
            BY <3>1, <3>3, <6>1
          <6>3. \A j \in DOMAIN change.items : events'[new[i] + j].kind = change.items[j].kind
            BY <3>1, <3>3, <6>1
          <6> QED BY <6>1, <6>2, <6>3
        <5>2. CASE i # next
          <6>1. i \in 1 .. next - 1 /\ i + 1 \in 1 .. next
            BY <2>1, <2>4, <5>2
          <6>2. /\ new[i] = place[i] /\ new[i + 1] = place[i + 1]
                /\ place[i] \in 0 .. Len(events) /\ place[i + 1] \in 0 .. Len(events)
            BY <2>1, <2>3, <6>1 DEF Placed
          <6>3. /\ place[i + 1] = place[i] + Len(body.changes[i].items)
                /\ \A j \in DOMAIN body.changes[i].items :
                     events[place[i] + j].kind = body.changes[i].items[j].kind
            BY <2>3, <4>2, <6>1 DEF Placed
          <6>4. /\ DOMAIN body.changes[i].items = 1 .. Len(body.changes[i].items)
                /\ Len(body.changes[i].items) \in {1, 2}
            BY <2>1, <6>1, ChangeShape
          <6> HIDE DEF new
          <6>5. ASSUME NEW j \in DOMAIN body.changes[i].items
                PROVE  events'[new[i] + j].kind = body.changes[i].items[j].kind
            <7>1. place[i] + j \in 1 .. Len(events)
              BY <6>2, <6>3, <6>4
            <7> QED BY <3>3, <6>2, <6>3, <7>1
          <6> QED BY <6>2, <6>3, <6>5
        <5> QED BY <5>1, <5>2
      <4>3. ASSUME NEW i \in 1 .. next' - 1, body.changes[i].field # "messages"
            PROVE  new[i + 1] = new[i]
        <5>1. i \in 1 .. next - 1 /\ i + 1 \in 1 .. next
          BY <2>1, <2>4, <2>5, <4>3 DEF change
        <5> QED BY <2>1, <2>3, <4>3, <5>1 DEF Placed
      <4> HIDE DEF new
      <4>4. \A i \in 1 .. next' - 1 :
              IF body.changes[i].field = "messages"
              THEN /\ new[i + 1] = new[i] + Len(body.changes[i].items)
                   /\ \A j \in DOMAIN body.changes[i].items :
                        events'[new[i] + j].kind = body.changes[i].items[j].kind
              ELSE new[i + 1] = new[i]
        BY <4>2, <4>3
      <4> QED BY <4>1, <4>4 DEF Placed
    <3> HIDE DEF new
    <3> QED
      BY <1>a, <2>1, <2>4, <3>3, <3>4 DEF PayloadShape, Payload!OfMeta
  <2>6. CASE change.field # "messages"
    <3>1. events' = events
      BY <1>3, <2>1, <2>6 DEF Payload!ParsesChange, Payload!Taken
    <3>2. Placed(new, body.changes, events', next')
      <4>1. new \in [1 .. next' -> 0 .. Len(events')] /\ new[1] = 0 /\ new[next'] = Len(events')
        BY <2>1, <2>3, <2>4, <3>1 DEF Placed
      <4>2. ASSUME NEW i \in 1 .. next - 1 PROVE new[i] = place[i] /\ new[i + 1] = place[i + 1]
        BY <2>1
      <4>3. new[next + 1] = new[next]
        BY <2>1, <2>3, <3>1 DEF Placed
      <4> HIDE DEF new
      <4>4. ASSUME NEW i \in 1 .. next' - 1
            PROVE IF body.changes[i].field = "messages"
                  THEN /\ new[i + 1] = new[i] + Len(body.changes[i].items)
                       /\ \A j \in DOMAIN body.changes[i].items :
                            events'[new[i] + j].kind = body.changes[i].items[j].kind
                  ELSE new[i + 1] = new[i]
        <5>1. CASE i = next
          BY <2>6, <4>3, <5>1 DEF change
        <5>2. CASE i # next
          <6>1. i \in 1 .. next - 1
            BY <2>1, <2>4, <4>4, <5>2
          <6> QED BY <2>3, <3>1, <4>2, <6>1 DEF Placed
        <5> QED BY <5>1, <5>2
      <4> QED BY <4>1, <4>4 DEF Placed
    <3> HIDE DEF new
    <3> QED
      BY <1>a, <2>1, <2>4, <3>1, <3>2 DEF PayloadShape, Payload!OfMeta
  <2> QED BY <2>5, <2>6
<1>4. CASE Payload!Answers
  <2>1. body \in Payload!Bodies /\ Payload!OfMeta /\ next = Len(body.changes) + 1
        /\ Len(body.changes) \in Nat
    BY <1>4, BatchShape DEF Payload!Answers, PayloadShape
  <2> QED
    BY <1>4, <2>1 DEF Payload!Answers, PayloadShape, Placed, Payload!OfMeta
<1>5. CASE Payload!ReceivesEvent
  <2>1. body \in Payload!Bodies /\ ~ Payload!OfMeta
    BY <1>5 DEF Payload!ReceivesEvent, PayloadShape
  <2>2. body.event \in Payload!Updates
        /\ IF body.event.type = "received"
           THEN body.event.sender \in Customers /\ body.event.recipient \in Phones
           ELSE body.event.sender \in Phones /\ body.event.recipient \in Customers
    BY <2>1 DEF Payload!Bodies, Payload!OfMeta, Payload!Meta, Payload!YCloud, Payload!WellBorn
  <2>3. [kind |-> IF body.event.type = "received" THEN "message" ELSE "status",
         phone |-> Payload!OwnEnd(body.event), customer |-> Payload!OtherEnd(body.event)] \in Payload!Events
    BY <2>2 DEF Payload!Events, Payload!OwnEnd, Payload!OtherEnd
  <2>4. events' \in Seq(Payload!Events)
    <3>1. events \in Seq(Payload!Events)
      BY DEF PayloadShape
    <3> DEFINE one == [kind |-> IF body.event.type = "received" THEN "message" ELSE "status",
                       phone |-> Payload!OwnEnd(body.event), customer |-> Payload!OtherEnd(body.event)]
    <3>2. events' = events \/ events' = <<one>>
      BY <1>5 DEF Payload!ReceivesEvent
    <3> HIDE DEF one
    <3>3. one \in Payload!Events
      BY <2>3 DEF one
    <3>4. <<one>> \in Seq(Payload!Events)
      BY <3>3
    <3> QED BY <3>1, <3>2, <3>4
  <2> QED
    BY <1>a, <1>5, <2>1, <2>4 DEF Payload!ReceivesEvent, PayloadShape, Payload!OfMeta
<1> QED BY <1>1, <1>2, <1>3, <1>4, <1>5 DEF Payload!Next

\* When the batch is answered every change has its place, and a sender that is among the
\* contacts is the customer.
LEMMA PayloadHolds == PayloadInv => Payload!TypeOK /\ Payload!OneEventEach /\ Payload!SenderKept
<1> SUFFICES ASSUME PayloadInv PROVE Payload!TypeOK /\ Payload!OneEventEach /\ Payload!SenderKept
  OBVIOUS
<1>1. Payload!TypeOK
  BY DEF PayloadInv, PayloadShape, Payload!TypeOK
<1>2. Payload!OneEventEach
  <2> SUFFICES ASSUME Payload!OfMeta, answer = "200" PROVE Payload!OneEventEach
    BY DEF Payload!OneEventEach
  <2>1. /\ DOMAIN body.changes = 1 .. Len(body.changes) /\ Len(body.changes) \in Nat
        /\ next = Len(body.changes) + 1
    BY BatchShape DEF PayloadInv, PayloadShape
  <2>2. PICK place : Placed(place, body.changes, events, next)
    BY <2>1 DEF PayloadInv, PayloadShape
  <2>3. /\ place \in [1 .. Len(body.changes) + 1 -> 0 .. Len(events)]
        /\ place[1] = 0 /\ place[Len(body.changes) + 1] = Len(events)
        /\ \A i \in DOMAIN body.changes :
             LET change == body.changes[i] IN
             IF change.field = "messages"
             THEN /\ place[i + 1] = place[i] + Len(change.items)
                  /\ \A j \in DOMAIN change.items :
                       events[place[i] + j].kind = change.items[j].kind
             ELSE place[i + 1] = place[i]
    <3>1. 1 .. next - 1 = DOMAIN body.changes
      BY <2>1
    <3> QED BY <2>1, <2>2, <3>1 DEF Placed
  <2> QED BY <2>3 DEF Payload!OneEventEach
<1>3. Payload!SenderKept
  BY DEF Payload!SenderKept, Payload!EventsOf, Payload!Customer
<1> QED BY <1>1, <1>2, <1>3

------------------------------------------------------------------------------
(***************************************************************************)
(* The inbox of a customer.                                                *)
(***************************************************************************)

\* The rows of the conversations, of the messages and of the requests that bring them.
ThreadRows == [status : {"NONE", "OPEN", "CLOSED"}, mode : {"AI", "HUMAN"}, unread : Nat]
IncomingRows == [conversation : 0 .. MaxConversations, mode : {"AI", "HUMAN"}, read : BOOLEAN]
ThreadMaps == UNION {[cs -> ThreadRows] : cs \in SUBSET (1 .. MaxConversations)}
SeenRows == {<<>>} \cup [saved : BOOLEAN, open : SUBSET (1 .. MaxConversations), rows : ThreadMaps]
IncomingRequests(ids, sent) ==
  [pc : {"idle", "event", "commit", "answer"}, batch : sent \cup {<<>>}, next : Nat,
   attempt : 0 .. IngestRetries, seen : SeenRows, jobs : SUBSET ids]
ReaderRows == [conversation : 0 .. MaxConversations, locked : BOOLEAN]

\* The types, row by row, and where the requests are in their batches.
InboxShapeInbox ==
  /\ inboxConversation \in [1 .. MaxConversations -> ThreadRows]
  /\ inboxRow \in [Inbox!MessageIds -> IncomingRows]
  /\ inboxRequest \in [Requests -> IncomingRequests(Inbox!MessageIds, Batched)]
  /\ inboxReader \in ReaderRows
  /\ receipts \subseteq Batched /\ answered \subseteq Batched
  /\ scheduled \in [Inbox!MessageIds -> Nat] /\ inboxActions \in 0 .. InboxSteps
InboxPlaceInbox(w) ==
  inboxRequest[w].pc # "idle" =>
    /\ inboxRequest[w].batch \in Batched /\ inboxRequest[w].next # 0
    /\ inboxRequest[w].pc = "commit" => inboxRequest[w].next <= Len(inboxRequest[w].batch)
\* Why a message is scheduled once: who has its job saved it, nobody else has it, and it was
\* not scheduled before; and no message is of a conversation that does not exist.
InboxJobsInbox ==
  /\ \A w \in Requests, m \in Inbox!MessageIds :
       m \in inboxRequest[w].jobs => Inbox!Saved(m) /\ scheduled[m] = 0
  /\ \A v \in Requests, w \in Requests, m \in Inbox!MessageIds :
       m \in inboxRequest[v].jobs /\ m \in inboxRequest[w].jobs => v = w
  /\ \A m \in Inbox!MessageIds : scheduled[m] <= 1 /\ (scheduled[m] # 0 => Inbox!Saved(m))
  /\ \A m \in Inbox!MessageIds, c \in 1 .. MaxConversations :
       inboxRow[m].conversation = c => inboxConversation[c].status # "NONE"
InboxInvInbox == InboxShapeInbox /\ (\A w \in Requests : InboxPlaceInbox(w)) /\ InboxJobsInbox

\* It holds at the start.
LEMMA InboxInitInbox == Inbox!Init => InboxInvInbox
<1> SUFFICES ASSUME Inbox!Init PROVE InboxInvInbox
  OBVIOUS
<1>a. MaxConversations \in Nat /\ InboxSteps \in Nat /\ IngestRetries \in Nat
  BY Bounds DEF Inbox!InboxAssumption
<1>1. Inbox!NoConversation \in ThreadRows /\ Inbox!NoRow \in IncomingRows /\ Inbox!NoReader \in ReaderRows
  BY <1>a DEF ThreadRows, IncomingRows, ReaderRows, Inbox!NoConversation, Inbox!NoRow, Inbox!NoReader
<1>2. Inbox!Idle \in IncomingRequests(Inbox!MessageIds, Batched)
  BY <1>a DEF Inbox!Idle, IncomingRequests, SeenRows
<1>3. InboxShapeInbox
  BY <1>a, <1>1, <1>2 DEF Inbox!Init, InboxShapeInbox, Inbox!Conversations
<1>4. \A w \in Requests : inboxRequest[w].pc = "idle" /\ inboxRequest[w].jobs = {}
  BY DEF Inbox!Init, Inbox!Idle
<1>5. \A m \in Inbox!MessageIds : inboxRow[m].conversation = 0 /\ scheduled[m] = 0
  BY DEF Inbox!Init, Inbox!NoRow
<1> QED BY <1>3, <1>4, <1>5 DEF InboxInvInbox, InboxPlaceInbox, InboxJobsInbox

\* The message a request handles is a message of its batch.
LEMMA InboxMessageInbox ==
  ASSUME InboxInvInbox, NEW w \in Requests, inboxRequest[w].pc # "idle",
         inboxRequest[w].next <= Len(inboxRequest[w].batch)
  PROVE  Inbox!Message(w) \in Inbox!MessageIds
<1>1. inboxRequest[w].batch \in Batched /\ inboxRequest[w].next # 0 /\ inboxRequest[w].next \in Nat
  BY DEF InboxInvInbox, InboxShapeInbox, InboxPlaceInbox, IncomingRequests
<1>2. inboxRequest[w].batch \in Seq(Nat \ {0})
  BY <1>1, Bounds DEF Inbox!InboxAssumption
<1>3. inboxRequest[w].next \in 1 .. Len(inboxRequest[w].batch)
  BY <1>1, <1>2
<1> QED BY <1>1, <1>3 DEF Inbox!Message, Inbox!MessageIds

\* What a transaction reads.
LEMMA InboxReadInbox ==
  ASSUME InboxInvInbox, NEW m \in Inbox!MessageIds
  PROVE  /\ Inbox!Read(m) \in SeenRows /\ Inbox!Read(m).saved = Inbox!Saved(m) /\ Inbox!Read(m).open = Inbox!Open
<1>1. Inbox!Open \in SUBSET (1 .. MaxConversations)
  BY DEF Inbox!Open, Inbox!Conversations
<1>2. [c \in Inbox!Open |-> inboxConversation[c]] \in [Inbox!Open -> ThreadRows]
  BY <1>1 DEF InboxInvInbox, InboxShapeInbox
<1>3. [c \in Inbox!Open |-> inboxConversation[c]] \in ThreadMaps
  BY <1>1, <1>2 DEF ThreadMaps
<1>4. Inbox!Saved(m) \in BOOLEAN
  BY DEF Inbox!Saved
<1> QED BY <1>1, <1>3, <1>4 DEF Inbox!Read, SeenRows

\* The message m of the request w joins the conversation c, which was old.
JoinsInbox(w, c, old, m) ==
           /\ m = Inbox!Message(w) /\ ~ Inbox!Saved(m)
           /\ \/ /\ inboxConversation[c].status = "NONE" /\ old = Inbox!Created /\ Inbox!Open = {}
              \/ /\ inboxConversation[c].status = "OPEN" /\ old = inboxConversation[c]
                 /\ ~ (inboxReader.locked /\ inboxReader.conversation = c)
           /\ inboxConversation' = [inboxConversation EXCEPT ![c] = Inbox!Counted(old)]
           /\ inboxRow' = [inboxRow EXCEPT ![m] = [conversation |-> c, mode |-> old.mode, read |-> FALSE]]
           /\ inboxRequest' = [inboxRequest EXCEPT ![w] = [Inbox!Skips(inboxRequest[w]) EXCEPT !.jobs =
               Inbox!JobsOfNew(w, old.mode)]]
           /\ UNCHANGED <<inboxReader, receipts, answered, scheduled, inboxActions>>

\* The conversation a message joins: the newest that is open, or an unused one.
LEMMA InboxChosenInbox ==
  ASSUME InboxInvInbox, NEW w \in Requests, Inbox!Commits(w)
  PROVE  \E c \in 1 .. MaxConversations, old \in ThreadRows, m \in Inbox!MessageIds :
           JoinsInbox(w, c, old, m)
<1> DEFINE m == Inbox!Message(w)
           found == inboxRequest[w].seen.open
           c == IF found = {} THEN Inbox!Min(Inbox!Unused) ELSE Inbox!Max(found)
           old == IF found = {} THEN Inbox!Created ELSE inboxConversation[c]
<1>a. MaxConversations \in Nat
  BY Bounds DEF Inbox!InboxAssumption
<1>1. inboxRequest[w].pc = "commit"
  BY DEF Inbox!Commits
<1>2. m \in Inbox!MessageIds
  BY <1>1, InboxMessageInbox DEF InboxInvInbox, InboxPlaceInbox
<1>3. inboxRequest[w].seen = Inbox!Read(m) /\ ~ inboxRequest[w].seen.saved /\ Inbox!Unlocked(w)
  BY DEF Inbox!Commits, Inbox!Isolated
<1>4. found = Inbox!Open /\ ~ Inbox!Saved(m)
  BY <1>2, <1>3, InboxReadInbox
<1>5. /\ inboxConversation' = [inboxConversation EXCEPT ![c] = Inbox!Counted(old)]
      /\ inboxRow' = [inboxRow EXCEPT ![m] = [conversation |-> c, mode |-> old.mode, read |-> FALSE]]
      /\ inboxRequest' = [inboxRequest EXCEPT ![w] = [Inbox!Skips(inboxRequest[w]) EXCEPT !.jobs =
          Inbox!JobsOfNew(w, old.mode)]]
      /\ UNCHANGED <<inboxReader, receipts, answered, scheduled, inboxActions>>
  <2>1. inboxRequest' = [inboxRequest EXCEPT ![w] = [Inbox!Skips(inboxRequest[w]) EXCEPT !.jobs =
          Inbox!JobsOfNew(w, old.mode)]]
    BY DEF Inbox!Commits
  <2> QED BY <2>1 DEF Inbox!Commits
<1>6. CASE found = {}
  <2>1. Inbox!Unused # {} /\ Inbox!Unused \subseteq 1 .. MaxConversations
    BY <1>6 DEF Inbox!Commits, Inbox!Unused, Inbox!Conversations
  <2>2. Inbox!Unused \subseteq Nat
    BY <1>a, <2>1
  <2>3. Inbox!Min(Inbox!Unused) \in Inbox!Unused
    <3> DEFINE S == Inbox!Unused
    <3>1. PICK k \in S : \A j \in S : k <= j
      <4>1. S \subseteq Nat /\ S # {}
        BY <2>1, <2>2
      <4> HIDE DEF S
      <4> QED BY <4>1, Smallest
    <3> QED BY <3>1 DEF Inbox!Min
  <2>4. c \in 1 .. MaxConversations /\ inboxConversation[c].status = "NONE" /\ old = Inbox!Created
    BY <1>6, <2>1, <2>3 DEF Inbox!Unused
  <2>5. Inbox!Created \in ThreadRows
    BY DEF Inbox!Created, Inbox!NoConversation, ThreadRows
  <2>6. JoinsInbox(w, c, old, m)
    BY <1>2, <1>4, <1>5, <1>6, <2>4 DEF JoinsInbox
  <2> HIDE DEF c, old, m
  <2> QED BY <1>2, <2>4, <2>5, <2>6
<1>7. CASE found # {}
  <2>1. found \subseteq 1 .. MaxConversations
    BY <1>4 DEF Inbox!Open, Inbox!Conversations
  <2>2. Inbox!Max(found) \in found
    <3> DEFINE S == found
    <3>1. PICK k \in S : \A j \in S : k >= j
      <4>1. S \subseteq 1 .. MaxConversations /\ S # {}
        BY <1>7, <2>1
      <4> HIDE DEF S
      <4> QED BY <1>a, <4>1, Largest
    <3> QED BY <3>1 DEF Inbox!Max
  <2>3. c \in 1 .. MaxConversations /\ inboxConversation[c].status = "OPEN" /\ old = inboxConversation[c] /\
          c \in found
    BY <1>4, <1>7, <2>1, <2>2 DEF Inbox!Open
  <2>4. ~ (inboxReader.locked /\ inboxReader.conversation = c)
    BY <1>3, <2>3 DEF Inbox!Unlocked
  <2>5. inboxConversation[c] \in ThreadRows
    BY <2>3 DEF InboxInvInbox, InboxShapeInbox
  <2>6. JoinsInbox(w, c, old, m)
    BY <1>2, <1>4, <1>5, <2>3, <2>4 DEF JoinsInbox
  <2> HIDE DEF c, old, m
  <2> QED BY <1>2, <2>3, <2>5, <2>6
<1> QED BY <1>6, <1>7

\* What the team and a page do to the conversations leaves the jobs alone.
LEMMA InboxTeamInbox ==
  ASSUME InboxInvInbox, UNCHANGED <<inboxRequest, receipts, answered, scheduled>>,
         inboxConversation' \in [1 .. MaxConversations -> ThreadRows],
         inboxRow' \in [Inbox!MessageIds -> IncomingRows],
         inboxReader' \in ReaderRows, inboxActions' \in 0 .. InboxSteps,
         \A c \in 1 .. MaxConversations : inboxConversation[c].status # "NONE" =>
             inboxConversation'[c].status # "NONE",
         \A m \in Inbox!MessageIds : inboxRow'[m].conversation = inboxRow[m].conversation
  PROVE  InboxInvInbox'
<1>1. InboxShapeInbox'
  BY DEF InboxInvInbox, InboxShapeInbox
<1>2. \A w \in Requests : InboxPlaceInbox(w)'
  BY DEF InboxInvInbox, InboxPlaceInbox
<1>3. InboxJobsInbox'
  BY DEF InboxInvInbox, InboxJobsInbox, Inbox!Saved
<1> QED BY <1>1, <1>2, <1>3 DEF InboxInvInbox

\* A request that goes on with no other job keeps the rest.
LEMMA InboxGoesOnInbox ==
  ASSUME InboxInvInbox, NEW w \in Requests, NEW r \in IncomingRequests(Inbox!MessageIds, Batched),
         inboxRequest' = [inboxRequest EXCEPT ![w] = r],
         r.jobs \subseteq inboxRequest[w].jobs,
         r.pc # "idle" => r.batch \in Batched /\ r.next # 0 /\ (r.pc = "commit" => r.next <= Len(r.batch)),
         receipts' \subseteq Batched, answered' \subseteq Batched,
         UNCHANGED <<inboxConversation, inboxRow, inboxReader, scheduled, inboxActions>>
  PROVE  InboxInvInbox'
<1>0. inboxRequest \in [Requests -> IncomingRequests(Inbox!MessageIds, Batched)]
  BY DEF InboxInvInbox, InboxShapeInbox
<1>1. InboxShapeInbox'
  BY <1>0 DEF InboxInvInbox, InboxShapeInbox
<1>2. \A v \in Requests : InboxPlaceInbox(v)'
  BY <1>0 DEF InboxInvInbox, InboxPlaceInbox
<1>3. \A v \in Requests : inboxRequest'[v].jobs \subseteq inboxRequest[v].jobs
  BY <1>0
<1>4. InboxJobsInbox'
  <2>1. \A m \in Inbox!MessageIds : Inbox!Saved(m)' = Inbox!Saved(m)
    BY DEF Inbox!Saved
  <2> QED BY <1>3, <2>1 DEF InboxInvInbox, InboxJobsInbox
<1> QED BY <1>1, <1>2, <1>4 DEF InboxInvInbox

\* A message is saved with its job, which nobody had.
LEMMA InboxSavesInbox ==
  ASSUME InboxInvInbox, NEW w \in Requests, Inbox!Commits(w)
  PROVE  InboxInvInbox'
<1>a. MaxConversations \in Nat /\ IngestRetries \in Nat
  BY Bounds DEF Inbox!InboxAssumption
<1>b. /\ inboxRequest \in [Requests -> IncomingRequests(Inbox!MessageIds, Batched)]
      /\ inboxRow \in [Inbox!MessageIds -> IncomingRows] /\
          inboxConversation \in [1 .. MaxConversations -> ThreadRows]
  BY DEF InboxInvInbox, InboxShapeInbox
<1>1. PICK c \in 1 .. MaxConversations, old \in ThreadRows, m \in Inbox!MessageIds :
           JoinsInbox(w, c, old, m)
  BY InboxChosenInbox
<1> USE DEF JoinsInbox
<1>2. Inbox!Counted(old) \in ThreadRows /\ Inbox!Counted(old).status = "OPEN"
  BY <1>1 DEF ThreadRows, Inbox!Counted, Inbox!Created, Inbox!NoConversation
<1>3. [conversation |-> c, mode |-> old.mode, read |-> FALSE] \in IncomingRows
  BY <1>a DEF ThreadRows, IncomingRows
<1>4. /\ inboxRequest'[w] \in IncomingRequests(Inbox!MessageIds, Batched)
      /\ inboxRequest'[w].pc = "event" /\ inboxRequest'[w].batch = inboxRequest[w].batch
      /\ inboxRequest'[w].next # 0
      /\ inboxRequest'[w].jobs \subseteq inboxRequest[w].jobs \cup {m}
  <2>1. inboxRequest[w] \in IncomingRequests(Inbox!MessageIds, Batched)
    BY <1>b
  <2>2. inboxRequest[w].next + 1 \in Nat /\ inboxRequest[w].next + 1 # 0 /\ 0 \in 0 .. IngestRetries
    BY <1>a, <2>1 DEF IncomingRequests
  <2>3. inboxRequest'[w] = [Inbox!Skips(inboxRequest[w]) EXCEPT !.jobs = Inbox!JobsOfNew(w, old.mode)]
    BY <1>b, <1>1
  <2>4. Inbox!Skips(inboxRequest[w]) = [inboxRequest[w] EXCEPT !.pc = "event", !.next =
          inboxRequest[w].next + 1, !.attempt = 0, !.seen = <<>>]
    BY <2>1 DEF Inbox!Skips, IncomingRequests
  <2>5. Inbox!Skips(inboxRequest[w]) \in IncomingRequests(Inbox!MessageIds, Batched)
    BY <2>1, <2>2, <2>4 DEF IncomingRequests, SeenRows
  <2>6. Inbox!JobsOfNew(w, old.mode) \subseteq inboxRequest[w].jobs \cup {m} /\
          Inbox!JobsOfNew(w, old.mode) \subseteq Inbox!MessageIds
    BY <1>1, <2>1 DEF Inbox!JobsOfNew, IncomingRequests
  <2>7. Inbox!Skips(inboxRequest[w]).pc = "event" /\ Inbox!Skips(inboxRequest[w]).batch = inboxRequest[w].batch
        /\ Inbox!Skips(inboxRequest[w]).next # 0
    BY <2>1, <2>2, <2>4 DEF IncomingRequests
  <2> HIDE DEF JoinsInbox
  <2> DEFINE skipped == Inbox!Skips(inboxRequest[w])
             jobs == Inbox!JobsOfNew(w, old.mode)
  <2>8. skipped \in IncomingRequests(Inbox!MessageIds, Batched) /\ inboxRequest'[w] = [skipped EXCEPT !.jobs = jobs]
    BY <2>3, <2>5
  <2> HIDE DEF skipped, jobs
  <2>9. inboxRequest'[w].pc = skipped.pc /\ inboxRequest'[w].batch = skipped.batch /\
          inboxRequest'[w].next = skipped.next
        /\ inboxRequest'[w].jobs = jobs
    BY <2>8 DEF IncomingRequests
  <2>10. jobs \subseteq Inbox!MessageIds
    BY <2>6 DEF jobs
  <2>11. inboxRequest'[w] \in IncomingRequests(Inbox!MessageIds, Batched)
    BY <2>8, <2>10 DEF IncomingRequests
  <2> QED BY <2>6, <2>7, <2>9, <2>11 DEF skipped, jobs
<1>5. \A v \in Requests : v # w => inboxRequest'[v] = inboxRequest[v]
  BY <1>b, <1>1
<1>6. inboxRequest' \in [Requests -> IncomingRequests(Inbox!MessageIds, Batched)]
  BY <1>b, <1>1, <1>4, <1>5
<1>7. InboxShapeInbox'
  BY <1>b, <1>1, <1>2, <1>3, <1>6 DEF InboxInvInbox, InboxShapeInbox
<1>8. \A v \in Requests : InboxPlaceInbox(v)'
  <2>1. inboxRequest[w].pc # "idle"
    BY DEF Inbox!Commits
  <2> QED BY <1>4, <1>5, <2>1 DEF InboxInvInbox, InboxPlaceInbox
<1>9. \A n \in Inbox!MessageIds : Inbox!Saved(n)' = (Inbox!Saved(n) \/ n = m)
  BY <1>a, <1>b, <1>1 DEF Inbox!Saved
<1>10. \A v \in Requests : m \notin inboxRequest[v].jobs
  BY <1>1 DEF InboxInvInbox, InboxJobsInbox
<1>11. \A v \in Requests, n \in Inbox!MessageIds : n \in inboxRequest'[v].jobs =>
         n \in inboxRequest[v].jobs \/ (n = m /\ v = w)
  BY <1>4, <1>5
<1>12. scheduled' = scheduled /\ scheduled[m] = 0
  BY <1>1 DEF InboxInvInbox, InboxJobsInbox
<1>13. \A d \in 1 .. MaxConversations :
         inboxConversation'[d].status # "NONE" <=> inboxConversation[d].status # "NONE" \/ d = c
  BY <1>b, <1>1, <1>2
<1>14. \A n \in Inbox!MessageIds : inboxRow'[n].conversation = IF n = m THEN c ELSE inboxRow[n].conversation
  BY <1>b, <1>1
<1>15. InboxJobsInbox'
  <2>1. \A v \in Requests, n \in Inbox!MessageIds :
       n \in inboxRequest'[v].jobs => Inbox!Saved(n)' /\ scheduled'[n] = 0
    BY <1>9, <1>11, <1>12 DEF InboxInvInbox, InboxJobsInbox
  <2>2. \A u \in Requests, v \in Requests, n \in Inbox!MessageIds :
       n \in inboxRequest'[u].jobs /\ n \in inboxRequest'[v].jobs => u = v
    BY <1>10, <1>11 DEF InboxInvInbox, InboxJobsInbox
  <2>3. \A n \in Inbox!MessageIds : scheduled'[n] <= 1 /\ (scheduled'[n] # 0 => Inbox!Saved(n)')
    BY <1>9, <1>12 DEF InboxInvInbox, InboxJobsInbox
  <2>4. \A n \in Inbox!MessageIds, d \in 1 .. MaxConversations :
       inboxRow'[n].conversation = d => inboxConversation'[d].status # "NONE"
    BY <1>13, <1>14 DEF InboxInvInbox, InboxJobsInbox
  <2> QED BY <2>1, <2>2, <2>3, <2>4 DEF InboxJobsInbox
<1> QED BY <1>7, <1>8, <1>15 DEF InboxInvInbox

\* The answers of a request are scheduled, and nobody has their jobs any more.
LEMMA InboxAnswersInbox ==
  ASSUME InboxInvInbox, NEW w \in Requests, Inbox!Answers(w)
  PROVE  InboxInvInbox'
<1>b. /\ inboxRequest \in [Requests -> IncomingRequests(Inbox!MessageIds, Batched)]
      /\ scheduled \in [Inbox!MessageIds -> Nat]
  BY DEF InboxInvInbox, InboxShapeInbox
<1>1. Inbox!Idle \in IncomingRequests(Inbox!MessageIds, Batched) /\ Inbox!Idle.pc = "idle" /\ Inbox!Idle.jobs = {}
  BY Bounds DEF Inbox!Idle, IncomingRequests, SeenRows, Inbox!InboxAssumption
<1>2. /\ inboxRequest' = [inboxRequest EXCEPT ![w] = Inbox!Idle] /\
        answered' = answered \cup {inboxRequest[w].batch}
      /\ UNCHANGED <<inboxConversation, inboxRow, inboxReader, receipts, inboxActions>>
      /\ inboxRequest[w].pc # "idle"
  BY DEF Inbox!Answers
<1>3. \A m \in Inbox!MessageIds : scheduled'[m] = IF m \in inboxRequest[w].jobs THEN scheduled[m] + 1 ELSE
        scheduled[m]
  BY DEF Inbox!Answers
<1>4. scheduled' \in [Inbox!MessageIds -> Nat]
  BY <1>b DEF Inbox!Answers
<1>5. answered' \subseteq Batched
  BY <1>2 DEF InboxInvInbox, InboxShapeInbox, InboxPlaceInbox
<1>6. InboxShapeInbox'
  BY <1>b, <1>1, <1>2, <1>4, <1>5 DEF InboxInvInbox, InboxShapeInbox
<1>7. \A v \in Requests : InboxPlaceInbox(v)'
  BY <1>b, <1>1, <1>2 DEF InboxInvInbox, InboxPlaceInbox
<1>8. \A v \in Requests : inboxRequest'[v].jobs = IF v = w THEN {} ELSE inboxRequest[v].jobs
  BY <1>b, <1>1, <1>2
<1>9. \A m \in Inbox!MessageIds : Inbox!Saved(m)' = Inbox!Saved(m)
  BY <1>2 DEF Inbox!Saved
<1>10. InboxJobsInbox'
  <2>1. \A v \in Requests, n \in Inbox!MessageIds :
       n \in inboxRequest'[v].jobs => Inbox!Saved(n)' /\ scheduled'[n] = 0
    BY <1>3, <1>8, <1>9 DEF InboxInvInbox, InboxJobsInbox
  <2>2. \A u \in Requests, v \in Requests, n \in Inbox!MessageIds :
       n \in inboxRequest'[u].jobs /\ n \in inboxRequest'[v].jobs => u = v
    BY <1>8 DEF InboxInvInbox, InboxJobsInbox
  <2>3. \A n \in Inbox!MessageIds : scheduled'[n] <= 1 /\ (scheduled'[n] # 0 => Inbox!Saved(n)')
    BY <1>3, <1>9 DEF InboxInvInbox, InboxJobsInbox
  <2>4. \A n \in Inbox!MessageIds, d \in 1 .. MaxConversations :
       inboxRow'[n].conversation = d => inboxConversation'[d].status # "NONE"
    BY <1>2 DEF InboxInvInbox, InboxJobsInbox
  <2> QED BY <2>1, <2>2, <2>3, <2>4 DEF InboxJobsInbox
<1> QED BY <1>6, <1>7, <1>10 DEF InboxInvInbox

\* A write of a page that opens a conversation changes what is read and what is counted.
LEMMA InboxWriteInbox ==
  ASSUME InboxInvInbox, NEW what \in {"counter", "messages"}, NEW c \in 0 .. MaxConversations, Inbox!Write(what, c)
  PROVE  /\ inboxConversation' \in [1 .. MaxConversations -> ThreadRows]
         /\ inboxRow' \in [Inbox!MessageIds -> IncomingRows]
         /\ \A d \in 1 .. MaxConversations : inboxConversation'[d].status = inboxConversation[d].status
         /\ \A m \in Inbox!MessageIds : inboxRow'[m].conversation = inboxRow[m].conversation
<1>b. /\ inboxRow \in [Inbox!MessageIds -> IncomingRows] /\
        inboxConversation \in [1 .. MaxConversations -> ThreadRows]
  BY DEF InboxInvInbox, InboxShapeInbox
<1>1. CASE what = "counter"
  <2>1. inboxConversation' = [inboxConversation EXCEPT ![c].unread = 0] /\ inboxRow' = inboxRow
    BY <1>1 DEF Inbox!Write
  <2> QED BY <1>b, <2>1 DEF ThreadRows
<1>2. CASE what = "messages"
  <2>1. /\ inboxRow' = [m \in Inbox!MessageIds |->
            IF inboxRow[m].conversation = c THEN [inboxRow[m] EXCEPT !.read = TRUE] ELSE inboxRow[m]]
        /\ inboxConversation' = inboxConversation
    BY <1>2 DEF Inbox!Write
  <2>2. \A m \in Inbox!MessageIds : /\ [inboxRow[m] EXCEPT !.read = TRUE] \in IncomingRows
                                /\ [inboxRow[m] EXCEPT !.read = TRUE].conversation = inboxRow[m].conversation
    BY <1>b DEF IncomingRows
  <2> QED BY <1>b, <2>1, <2>2
<1> QED BY <1>1, <1>2

\* Every step keeps it.
LEMMA InboxStepInbox == InboxInvInbox /\ [Inbox!Next]_(Inbox!vars) => InboxInvInbox'
<1> SUFFICES ASSUME InboxInvInbox, [Inbox!Next]_(Inbox!vars) PROVE InboxInvInbox'
  OBVIOUS
<1>a. MaxConversations \in Nat /\ IngestRetries \in Nat /\ InboxSteps \in Nat
  BY Bounds DEF Inbox!InboxAssumption
<1>b. /\ inboxRequest \in [Requests -> IncomingRequests(Inbox!MessageIds, Batched)]
      /\ inboxRow \in [Inbox!MessageIds -> IncomingRows] /\
          inboxConversation \in [1 .. MaxConversations -> ThreadRows]
      /\ inboxReader \in ReaderRows /\ receipts \subseteq Batched /\ answered \subseteq Batched
      /\ inboxActions \in 0 .. InboxSteps
  BY DEF InboxInvInbox, InboxShapeInbox
<1>c. Inbox!Idle \in IncomingRequests(Inbox!MessageIds, Batched) /\ Inbox!Idle.pc = "idle" /\ Inbox!Idle.jobs = {}
  BY <1>a DEF Inbox!Idle, IncomingRequests, SeenRows
<1>1. ASSUME NEW w \in Requests, NEW b \in Batched, Inbox!Arrives(w, b) PROVE InboxInvInbox'
  <2> DEFINE r == [Inbox!Idle EXCEPT !.pc = "event", !.batch = b, !.next = 1]
  <2>1. r \in IncomingRequests(Inbox!MessageIds, Batched)
    BY <1>c DEF IncomingRequests
  <2>2. r.jobs = {} /\ r.pc = "event" /\ r.batch \in Batched /\ r.next # 0
    BY <1>c DEF Inbox!Idle
  <2>3. inboxRequest' = [inboxRequest EXCEPT ![w] = r]
        /\ UNCHANGED <<inboxConversation, inboxRow, inboxReader, receipts, answered, scheduled, inboxActions>>
    BY <1>1 DEF Inbox!Arrives
  <2> HIDE DEF r
  <2> QED BY <1>b, <2>1, <2>2, <2>3, InboxGoesOnInbox
<1>2. ASSUME NEW b \in Batched, Inbox!ArrivesAgain(b) PROVE InboxInvInbox'
  <2>1. answered' \subseteq Batched /\ UNCHANGED <<inboxConversation, inboxRow, inboxReader, inboxRequest,
          receipts, scheduled, inboxActions>>
    BY <1>b, <1>2 DEF Inbox!ArrivesAgain
  <2> QED BY <2>1 DEF InboxInvInbox, InboxShapeInbox, InboxPlaceInbox, InboxJobsInbox, Inbox!Saved
<1>3. ASSUME NEW w \in Requests, Inbox!Begins(w) PROVE InboxInvInbox'
  <2> DEFINE r == [inboxRequest[w] EXCEPT !.pc = "commit", !.seen = Inbox!Read(Inbox!Message(w))]
  <2>0. Inbox!Read(Inbox!Message(w)) \in SeenRows
    BY <1>3, InboxMessageInbox, InboxReadInbox DEF Inbox!Begins
  <2>1. r \in IncomingRequests(Inbox!MessageIds, Batched)
    BY <1>b, <2>0 DEF IncomingRequests
  <2>2. r.jobs = inboxRequest[w].jobs /\ r.batch \in Batched /\ r.next # 0 /\ r.next <= Len(r.batch)
    BY <1>b, <1>3 DEF Inbox!Begins, IncomingRequests, InboxInvInbox, InboxPlaceInbox
  <2>3. inboxRequest' = [inboxRequest EXCEPT ![w] = r]
        /\ UNCHANGED <<inboxConversation, inboxRow, inboxReader, receipts, answered, scheduled, inboxActions>>
    BY <1>b, <1>3 DEF Inbox!Begins, IncomingRequests
  <2> HIDE DEF r
  <2> QED BY <1>b, <2>1, <2>2, <2>3, InboxGoesOnInbox
<1>4. ASSUME NEW w \in Requests, Inbox!FindsDuplicate(w) PROVE InboxInvInbox'
  <2> DEFINE r == [inboxRequest[w] EXCEPT !.pc = "event", !.next = inboxRequest[w].next + 1, !.attempt = 0,
        !.seen = <<>>]
  <2>0. inboxRequest[w].next + 1 \in Nat /\ inboxRequest[w].next + 1 # 0 /\ 0 \in 0 .. IngestRetries
    BY <1>a, <1>b DEF IncomingRequests
  <2>1. r \in IncomingRequests(Inbox!MessageIds, Batched)
    BY <1>b, <2>0 DEF IncomingRequests, SeenRows
  <2>2. r.jobs = inboxRequest[w].jobs /\ r.batch \in Batched /\ r.next # 0 /\ r.pc = "event"
    BY <1>b, <1>4, <2>0 DEF Inbox!FindsDuplicate, IncomingRequests, InboxInvInbox, InboxPlaceInbox
  <2>3. [Inbox!Skips(inboxRequest[w]) EXCEPT !.jobs = inboxRequest[w].jobs] = r
    BY <1>b DEF Inbox!Skips, IncomingRequests
  <2>4. inboxRequest' = [inboxRequest EXCEPT ![w] = r]
        /\ UNCHANGED <<inboxConversation, inboxRow, inboxReader, receipts, answered, scheduled, inboxActions>>
    BY <1>4, <2>3 DEF Inbox!FindsDuplicate, Inbox!JobsOfDuplicate
  <2> HIDE DEF r
  <2> QED BY <1>b, <2>1, <2>2, <2>4, InboxGoesOnInbox
<1>5. ASSUME NEW w \in Requests, Inbox!Conflicts(w) PROVE InboxInvInbox'
  <2> DEFINE r == [inboxRequest[w] EXCEPT !.pc = "event", !.attempt = inboxRequest[w].attempt + 1, !.seen = <<>>]
  <2>0. inboxRequest[w].attempt + 1 \in 0 .. IngestRetries
    BY <1>a, <1>b, <1>5 DEF IncomingRequests, Inbox!Conflicts
  <2>s. <<>> \in SeenRows
    BY DEF SeenRows
  <2>1. r \in IncomingRequests(Inbox!MessageIds, Batched)
    <3>1. ASSUME NEW x \in IncomingRequests(Inbox!MessageIds, Batched), NEW k \in 0 .. IngestRetries
          PROVE  [x EXCEPT !.pc = "event", !.attempt = k, !.seen = <<>>]
                   \in IncomingRequests(Inbox!MessageIds, Batched)
      BY <2>s DEF IncomingRequests
    <3> QED BY <1>b, <2>0, <3>1
  <2>2. r.jobs = inboxRequest[w].jobs /\ r.batch \in Batched /\ r.next # 0 /\ r.pc = "event"
    <3>1. inboxRequest[w].pc = "commit"
      BY <1>5 DEF Inbox!Conflicts
    <3>2. inboxRequest[w].batch \in Batched /\ inboxRequest[w].next # 0
      BY <1>b, <3>1 DEF InboxInvInbox, InboxPlaceInbox
    <3> QED BY <1>b, <3>2 DEF IncomingRequests
  <2>4. inboxRequest' = [inboxRequest EXCEPT ![w] = r]
        /\ UNCHANGED <<inboxConversation, inboxRow, inboxReader, receipts, answered, scheduled, inboxActions>>
    BY <1>b, <1>5 DEF Inbox!Conflicts, IncomingRequests
  <2> HIDE DEF r
  <2> QED BY <1>b, <2>1, <2>2, <2>4, InboxGoesOnInbox
<1>6. ASSUME NEW w \in Requests, Inbox!Finishes(w) PROVE InboxInvInbox'
  <2> DEFINE r == [inboxRequest[w] EXCEPT !.pc = "answer"]
  <2>1. r \in IncomingRequests(Inbox!MessageIds, Batched)
    BY <1>b DEF IncomingRequests
  <2>2. r.jobs = inboxRequest[w].jobs /\ r.batch \in Batched /\ r.next # 0 /\ r.pc = "answer"
    BY <1>b, <1>6 DEF Inbox!Finishes, IncomingRequests, InboxInvInbox, InboxPlaceInbox
  <2>3. inboxRequest[w].batch \in Batched
    BY <1>6 DEF Inbox!Finishes, InboxInvInbox, InboxPlaceInbox
  <2>4. receipts' \subseteq Batched
    BY <1>b, <1>6, <2>3 DEF Inbox!Finishes
  <2>5. inboxRequest' = [inboxRequest EXCEPT ![w] = r]
        /\ UNCHANGED <<inboxConversation, inboxRow, inboxReader, answered, scheduled, inboxActions>>
    BY <1>6 DEF Inbox!Finishes
  <2> HIDE DEF r
  <2> QED BY <1>b, <2>1, <2>2, <2>4, <2>5, InboxGoesOnInbox
<1>7. ASSUME NEW w \in Requests, Inbox!Fails(w) PROVE InboxInvInbox'
  <2>1. inboxRequest' = [inboxRequest EXCEPT ![w] = Inbox!Idle]
        /\ UNCHANGED <<inboxConversation, inboxRow, inboxReader, receipts, answered, scheduled, inboxActions>>
    BY <1>7 DEF Inbox!Fails
  <2> QED BY <1>b, <1>c, <2>1, InboxGoesOnInbox
<1>8. ASSUME NEW c \in 1 .. MaxConversations, Inbox!Opens(c) PROVE InboxInvInbox'
  <2>1. Inbox!Write("counter", c) /\ UNCHANGED <<inboxRequest, receipts, answered, scheduled>>
    BY <1>8 DEF Inbox!Opens, Inbox!Writes
  <2>2. inboxReader' \in ReaderRows
    <3>1. (inboxConversation[c].unread > 0) \in BOOLEAN
      BY <1>b DEF ThreadRows
    <3>2. inboxReader' = [conversation |-> c, locked |-> inboxConversation[c].unread > 0]
      BY <1>8 DEF Inbox!Opens, Inbox!Writes
    <3>3. c \in 0 .. MaxConversations
      BY <1>a
    <3> QED BY <3>1, <3>2, <3>3 DEF ReaderRows
  <2>3. inboxActions' \in 0 .. InboxSteps
    BY <1>a, <1>b, <1>8 DEF Inbox!Opens, Inbox!Acts
  <2> QED BY <1>a, <1>b, <2>1, <2>2, <2>3, InboxWriteInbox, InboxTeamInbox
<1>9. ASSUME Inbox!Opened PROVE InboxInvInbox'
  <2>1. Inbox!Write("messages", inboxReader.conversation) /\
          UNCHANGED <<inboxRequest, receipts, answered, scheduled, inboxActions>>
        /\ inboxReader' = Inbox!NoReader
    BY <1>9 DEF Inbox!Opened, Inbox!Writes
  <2>2. Inbox!NoReader \in ReaderRows /\ inboxReader.conversation \in 0 .. MaxConversations
    BY <1>a, <1>b DEF ReaderRows, Inbox!NoReader
  <2> QED BY <1>b, <2>1, <2>2, InboxWriteInbox, InboxTeamInbox
<1>10. ASSUME NEW c \in 1 .. MaxConversations, NEW status \in {"OPEN", "CLOSED"}, Inbox!SetsStatus(c, status)
         PROVE InboxInvInbox'
  <2>1. inboxConversation' \in [1 .. MaxConversations -> ThreadRows]
    BY <1>b, <1>10 DEF Inbox!SetsStatus, ThreadRows
  <2>2. \A d \in 1 .. MaxConversations : inboxConversation[d].status # "NONE" =>
          inboxConversation'[d].status # "NONE"
    BY <1>b, <1>10 DEF Inbox!SetsStatus, ThreadRows
  <2>3. inboxActions' \in 0 .. InboxSteps
    BY <1>a, <1>b, <1>10 DEF Inbox!SetsStatus, Inbox!Acts
  <2>4. UNCHANGED <<inboxRow, inboxRequest, inboxReader, receipts, answered, scheduled>>
    BY <1>10 DEF Inbox!SetsStatus
  <2> QED BY <1>b, <2>1, <2>2, <2>3, <2>4, InboxTeamInbox
<1>11. ASSUME NEW c \in 1 .. MaxConversations, NEW mode \in {"AI", "HUMAN"}, Inbox!SetsMode(c, mode)
         PROVE InboxInvInbox'
  <2>1. inboxConversation' \in [1 .. MaxConversations -> ThreadRows]
    BY <1>b, <1>11 DEF Inbox!SetsMode, ThreadRows
  <2>2. \A d \in 1 .. MaxConversations : inboxConversation[d].status # "NONE" =>
          inboxConversation'[d].status # "NONE"
    BY <1>b, <1>11 DEF Inbox!SetsMode, ThreadRows
  <2>3. inboxActions' \in 0 .. InboxSteps
    BY <1>a, <1>b, <1>11 DEF Inbox!SetsMode, Inbox!Acts
  <2>4. UNCHANGED <<inboxRow, inboxRequest, inboxReader, receipts, answered, scheduled>>
    BY <1>11 DEF Inbox!SetsMode
  <2> QED BY <1>b, <2>1, <2>2, <2>3, <2>4, InboxTeamInbox
<1>12. CASE UNCHANGED Inbox!vars
  <2>1. UNCHANGED <<inboxConversation, inboxRow, inboxRequest, inboxReader, receipts, answered, scheduled,
          inboxActions>>
    BY <1>12 DEF Inbox!vars
  <2> QED BY <2>1 DEF InboxInvInbox, InboxShapeInbox, InboxPlaceInbox, InboxJobsInbox, Inbox!Saved
<1> QED BY <1>1, <1>2, <1>3, <1>4, <1>5, <1>6, <1>7, <1>8, <1>9, <1>10, <1>11, <1>12, InboxSavesInbox,
      InboxAnswersInbox
        DEF Inbox!Next, Inbox!Conversations

\* What is promised of the messages that come in.
LEMMA InboxHoldsInbox == InboxInvInbox => Inbox!TypeOK /\ Inbox!ScheduledOnce
<1> SUFFICES ASSUME InboxInvInbox PROVE Inbox!TypeOK /\ Inbox!ScheduledOnce
  OBVIOUS
<1>1. Inbox!ScheduledOnce
  BY DEF InboxInvInbox, InboxJobsInbox, Inbox!ScheduledOnce
<1>2. \A w \in Requests : /\ inboxRequest[w].pc \in {"idle", "event", "commit", "answer"}
                          /\ inboxRequest[w].jobs \subseteq Inbox!MessageIds /\
                              inboxRequest[w].attempt \in 0 .. IngestRetries
  BY DEF InboxInvInbox, InboxShapeInbox, IncomingRequests
<1> QED BY <1>1, <1>2 DEF InboxInvInbox, InboxShapeInbox, Inbox!TypeOK, Inbox!Conversations, ThreadRows,
      IncomingRows, ReaderRows

\* The types, row by row, and where the requests are in their batches.
InboxShapeReceipts ==
  /\ inboxConversation \in [1 .. MaxConversations -> ThreadRows]
  /\ inboxRow \in [Receipts!MessageIds -> IncomingRows]
  /\ inboxRequest \in [Requests -> IncomingRequests(Receipts!MessageIds, Single)]
  /\ inboxReader \in ReaderRows
  /\ receipts \subseteq Single /\ answered \subseteq Single
  /\ scheduled \in [Receipts!MessageIds -> Nat] /\ inboxActions \in 0 .. InboxSteps
InboxPlaceReceipts(w) ==
  inboxRequest[w].pc # "idle" =>
    /\ inboxRequest[w].batch \in Single /\ inboxRequest[w].next # 0
    /\ inboxRequest[w].pc = "commit" => inboxRequest[w].next <= Len(inboxRequest[w].batch)
\* Why a message is scheduled once: who has its job saved it, nobody else has it, and it was
\* not scheduled before; and no message is of a conversation that does not exist.
InboxJobsReceipts ==
  /\ \A w \in Requests, m \in Receipts!MessageIds :
       m \in inboxRequest[w].jobs => Receipts!Saved(m) /\ scheduled[m] = 0
  /\ \A v \in Requests, w \in Requests, m \in Receipts!MessageIds :
       m \in inboxRequest[v].jobs /\ m \in inboxRequest[w].jobs => v = w
  /\ \A m \in Receipts!MessageIds : scheduled[m] <= 1 /\ (scheduled[m] # 0 => Receipts!Saved(m))
  /\ \A m \in Receipts!MessageIds, c \in 1 .. MaxConversations :
       inboxRow[m].conversation = c => inboxConversation[c].status # "NONE"
InboxInvReceipts == InboxShapeReceipts /\ (\A w \in Requests : InboxPlaceReceipts(w)) /\ InboxJobsReceipts

\* It holds at the start.
LEMMA InboxInitReceipts == Receipts!Init => InboxInvReceipts
<1> SUFFICES ASSUME Receipts!Init PROVE InboxInvReceipts
  OBVIOUS
<1>a. MaxConversations \in Nat /\ InboxSteps \in Nat /\ IngestRetries \in Nat
  BY Bounds DEF Receipts!InboxAssumption
<1>1. Receipts!NoConversation \in ThreadRows /\ Receipts!NoRow \in IncomingRows /\ Receipts!NoReader \in ReaderRows
  BY <1>a DEF ThreadRows, IncomingRows, ReaderRows, Receipts!NoConversation, Receipts!NoRow, Receipts!NoReader
<1>2. Receipts!Idle \in IncomingRequests(Receipts!MessageIds, Single)
  BY <1>a DEF Receipts!Idle, IncomingRequests, SeenRows
<1>3. InboxShapeReceipts
  BY <1>a, <1>1, <1>2 DEF Receipts!Init, InboxShapeReceipts, Receipts!Conversations
<1>4. \A w \in Requests : inboxRequest[w].pc = "idle" /\ inboxRequest[w].jobs = {}
  BY DEF Receipts!Init, Receipts!Idle
<1>5. \A m \in Receipts!MessageIds : inboxRow[m].conversation = 0 /\ scheduled[m] = 0
  BY DEF Receipts!Init, Receipts!NoRow
<1> QED BY <1>3, <1>4, <1>5 DEF InboxInvReceipts, InboxPlaceReceipts, InboxJobsReceipts

\* The message a request handles is a message of its batch.
LEMMA InboxMessageReceipts ==
  ASSUME InboxInvReceipts, NEW w \in Requests, inboxRequest[w].pc # "idle",
         inboxRequest[w].next <= Len(inboxRequest[w].batch)
  PROVE  Receipts!Message(w) \in Receipts!MessageIds
<1>1. inboxRequest[w].batch \in Single /\ inboxRequest[w].next # 0 /\ inboxRequest[w].next \in Nat
  BY DEF InboxInvReceipts, InboxShapeReceipts, InboxPlaceReceipts, IncomingRequests
<1>2. inboxRequest[w].batch \in Seq(Nat \ {0})
  BY <1>1, Bounds DEF Receipts!InboxAssumption
<1>3. inboxRequest[w].next \in 1 .. Len(inboxRequest[w].batch)
  BY <1>1, <1>2
<1> QED BY <1>1, <1>3 DEF Receipts!Message, Receipts!MessageIds

\* What a transaction reads.
LEMMA InboxReadReceipts ==
  ASSUME InboxInvReceipts, NEW m \in Receipts!MessageIds
  PROVE  /\ Receipts!Read(m) \in SeenRows /\ Receipts!Read(m).saved = Receipts!Saved(m) /\
            Receipts!Read(m).open = Receipts!Open
<1>1. Receipts!Open \in SUBSET (1 .. MaxConversations)
  BY DEF Receipts!Open, Receipts!Conversations
<1>2. [c \in Receipts!Open |-> inboxConversation[c]] \in [Receipts!Open -> ThreadRows]
  BY <1>1 DEF InboxInvReceipts, InboxShapeReceipts
<1>3. [c \in Receipts!Open |-> inboxConversation[c]] \in ThreadMaps
  BY <1>1, <1>2 DEF ThreadMaps
<1>4. Receipts!Saved(m) \in BOOLEAN
  BY DEF Receipts!Saved
<1> QED BY <1>1, <1>3, <1>4 DEF Receipts!Read, SeenRows

\* The message m of the request w joins the conversation c, which was old.
JoinsReceipts(w, c, old, m) ==
           /\ m = Receipts!Message(w) /\ ~ Receipts!Saved(m)
           /\ \/ /\ inboxConversation[c].status = "NONE" /\ old = Receipts!Created /\ Receipts!Open = {}
              \/ /\ inboxConversation[c].status = "OPEN" /\ old = inboxConversation[c]
                 /\ ~ (inboxReader.locked /\ inboxReader.conversation = c)
           /\ inboxConversation' = [inboxConversation EXCEPT ![c] = Receipts!Counted(old)]
           /\ inboxRow' = [inboxRow EXCEPT ![m] = [conversation |-> c, mode |-> old.mode, read |-> FALSE]]
           /\ inboxRequest' = [inboxRequest EXCEPT ![w] = [Receipts!Skips(inboxRequest[w]) EXCEPT !.jobs =
               Receipts!JobsOfNew(w, old.mode)]]
           /\ UNCHANGED <<inboxReader, receipts, answered, scheduled, inboxActions>>

\* The conversation a message joins: the newest that is open, or an unused one.
LEMMA InboxChosenReceipts ==
  ASSUME InboxInvReceipts, NEW w \in Requests, Receipts!Commits(w)
  PROVE  \E c \in 1 .. MaxConversations, old \in ThreadRows, m \in Receipts!MessageIds :
           JoinsReceipts(w, c, old, m)
<1> DEFINE m == Receipts!Message(w)
           found == inboxRequest[w].seen.open
           c == IF found = {} THEN Receipts!Min(Receipts!Unused) ELSE Receipts!Max(found)
           old == IF found = {} THEN Receipts!Created ELSE inboxConversation[c]
<1>a. MaxConversations \in Nat
  BY Bounds DEF Receipts!InboxAssumption
<1>1. inboxRequest[w].pc = "commit"
  BY DEF Receipts!Commits
<1>2. m \in Receipts!MessageIds
  BY <1>1, InboxMessageReceipts DEF InboxInvReceipts, InboxPlaceReceipts
<1>3. inboxRequest[w].seen = Receipts!Read(m) /\ ~ inboxRequest[w].seen.saved /\ Receipts!Unlocked(w)
  BY DEF Receipts!Commits, Receipts!Isolated
<1>4. found = Receipts!Open /\ ~ Receipts!Saved(m)
  BY <1>2, <1>3, InboxReadReceipts
<1>5. /\ inboxConversation' = [inboxConversation EXCEPT ![c] = Receipts!Counted(old)]
      /\ inboxRow' = [inboxRow EXCEPT ![m] = [conversation |-> c, mode |-> old.mode, read |-> FALSE]]
      /\ inboxRequest' = [inboxRequest EXCEPT ![w] = [Receipts!Skips(inboxRequest[w]) EXCEPT !.jobs =
          Receipts!JobsOfNew(w, old.mode)]]
      /\ UNCHANGED <<inboxReader, receipts, answered, scheduled, inboxActions>>
  <2>1. inboxRequest' = [inboxRequest EXCEPT ![w] = [Receipts!Skips(inboxRequest[w]) EXCEPT !.jobs =
          Receipts!JobsOfNew(w, old.mode)]]
    BY DEF Receipts!Commits
  <2> QED BY <2>1 DEF Receipts!Commits
<1>6. CASE found = {}
  <2>1. Receipts!Unused # {} /\ Receipts!Unused \subseteq 1 .. MaxConversations
    BY <1>6 DEF Receipts!Commits, Receipts!Unused, Receipts!Conversations
  <2>2. Receipts!Unused \subseteq Nat
    BY <1>a, <2>1
  <2>3. Receipts!Min(Receipts!Unused) \in Receipts!Unused
    <3> DEFINE S == Receipts!Unused
    <3>1. PICK k \in S : \A j \in S : k <= j
      <4>1. S \subseteq Nat /\ S # {}
        BY <2>1, <2>2
      <4> HIDE DEF S
      <4> QED BY <4>1, Smallest
    <3> QED BY <3>1 DEF Receipts!Min
  <2>4. c \in 1 .. MaxConversations /\ inboxConversation[c].status = "NONE" /\ old = Receipts!Created
    BY <1>6, <2>1, <2>3 DEF Receipts!Unused
  <2>5. Receipts!Created \in ThreadRows
    BY DEF Receipts!Created, Receipts!NoConversation, ThreadRows
  <2>6. JoinsReceipts(w, c, old, m)
    BY <1>2, <1>4, <1>5, <1>6, <2>4 DEF JoinsReceipts
  <2> HIDE DEF c, old, m
  <2> QED BY <1>2, <2>4, <2>5, <2>6
<1>7. CASE found # {}
  <2>1. found \subseteq 1 .. MaxConversations
    BY <1>4 DEF Receipts!Open, Receipts!Conversations
  <2>2. Receipts!Max(found) \in found
    <3> DEFINE S == found
    <3>1. PICK k \in S : \A j \in S : k >= j
      <4>1. S \subseteq 1 .. MaxConversations /\ S # {}
        BY <1>7, <2>1
      <4> HIDE DEF S
      <4> QED BY <1>a, <4>1, Largest
    <3> QED BY <3>1 DEF Receipts!Max
  <2>3. c \in 1 .. MaxConversations /\ inboxConversation[c].status = "OPEN" /\ old = inboxConversation[c] /\
          c \in found
    BY <1>4, <1>7, <2>1, <2>2 DEF Receipts!Open
  <2>4. ~ (inboxReader.locked /\ inboxReader.conversation = c)
    BY <1>3, <2>3 DEF Receipts!Unlocked
  <2>5. inboxConversation[c] \in ThreadRows
    BY <2>3 DEF InboxInvReceipts, InboxShapeReceipts
  <2>6. JoinsReceipts(w, c, old, m)
    BY <1>2, <1>4, <1>5, <2>3, <2>4 DEF JoinsReceipts
  <2> HIDE DEF c, old, m
  <2> QED BY <1>2, <2>3, <2>5, <2>6
<1> QED BY <1>6, <1>7

\* What the team and a page do to the conversations leaves the jobs alone.
LEMMA InboxTeamReceipts ==
  ASSUME InboxInvReceipts, UNCHANGED <<inboxRequest, receipts, answered, scheduled>>,
         inboxConversation' \in [1 .. MaxConversations -> ThreadRows],
         inboxRow' \in [Receipts!MessageIds -> IncomingRows],
         inboxReader' \in ReaderRows, inboxActions' \in 0 .. InboxSteps,
         \A c \in 1 .. MaxConversations : inboxConversation[c].status # "NONE" =>
             inboxConversation'[c].status # "NONE",
         \A m \in Receipts!MessageIds : inboxRow'[m].conversation = inboxRow[m].conversation
  PROVE  InboxInvReceipts'
<1>1. InboxShapeReceipts'
  BY DEF InboxInvReceipts, InboxShapeReceipts
<1>2. \A w \in Requests : InboxPlaceReceipts(w)'
  BY DEF InboxInvReceipts, InboxPlaceReceipts
<1>3. InboxJobsReceipts'
  BY DEF InboxInvReceipts, InboxJobsReceipts, Receipts!Saved
<1> QED BY <1>1, <1>2, <1>3 DEF InboxInvReceipts

\* A request that goes on with no other job keeps the rest.
LEMMA InboxGoesOnReceipts ==
  ASSUME InboxInvReceipts, NEW w \in Requests, NEW r \in IncomingRequests(Receipts!MessageIds, Single),
         inboxRequest' = [inboxRequest EXCEPT ![w] = r],
         r.jobs \subseteq inboxRequest[w].jobs,
         r.pc # "idle" => r.batch \in Single /\ r.next # 0 /\ (r.pc = "commit" => r.next <= Len(r.batch)),
         receipts' \subseteq Single, answered' \subseteq Single,
         UNCHANGED <<inboxConversation, inboxRow, inboxReader, scheduled, inboxActions>>
  PROVE  InboxInvReceipts'
<1>0. inboxRequest \in [Requests -> IncomingRequests(Receipts!MessageIds, Single)]
  BY DEF InboxInvReceipts, InboxShapeReceipts
<1>1. InboxShapeReceipts'
  BY <1>0 DEF InboxInvReceipts, InboxShapeReceipts
<1>2. \A v \in Requests : InboxPlaceReceipts(v)'
  BY <1>0 DEF InboxInvReceipts, InboxPlaceReceipts
<1>3. \A v \in Requests : inboxRequest'[v].jobs \subseteq inboxRequest[v].jobs
  BY <1>0
<1>4. InboxJobsReceipts'
  <2>1. \A m \in Receipts!MessageIds : Receipts!Saved(m)' = Receipts!Saved(m)
    BY DEF Receipts!Saved
  <2> QED BY <1>3, <2>1 DEF InboxInvReceipts, InboxJobsReceipts
<1> QED BY <1>1, <1>2, <1>4 DEF InboxInvReceipts

\* A message is saved with its job, which nobody had.
LEMMA InboxSavesReceipts ==
  ASSUME InboxInvReceipts, NEW w \in Requests, Receipts!Commits(w)
  PROVE  InboxInvReceipts'
<1>a. MaxConversations \in Nat /\ IngestRetries \in Nat
  BY Bounds DEF Receipts!InboxAssumption
<1>b. /\ inboxRequest \in [Requests -> IncomingRequests(Receipts!MessageIds, Single)]
      /\ inboxRow \in [Receipts!MessageIds -> IncomingRows] /\
          inboxConversation \in [1 .. MaxConversations -> ThreadRows]
  BY DEF InboxInvReceipts, InboxShapeReceipts
<1>1. PICK c \in 1 .. MaxConversations, old \in ThreadRows, m \in Receipts!MessageIds :
           JoinsReceipts(w, c, old, m)
  BY InboxChosenReceipts
<1> USE DEF JoinsReceipts
<1>2. Receipts!Counted(old) \in ThreadRows /\ Receipts!Counted(old).status = "OPEN"
  BY <1>1 DEF ThreadRows, Receipts!Counted, Receipts!Created, Receipts!NoConversation
<1>3. [conversation |-> c, mode |-> old.mode, read |-> FALSE] \in IncomingRows
  BY <1>a DEF ThreadRows, IncomingRows
<1>4. /\ inboxRequest'[w] \in IncomingRequests(Receipts!MessageIds, Single)
      /\ inboxRequest'[w].pc = "event" /\ inboxRequest'[w].batch = inboxRequest[w].batch
      /\ inboxRequest'[w].next # 0
      /\ inboxRequest'[w].jobs \subseteq inboxRequest[w].jobs \cup {m}
  <2>1. inboxRequest[w] \in IncomingRequests(Receipts!MessageIds, Single)
    BY <1>b
  <2>2. inboxRequest[w].next + 1 \in Nat /\ inboxRequest[w].next + 1 # 0 /\ 0 \in 0 .. IngestRetries
    BY <1>a, <2>1 DEF IncomingRequests
  <2>3. inboxRequest'[w] = [Receipts!Skips(inboxRequest[w]) EXCEPT !.jobs = Receipts!JobsOfNew(w, old.mode)]
    BY <1>b, <1>1
  <2>4. Receipts!Skips(inboxRequest[w]) = [inboxRequest[w] EXCEPT !.pc = "event", !.next =
          inboxRequest[w].next + 1, !.attempt = 0, !.seen = <<>>]
    BY <2>1 DEF Receipts!Skips, IncomingRequests
  <2>5. Receipts!Skips(inboxRequest[w]) \in IncomingRequests(Receipts!MessageIds, Single)
    BY <2>1, <2>2, <2>4 DEF IncomingRequests, SeenRows
  <2>6. Receipts!JobsOfNew(w, old.mode) \subseteq inboxRequest[w].jobs \cup {m} /\
          Receipts!JobsOfNew(w, old.mode) \subseteq Receipts!MessageIds
    BY <1>1, <2>1 DEF Receipts!JobsOfNew, IncomingRequests
  <2>7. Receipts!Skips(inboxRequest[w]).pc = "event" /\ Receipts!Skips(inboxRequest[w]).batch =
          inboxRequest[w].batch
        /\ Receipts!Skips(inboxRequest[w]).next # 0
    BY <2>1, <2>2, <2>4 DEF IncomingRequests
  <2> HIDE DEF JoinsReceipts
  <2> DEFINE skipped == Receipts!Skips(inboxRequest[w])
             jobs == Receipts!JobsOfNew(w, old.mode)
  <2>8. skipped \in IncomingRequests(Receipts!MessageIds, Single) /\
          inboxRequest'[w] = [skipped EXCEPT !.jobs = jobs]
    BY <2>3, <2>5
  <2> HIDE DEF skipped, jobs
  <2>9. inboxRequest'[w].pc = skipped.pc /\ inboxRequest'[w].batch = skipped.batch /\
          inboxRequest'[w].next = skipped.next
        /\ inboxRequest'[w].jobs = jobs
    BY <2>8 DEF IncomingRequests
  <2>10. jobs \subseteq Receipts!MessageIds
    BY <2>6 DEF jobs
  <2>11. inboxRequest'[w] \in IncomingRequests(Receipts!MessageIds, Single)
    BY <2>8, <2>10 DEF IncomingRequests
  <2> QED BY <2>6, <2>7, <2>9, <2>11 DEF skipped, jobs
<1>5. \A v \in Requests : v # w => inboxRequest'[v] = inboxRequest[v]
  BY <1>b, <1>1
<1>6. inboxRequest' \in [Requests -> IncomingRequests(Receipts!MessageIds, Single)]
  BY <1>b, <1>1, <1>4, <1>5
<1>7. InboxShapeReceipts'
  BY <1>b, <1>1, <1>2, <1>3, <1>6 DEF InboxInvReceipts, InboxShapeReceipts
<1>8. \A v \in Requests : InboxPlaceReceipts(v)'
  <2>1. inboxRequest[w].pc # "idle"
    BY DEF Receipts!Commits
  <2> QED BY <1>4, <1>5, <2>1 DEF InboxInvReceipts, InboxPlaceReceipts
<1>9. \A n \in Receipts!MessageIds : Receipts!Saved(n)' = (Receipts!Saved(n) \/ n = m)
  BY <1>a, <1>b, <1>1 DEF Receipts!Saved
<1>10. \A v \in Requests : m \notin inboxRequest[v].jobs
  BY <1>1 DEF InboxInvReceipts, InboxJobsReceipts
<1>11. \A v \in Requests, n \in Receipts!MessageIds : n \in inboxRequest'[v].jobs =>
         n \in inboxRequest[v].jobs \/ (n = m /\ v = w)
  BY <1>4, <1>5
<1>12. scheduled' = scheduled /\ scheduled[m] = 0
  BY <1>1 DEF InboxInvReceipts, InboxJobsReceipts
<1>13. \A d \in 1 .. MaxConversations :
         inboxConversation'[d].status # "NONE" <=> inboxConversation[d].status # "NONE" \/ d = c
  BY <1>b, <1>1, <1>2
<1>14. \A n \in Receipts!MessageIds : inboxRow'[n].conversation = IF n = m THEN c ELSE inboxRow[n].conversation
  BY <1>b, <1>1
<1>15. InboxJobsReceipts'
  <2>1. \A v \in Requests, n \in Receipts!MessageIds :
       n \in inboxRequest'[v].jobs => Receipts!Saved(n)' /\ scheduled'[n] = 0
    BY <1>9, <1>11, <1>12 DEF InboxInvReceipts, InboxJobsReceipts
  <2>2. \A u \in Requests, v \in Requests, n \in Receipts!MessageIds :
       n \in inboxRequest'[u].jobs /\ n \in inboxRequest'[v].jobs => u = v
    BY <1>10, <1>11 DEF InboxInvReceipts, InboxJobsReceipts
  <2>3. \A n \in Receipts!MessageIds : scheduled'[n] <= 1 /\ (scheduled'[n] # 0 => Receipts!Saved(n)')
    BY <1>9, <1>12 DEF InboxInvReceipts, InboxJobsReceipts
  <2>4. \A n \in Receipts!MessageIds, d \in 1 .. MaxConversations :
       inboxRow'[n].conversation = d => inboxConversation'[d].status # "NONE"
    BY <1>13, <1>14 DEF InboxInvReceipts, InboxJobsReceipts
  <2> QED BY <2>1, <2>2, <2>3, <2>4 DEF InboxJobsReceipts
<1> QED BY <1>7, <1>8, <1>15 DEF InboxInvReceipts

\* The answers of a request are scheduled, and nobody has their jobs any more.
LEMMA InboxAnswersReceipts ==
  ASSUME InboxInvReceipts, NEW w \in Requests, Receipts!Answers(w)
  PROVE  InboxInvReceipts'
<1>b. /\ inboxRequest \in [Requests -> IncomingRequests(Receipts!MessageIds, Single)]
      /\ scheduled \in [Receipts!MessageIds -> Nat]
  BY DEF InboxInvReceipts, InboxShapeReceipts
<1>1. Receipts!Idle \in IncomingRequests(Receipts!MessageIds, Single) /\ Receipts!Idle.pc = "idle" /\
        Receipts!Idle.jobs = {}
  BY Bounds DEF Receipts!Idle, IncomingRequests, SeenRows, Receipts!InboxAssumption
<1>2. /\ inboxRequest' = [inboxRequest EXCEPT ![w] = Receipts!Idle] /\
        answered' = answered \cup {inboxRequest[w].batch}
      /\ UNCHANGED <<inboxConversation, inboxRow, inboxReader, receipts, inboxActions>>
      /\ inboxRequest[w].pc # "idle"
  BY DEF Receipts!Answers
<1>3. \A m \in Receipts!MessageIds : scheduled'[m] = IF m \in inboxRequest[w].jobs THEN scheduled[m] + 1 ELSE
        scheduled[m]
  BY DEF Receipts!Answers
<1>4. scheduled' \in [Receipts!MessageIds -> Nat]
  BY <1>b DEF Receipts!Answers
<1>5. answered' \subseteq Single
  BY <1>2 DEF InboxInvReceipts, InboxShapeReceipts, InboxPlaceReceipts
<1>6. InboxShapeReceipts'
  BY <1>b, <1>1, <1>2, <1>4, <1>5 DEF InboxInvReceipts, InboxShapeReceipts
<1>7. \A v \in Requests : InboxPlaceReceipts(v)'
  BY <1>b, <1>1, <1>2 DEF InboxInvReceipts, InboxPlaceReceipts
<1>8. \A v \in Requests : inboxRequest'[v].jobs = IF v = w THEN {} ELSE inboxRequest[v].jobs
  BY <1>b, <1>1, <1>2
<1>9. \A m \in Receipts!MessageIds : Receipts!Saved(m)' = Receipts!Saved(m)
  BY <1>2 DEF Receipts!Saved
<1>10. InboxJobsReceipts'
  <2>1. \A v \in Requests, n \in Receipts!MessageIds :
       n \in inboxRequest'[v].jobs => Receipts!Saved(n)' /\ scheduled'[n] = 0
    BY <1>3, <1>8, <1>9 DEF InboxInvReceipts, InboxJobsReceipts
  <2>2. \A u \in Requests, v \in Requests, n \in Receipts!MessageIds :
       n \in inboxRequest'[u].jobs /\ n \in inboxRequest'[v].jobs => u = v
    BY <1>8 DEF InboxInvReceipts, InboxJobsReceipts
  <2>3. \A n \in Receipts!MessageIds : scheduled'[n] <= 1 /\ (scheduled'[n] # 0 => Receipts!Saved(n)')
    BY <1>3, <1>9 DEF InboxInvReceipts, InboxJobsReceipts
  <2>4. \A n \in Receipts!MessageIds, d \in 1 .. MaxConversations :
       inboxRow'[n].conversation = d => inboxConversation'[d].status # "NONE"
    BY <1>2 DEF InboxInvReceipts, InboxJobsReceipts
  <2> QED BY <2>1, <2>2, <2>3, <2>4 DEF InboxJobsReceipts
<1> QED BY <1>6, <1>7, <1>10 DEF InboxInvReceipts

\* A write of a page that opens a conversation changes what is read and what is counted.
LEMMA InboxWriteReceipts ==
  ASSUME InboxInvReceipts, NEW what \in {"counter", "messages"}, NEW c \in 0 .. MaxConversations,
      Receipts!Write(what, c)
  PROVE  /\ inboxConversation' \in [1 .. MaxConversations -> ThreadRows]
         /\ inboxRow' \in [Receipts!MessageIds -> IncomingRows]
         /\ \A d \in 1 .. MaxConversations : inboxConversation'[d].status = inboxConversation[d].status
         /\ \A m \in Receipts!MessageIds : inboxRow'[m].conversation = inboxRow[m].conversation
<1>b. /\ inboxRow \in [Receipts!MessageIds -> IncomingRows] /\
        inboxConversation \in [1 .. MaxConversations -> ThreadRows]
  BY DEF InboxInvReceipts, InboxShapeReceipts
<1>1. CASE what = "counter"
  <2>1. inboxConversation' = [inboxConversation EXCEPT ![c].unread = 0] /\ inboxRow' = inboxRow
    BY <1>1 DEF Receipts!Write
  <2> QED BY <1>b, <2>1 DEF ThreadRows
<1>2. CASE what = "messages"
  <2>1. /\ inboxRow' = [m \in Receipts!MessageIds |->
            IF inboxRow[m].conversation = c THEN [inboxRow[m] EXCEPT !.read = TRUE] ELSE inboxRow[m]]
        /\ inboxConversation' = inboxConversation
    BY <1>2 DEF Receipts!Write
  <2>2. \A m \in Receipts!MessageIds : /\ [inboxRow[m] EXCEPT !.read = TRUE] \in IncomingRows
                                /\ [inboxRow[m] EXCEPT !.read = TRUE].conversation = inboxRow[m].conversation
    BY <1>b DEF IncomingRows
  <2> QED BY <1>b, <2>1, <2>2
<1> QED BY <1>1, <1>2

\* Every step keeps it.
LEMMA InboxStepReceipts == InboxInvReceipts /\ [Receipts!Next]_(Receipts!vars) => InboxInvReceipts'
<1> SUFFICES ASSUME InboxInvReceipts, [Receipts!Next]_(Receipts!vars) PROVE InboxInvReceipts'
  OBVIOUS
<1>a. MaxConversations \in Nat /\ IngestRetries \in Nat /\ InboxSteps \in Nat
  BY Bounds DEF Receipts!InboxAssumption
<1>b. /\ inboxRequest \in [Requests -> IncomingRequests(Receipts!MessageIds, Single)]
      /\ inboxRow \in [Receipts!MessageIds -> IncomingRows] /\
          inboxConversation \in [1 .. MaxConversations -> ThreadRows]
      /\ inboxReader \in ReaderRows /\ receipts \subseteq Single /\ answered \subseteq Single
      /\ inboxActions \in 0 .. InboxSteps
  BY DEF InboxInvReceipts, InboxShapeReceipts
<1>c. Receipts!Idle \in IncomingRequests(Receipts!MessageIds, Single) /\ Receipts!Idle.pc = "idle" /\
        Receipts!Idle.jobs = {}
  BY <1>a DEF Receipts!Idle, IncomingRequests, SeenRows
<1>1. ASSUME NEW w \in Requests, NEW b \in Single, Receipts!Arrives(w, b) PROVE InboxInvReceipts'
  <2> DEFINE r == [Receipts!Idle EXCEPT !.pc = "event", !.batch = b, !.next = 1]
  <2>1. r \in IncomingRequests(Receipts!MessageIds, Single)
    BY <1>c DEF IncomingRequests
  <2>2. r.jobs = {} /\ r.pc = "event" /\ r.batch \in Single /\ r.next # 0
    BY <1>c DEF Receipts!Idle
  <2>3. inboxRequest' = [inboxRequest EXCEPT ![w] = r]
        /\ UNCHANGED <<inboxConversation, inboxRow, inboxReader, receipts, answered, scheduled, inboxActions>>
    BY <1>1 DEF Receipts!Arrives
  <2> HIDE DEF r
  <2> QED BY <1>b, <2>1, <2>2, <2>3, InboxGoesOnReceipts
<1>2. ASSUME NEW b \in Single, Receipts!ArrivesAgain(b) PROVE InboxInvReceipts'
  <2>1. answered' \subseteq Single /\ UNCHANGED <<inboxConversation, inboxRow, inboxReader, inboxRequest,
          receipts, scheduled, inboxActions>>
    BY <1>b, <1>2 DEF Receipts!ArrivesAgain
  <2> QED BY <2>1 DEF InboxInvReceipts, InboxShapeReceipts, InboxPlaceReceipts, InboxJobsReceipts, Receipts!Saved
<1>3. ASSUME NEW w \in Requests, Receipts!Begins(w) PROVE InboxInvReceipts'
  <2> DEFINE r == [inboxRequest[w] EXCEPT !.pc = "commit", !.seen = Receipts!Read(Receipts!Message(w))]
  <2>0. Receipts!Read(Receipts!Message(w)) \in SeenRows
    BY <1>3, InboxMessageReceipts, InboxReadReceipts DEF Receipts!Begins
  <2>1. r \in IncomingRequests(Receipts!MessageIds, Single)
    BY <1>b, <2>0 DEF IncomingRequests
  <2>2. r.jobs = inboxRequest[w].jobs /\ r.batch \in Single /\ r.next # 0 /\ r.next <= Len(r.batch)
    BY <1>b, <1>3 DEF Receipts!Begins, IncomingRequests, InboxInvReceipts, InboxPlaceReceipts
  <2>3. inboxRequest' = [inboxRequest EXCEPT ![w] = r]
        /\ UNCHANGED <<inboxConversation, inboxRow, inboxReader, receipts, answered, scheduled, inboxActions>>
    BY <1>b, <1>3 DEF Receipts!Begins, IncomingRequests
  <2> HIDE DEF r
  <2> QED BY <1>b, <2>1, <2>2, <2>3, InboxGoesOnReceipts
<1>4. ASSUME NEW w \in Requests, Receipts!FindsDuplicate(w) PROVE InboxInvReceipts'
  <2> DEFINE r == [inboxRequest[w] EXCEPT !.pc = "event", !.next = inboxRequest[w].next + 1, !.attempt = 0,
        !.seen = <<>>]
  <2>0. inboxRequest[w].next + 1 \in Nat /\ inboxRequest[w].next + 1 # 0 /\ 0 \in 0 .. IngestRetries
    BY <1>a, <1>b DEF IncomingRequests
  <2>1. r \in IncomingRequests(Receipts!MessageIds, Single)
    BY <1>b, <2>0 DEF IncomingRequests, SeenRows
  <2>2. r.jobs = inboxRequest[w].jobs /\ r.batch \in Single /\ r.next # 0 /\ r.pc = "event"
    BY <1>b, <1>4, <2>0 DEF Receipts!FindsDuplicate, IncomingRequests, InboxInvReceipts, InboxPlaceReceipts
  <2>3. [Receipts!Skips(inboxRequest[w]) EXCEPT !.jobs = inboxRequest[w].jobs] = r
    BY <1>b DEF Receipts!Skips, IncomingRequests
  <2>4. inboxRequest' = [inboxRequest EXCEPT ![w] = r]
        /\ UNCHANGED <<inboxConversation, inboxRow, inboxReader, receipts, answered, scheduled, inboxActions>>
    BY <1>4, <2>3 DEF Receipts!FindsDuplicate, Receipts!JobsOfDuplicate
  <2> HIDE DEF r
  <2> QED BY <1>b, <2>1, <2>2, <2>4, InboxGoesOnReceipts
<1>5. ASSUME NEW w \in Requests, Receipts!Conflicts(w) PROVE InboxInvReceipts'
  <2> DEFINE r == [inboxRequest[w] EXCEPT !.pc = "event", !.attempt = inboxRequest[w].attempt + 1, !.seen = <<>>]
  <2>0. inboxRequest[w].attempt + 1 \in 0 .. IngestRetries
    BY <1>a, <1>b, <1>5 DEF IncomingRequests, Receipts!Conflicts
  <2>s. <<>> \in SeenRows
    BY DEF SeenRows
  <2>1. r \in IncomingRequests(Receipts!MessageIds, Single)
    <3>1. ASSUME NEW x \in IncomingRequests(Receipts!MessageIds, Single), NEW k \in 0 .. IngestRetries
          PROVE  [x EXCEPT !.pc = "event", !.attempt = k, !.seen = <<>>]
                   \in IncomingRequests(Receipts!MessageIds, Single)
      BY <2>s DEF IncomingRequests
    <3> QED BY <1>b, <2>0, <3>1
  <2>2. r.jobs = inboxRequest[w].jobs /\ r.batch \in Single /\ r.next # 0 /\ r.pc = "event"
    <3>1. inboxRequest[w].pc = "commit"
      BY <1>5 DEF Receipts!Conflicts
    <3>2. inboxRequest[w].batch \in Single /\ inboxRequest[w].next # 0
      BY <1>b, <3>1 DEF InboxInvReceipts, InboxPlaceReceipts
    <3> QED BY <1>b, <3>2 DEF IncomingRequests
  <2>4. inboxRequest' = [inboxRequest EXCEPT ![w] = r]
        /\ UNCHANGED <<inboxConversation, inboxRow, inboxReader, receipts, answered, scheduled, inboxActions>>
    BY <1>b, <1>5 DEF Receipts!Conflicts, IncomingRequests
  <2> HIDE DEF r
  <2> QED BY <1>b, <2>1, <2>2, <2>4, InboxGoesOnReceipts
<1>6. ASSUME NEW w \in Requests, Receipts!Finishes(w) PROVE InboxInvReceipts'
  <2> DEFINE r == [inboxRequest[w] EXCEPT !.pc = "answer"]
  <2>1. r \in IncomingRequests(Receipts!MessageIds, Single)
    BY <1>b DEF IncomingRequests
  <2>2. r.jobs = inboxRequest[w].jobs /\ r.batch \in Single /\ r.next # 0 /\ r.pc = "answer"
    BY <1>b, <1>6 DEF Receipts!Finishes, IncomingRequests, InboxInvReceipts, InboxPlaceReceipts
  <2>3. inboxRequest[w].batch \in Single
    BY <1>6 DEF Receipts!Finishes, InboxInvReceipts, InboxPlaceReceipts
  <2>4. receipts' \subseteq Single
    BY <1>b, <1>6, <2>3 DEF Receipts!Finishes
  <2>5. inboxRequest' = [inboxRequest EXCEPT ![w] = r]
        /\ UNCHANGED <<inboxConversation, inboxRow, inboxReader, answered, scheduled, inboxActions>>
    BY <1>6 DEF Receipts!Finishes
  <2> HIDE DEF r
  <2> QED BY <1>b, <2>1, <2>2, <2>4, <2>5, InboxGoesOnReceipts
<1>7. ASSUME NEW w \in Requests, Receipts!Fails(w) PROVE InboxInvReceipts'
  <2>1. inboxRequest' = [inboxRequest EXCEPT ![w] = Receipts!Idle]
        /\ UNCHANGED <<inboxConversation, inboxRow, inboxReader, receipts, answered, scheduled, inboxActions>>
    BY <1>7 DEF Receipts!Fails
  <2> QED BY <1>b, <1>c, <2>1, InboxGoesOnReceipts
<1>8. ASSUME NEW c \in 1 .. MaxConversations, Receipts!Opens(c) PROVE InboxInvReceipts'
  <2>1. Receipts!Write("counter", c) /\ UNCHANGED <<inboxRequest, receipts, answered, scheduled>>
    BY <1>8 DEF Receipts!Opens, Receipts!Writes
  <2>2. inboxReader' \in ReaderRows
    <3>1. (inboxConversation[c].unread > 0) \in BOOLEAN
      BY <1>b DEF ThreadRows
    <3>2. inboxReader' = [conversation |-> c, locked |-> inboxConversation[c].unread > 0]
      BY <1>8 DEF Receipts!Opens, Receipts!Writes
    <3>3. c \in 0 .. MaxConversations
      BY <1>a
    <3> QED BY <3>1, <3>2, <3>3 DEF ReaderRows
  <2>3. inboxActions' \in 0 .. InboxSteps
    BY <1>a, <1>b, <1>8 DEF Receipts!Opens, Receipts!Acts
  <2> QED BY <1>a, <1>b, <2>1, <2>2, <2>3, InboxWriteReceipts, InboxTeamReceipts
<1>9. ASSUME Receipts!Opened PROVE InboxInvReceipts'
  <2>1. Receipts!Write("messages", inboxReader.conversation) /\
          UNCHANGED <<inboxRequest, receipts, answered, scheduled, inboxActions>>
        /\ inboxReader' = Receipts!NoReader
    BY <1>9 DEF Receipts!Opened, Receipts!Writes
  <2>2. Receipts!NoReader \in ReaderRows /\ inboxReader.conversation \in 0 .. MaxConversations
    BY <1>a, <1>b DEF ReaderRows, Receipts!NoReader
  <2> QED BY <1>b, <2>1, <2>2, InboxWriteReceipts, InboxTeamReceipts
<1>10. ASSUME NEW c \in 1 .. MaxConversations, NEW status \in {"OPEN", "CLOSED"}, Receipts!SetsStatus(c, status)
         PROVE InboxInvReceipts'
  <2>1. inboxConversation' \in [1 .. MaxConversations -> ThreadRows]
    BY <1>b, <1>10 DEF Receipts!SetsStatus, ThreadRows
  <2>2. \A d \in 1 .. MaxConversations : inboxConversation[d].status # "NONE" =>
          inboxConversation'[d].status # "NONE"
    BY <1>b, <1>10 DEF Receipts!SetsStatus, ThreadRows
  <2>3. inboxActions' \in 0 .. InboxSteps
    BY <1>a, <1>b, <1>10 DEF Receipts!SetsStatus, Receipts!Acts
  <2>4. UNCHANGED <<inboxRow, inboxRequest, inboxReader, receipts, answered, scheduled>>
    BY <1>10 DEF Receipts!SetsStatus
  <2> QED BY <1>b, <2>1, <2>2, <2>3, <2>4, InboxTeamReceipts
<1>11. ASSUME NEW c \in 1 .. MaxConversations, NEW mode \in {"AI", "HUMAN"}, Receipts!SetsMode(c, mode)
         PROVE InboxInvReceipts'
  <2>1. inboxConversation' \in [1 .. MaxConversations -> ThreadRows]
    BY <1>b, <1>11 DEF Receipts!SetsMode, ThreadRows
  <2>2. \A d \in 1 .. MaxConversations : inboxConversation[d].status # "NONE" =>
          inboxConversation'[d].status # "NONE"
    BY <1>b, <1>11 DEF Receipts!SetsMode, ThreadRows
  <2>3. inboxActions' \in 0 .. InboxSteps
    BY <1>a, <1>b, <1>11 DEF Receipts!SetsMode, Receipts!Acts
  <2>4. UNCHANGED <<inboxRow, inboxRequest, inboxReader, receipts, answered, scheduled>>
    BY <1>11 DEF Receipts!SetsMode
  <2> QED BY <1>b, <2>1, <2>2, <2>3, <2>4, InboxTeamReceipts
<1>12. CASE UNCHANGED Receipts!vars
  <2>1. UNCHANGED <<inboxConversation, inboxRow, inboxRequest, inboxReader, receipts, answered, scheduled,
          inboxActions>>
    BY <1>12 DEF Receipts!vars
  <2> QED BY <2>1 DEF InboxInvReceipts, InboxShapeReceipts, InboxPlaceReceipts, InboxJobsReceipts, Receipts!Saved
<1> QED BY <1>1, <1>2, <1>3, <1>4, <1>5, <1>6, <1>7, <1>8, <1>9, <1>10, <1>11, <1>12, InboxSavesReceipts,
      InboxAnswersReceipts
        DEF Receipts!Next, Receipts!Conversations

\* What is promised of the messages that come in.
LEMMA InboxHoldsReceipts == InboxInvReceipts => Receipts!TypeOK /\ Receipts!ScheduledOnce
<1> SUFFICES ASSUME InboxInvReceipts PROVE Receipts!TypeOK /\ Receipts!ScheduledOnce
  OBVIOUS
<1>1. Receipts!ScheduledOnce
  BY DEF InboxInvReceipts, InboxJobsReceipts, Receipts!ScheduledOnce
<1>2. \A w \in Requests : /\ inboxRequest[w].pc \in {"idle", "event", "commit", "answer"}
                          /\ inboxRequest[w].jobs \subseteq Receipts!MessageIds /\
                              inboxRequest[w].attempt \in 0 .. IngestRetries
  BY DEF InboxInvReceipts, InboxShapeReceipts, IncomingRequests
<1> QED BY <1>1, <1>2 DEF InboxInvReceipts, InboxShapeReceipts, Receipts!TypeOK, Receipts!Conversations,
      ThreadRows, IncomingRows, ReaderRows

\* A conversation is created when no other is open.
LEMMA CreatedAloneHolds == InboxInvReceipts /\ [Receipts!Next]_(Receipts!vars) => Receipts!CreatedAloneStep
<1> SUFFICES ASSUME InboxInvReceipts, [Receipts!Next]_(Receipts!vars), NEW d \in 1 .. MaxConversations,
                    inboxConversation[d].status = "NONE", inboxConversation'[d].status # "NONE"
             PROVE  Receipts!Open = {}
  BY DEF Receipts!CreatedAloneStep, Receipts!Conversations
<1>b. inboxConversation \in [1 .. MaxConversations -> ThreadRows]
  BY DEF InboxInvReceipts, InboxShapeReceipts
<1>1. CASE \E w \in Requests : Receipts!Commits(w)
  <2>1. PICK w \in Requests : Receipts!Commits(w)
    BY <1>1
  <2> QED BY <1>b, <2>1, InboxChosenReceipts DEF JoinsReceipts
<1>2. CASE \E c \in 1 .. MaxConversations : Receipts!Opens(c)
  <2>1. PICK c \in 1 .. MaxConversations : Receipts!Opens(c)
    BY <1>2
  <2>2. Receipts!Write("counter", c) /\ c \in 0 .. MaxConversations
    BY <2>1, Bounds DEF Receipts!Opens, Receipts!Writes, Receipts!InboxAssumption
  <2> QED BY <2>2, InboxWriteReceipts
<1>3. CASE Receipts!Opened
  <2>1. Receipts!Write("messages", inboxReader.conversation) /\ inboxReader.conversation \in 0 .. MaxConversations
    BY <1>3 DEF Receipts!Opened, Receipts!Writes, InboxInvReceipts, InboxShapeReceipts, ReaderRows
  <2> QED BY <2>1, InboxWriteReceipts
<1>4. CASE \E c \in 1 .. MaxConversations : \/ \E status \in {"OPEN", "CLOSED"} : Receipts!SetsStatus(c, status)
                                            \/ \E mode \in {"AI", "HUMAN"} : Receipts!SetsMode(c, mode)
  <2>1. PICK c \in 1 .. MaxConversations : inboxConversation[c].status # "NONE" /\
          \A e \in 1 .. MaxConversations : e # c => inboxConversation'[e] = inboxConversation[e]
    BY <1>b, <1>4 DEF Receipts!SetsStatus, Receipts!SetsMode
  <2> QED BY <2>1
<1>5. ASSUME UNCHANGED inboxConversation PROVE FALSE
  BY <1>5
<1>6. ASSUME NEW w \in Requests, \/ Receipts!Begins(w) \/ Receipts!FindsDuplicate(w) \/ Receipts!Conflicts(w)
                                 \/ Receipts!Finishes(w) \/ Receipts!Answers(w) \/ Receipts!Fails(w)
                                 \/ \E b \in Single : Receipts!Arrives(w, b)
      PROVE  UNCHANGED inboxConversation
  BY <1>6 DEF Receipts!Begins, Receipts!FindsDuplicate, Receipts!Conflicts, Receipts!Finishes,
      Receipts!Answers, Receipts!Fails, Receipts!Arrives
<1>7. ASSUME \E b \in Single : Receipts!ArrivesAgain(b) PROVE UNCHANGED inboxConversation
  BY <1>7 DEF Receipts!ArrivesAgain
<1>8. ASSUME UNCHANGED Receipts!vars PROVE UNCHANGED inboxConversation
  BY <1>8 DEF Receipts!vars
<1> QED BY <1>1, <1>2, <1>3, <1>4, <1>5, <1>6, <1>7, <1>8 DEF Receipts!Next, Receipts!Conversations

------------------------------------------------------------------------------
\* The messages to read of a conversation, and those saved so far.
Waiting(c) == {m \in Inbox!MessageIds : inboxRow[m].conversation = c /\ ~ inboxRow[m].read}
SavedMessages == {m \in Inbox!MessageIds : Inbox!Saved(m)}
\* Why the counter hides nothing: every message that joins a conversation adds to both, and a
\* page that clears the counter marks the messages before anybody else saves one.
NoneHiddenInv ==
  /\ InboxInvInbox
  /\ IsFiniteSet(SavedMessages)
  /\ \A c \in 1 .. MaxConversations :
       inboxReader.conversation # c => inboxConversation[c].unread >= Cardinality(Waiting(c))

\* It is what the component states.
LEMMA NoneHiddenHolds == NoneHiddenInv => Inbox!NoneHidden
<1>1. \A S : Inbox!Cardinality(S) = Cardinality(S)
  BY DEF Inbox!Cardinality, Cardinality
<1> QED BY <1>1 DEF NoneHiddenInv, Inbox!NoneHidden, Inbox!ToRead, Waiting, Inbox!Conversations

\* Nothing waits at the start.
LEMMA NoneHiddenInit == Inbox!Init => NoneHiddenInv
<1> SUFFICES ASSUME Inbox!Init PROVE NoneHiddenInv
  OBVIOUS
<1>0. InboxInvInbox
  BY InboxInitInbox
<1>1. \A m \in Inbox!MessageIds : inboxRow[m].conversation = 0
  BY DEF Inbox!Init, Inbox!NoRow
<1>2. SavedMessages = {} /\ \A c \in 1 .. MaxConversations : Waiting(c) = {}
  BY <1>1, Bounds DEF SavedMessages, Waiting, Inbox!Saved, Inbox!InboxAssumption
<1>3. \A c \in 1 .. MaxConversations : inboxConversation[c].unread \in Nat
  BY <1>0 DEF InboxInvInbox, InboxShapeInbox, ThreadRows
<1> QED BY <1>0, <1>2, <1>3, FS_EmptySet DEF NoneHiddenInv

\* A step in which no counter goes down and no message comes hides nothing.
LEMMA NoneHiddenKept ==
  ASSUME NoneHiddenInv, InboxInvInbox', UNCHANGED <<inboxConversation, inboxRow, inboxReader>>
  PROVE  NoneHiddenInv'
<1>1. SavedMessages' = SavedMessages
  BY DEF SavedMessages, Inbox!Saved
<1>2. \A c \in 1 .. MaxConversations : Waiting(c)' = Waiting(c)
  BY DEF Waiting
<1> QED BY <1>1, <1>2 DEF NoneHiddenInv

\* Every step keeps it.
LEMMA NoneHiddenStep == NoneHiddenInv /\ [Inbox!Next]_(Inbox!vars) => NoneHiddenInv'
<1> SUFFICES ASSUME NoneHiddenInv, [Inbox!Next]_(Inbox!vars) PROVE NoneHiddenInv'
  OBVIOUS
<1>0. InboxInvInbox /\ InboxInvInbox'
  BY InboxStepInbox DEF NoneHiddenInv
<1>a. MaxConversations \in Nat
  BY Bounds DEF Inbox!InboxAssumption
<1>b. /\ inboxRow \in [Inbox!MessageIds -> IncomingRows] /\
        inboxConversation \in [1 .. MaxConversations -> ThreadRows]
      /\ inboxReader \in ReaderRows
      /\ \A c \in 1 .. MaxConversations : inboxConversation[c].unread \in Nat
  BY <1>0 DEF InboxInvInbox, InboxShapeInbox, ThreadRows
<1>c. \A c \in 1 .. MaxConversations : IsFiniteSet(Waiting(c)) /\ Cardinality(Waiting(c)) \in Nat
  <2> SUFFICES ASSUME NEW c \in 1 .. MaxConversations
        PROVE IsFiniteSet(Waiting(c)) /\ Cardinality(Waiting(c)) \in Nat
    OBVIOUS
  <2>1. Waiting(c) \in SUBSET SavedMessages
    BY <1>a DEF Waiting, SavedMessages, Inbox!Saved
  <2>2. IsFiniteSet(Waiting(c))
    BY <2>1, FS_Subset DEF NoneHiddenInv
  <2> QED BY <2>2, FS_CardinalityType
<1>1. ASSUME NEW w \in Requests, Inbox!Commits(w) PROVE NoneHiddenInv'
  <2>1. PICK c \in 1 .. MaxConversations, old \in ThreadRows, m \in Inbox!MessageIds :
           JoinsInbox(w, c, old, m)
    BY <1>0, <1>1, InboxChosenInbox
  <2> USE DEF JoinsInbox
  <2>2. inboxRow[m].conversation = 0
    BY <2>1 DEF Inbox!Saved
  <2>3. SavedMessages' = SavedMessages \cup {m}
    BY <1>a, <1>b, <2>1 DEF SavedMessages, Inbox!Saved
  <2>4. IsFiniteSet(SavedMessages')
    BY <2>3, FS_AddElement DEF NoneHiddenInv
  <2>5. Waiting(c)' = Waiting(c) \cup {m} /\ m \notin Waiting(c)
    BY <1>a, <1>b, <2>1, <2>2 DEF Waiting
  <2>6. Cardinality(Waiting(c)') = Cardinality(Waiting(c)) + 1
    BY <1>c, <2>5, FS_AddElement
  <2>7. \A d \in 1 .. MaxConversations : d # c => Waiting(d)' = Waiting(d) /\
          inboxConversation'[d] = inboxConversation[d]
    BY <1>a, <1>b, <2>1, <2>2 DEF Waiting
  <2>8. inboxReader.conversation # c => inboxConversation'[c].unread >= Cardinality(Waiting(c)')
    <3>1. inboxConversation'[c].unread = old.unread + 1 /\ old.unread \in Nat
      BY <1>b, <2>1 DEF Inbox!Counted, ThreadRows
    <3>2. inboxReader.conversation # c => old.unread >= Cardinality(Waiting(c))
      <4>1. CASE inboxConversation[c].status = "NONE"
        <5>1. Waiting(c) = {}
          BY <1>0, <4>1 DEF Waiting, InboxInvInbox, InboxJobsInbox
        <5>2. Cardinality(Waiting(c)) = 0
          BY <5>1, FS_EmptySet
        <5> QED BY <3>1, <5>2
      <4>2. CASE inboxConversation[c].status # "NONE"
        BY <2>1, <4>2 DEF NoneHiddenInv
      <4> QED BY <4>1, <4>2
    <3> QED BY <1>c, <2>6, <3>1, <3>2
  <2>9. \A d \in 1 .. MaxConversations : inboxReader'.conversation # d =>
          inboxConversation'[d].unread >= Cardinality(Waiting(d)')
    <3> SUFFICES ASSUME NEW d \in 1 .. MaxConversations, inboxReader'.conversation # d
                 PROVE  inboxConversation'[d].unread >= Cardinality(Waiting(d)')
      OBVIOUS
    <3>1. inboxReader' = inboxReader
      BY <2>1
    <3>2. CASE d = c
      BY <2>8, <3>1, <3>2
    <3>3. CASE d # c
      BY <2>7, <3>1, <3>3 DEF NoneHiddenInv
    <3> QED BY <3>2, <3>3
  <2> QED BY <1>0, <2>4, <2>9 DEF NoneHiddenInv
<1>2. ASSUME NEW c \in 1 .. MaxConversations, Inbox!Opens(c) PROVE NoneHiddenInv'
  <2>1. inboxConversation' = [inboxConversation EXCEPT ![c].unread = 0] /\ inboxRow' = inboxRow /\
          inboxReader'.conversation = c
        /\ inboxReader = Inbox!NoReader
    BY <1>2 DEF Inbox!Opens, Inbox!Writes, Inbox!Write
  <2>2. SavedMessages' = SavedMessages /\ \A d \in 1 .. MaxConversations : Waiting(d)' = Waiting(d)
    BY <2>1 DEF SavedMessages, Inbox!Saved, Waiting
  <2>3. \A d \in 1 .. MaxConversations : d # c => inboxConversation'[d] = inboxConversation[d] /\
          inboxReader.conversation # d
    BY <1>a, <1>b, <2>1 DEF Inbox!NoReader
  <2> QED BY <1>0, <2>1, <2>2, <2>3 DEF NoneHiddenInv
<1>3. ASSUME Inbox!Opened PROVE NoneHiddenInv'
  <2>0. PICK c \in 0 .. MaxConversations : c = inboxReader.conversation
    BY <1>b DEF ReaderRows
  <2>1. /\ inboxRow' = [m \in Inbox!MessageIds |->
            IF inboxRow[m].conversation = c THEN [inboxRow[m] EXCEPT !.read = TRUE] ELSE inboxRow[m]]
        /\ inboxConversation' = inboxConversation /\ c # 0
    BY <1>3, <2>0 DEF Inbox!Opened, Inbox!Writes, Inbox!Write
  <2>2. \A m \in Inbox!MessageIds : /\ inboxRow'[m].conversation = inboxRow[m].conversation
                                    /\ inboxRow[m].conversation = c => inboxRow'[m].read
                                    /\ inboxRow[m].conversation # c => inboxRow'[m] = inboxRow[m]
    BY <1>b, <2>1 DEF IncomingRows
  <2>3. SavedMessages' = SavedMessages
    BY <2>2 DEF SavedMessages, Inbox!Saved
  <2>4. Waiting(c)' = {} /\ \A d \in 1 .. MaxConversations : d # c => Waiting(d)' = Waiting(d)
    BY <2>2 DEF Waiting
  <2>5. Cardinality({}) = 0
    BY FS_EmptySet
  <2>6. \A d \in 1 .. MaxConversations : inboxConversation'[d].unread >= Cardinality(Waiting(d)')
    <3> SUFFICES ASSUME NEW d \in 1 .. MaxConversations
          PROVE inboxConversation'[d].unread >= Cardinality(Waiting(d)')
      OBVIOUS
    <3>1. CASE d = c
      <4>1. Waiting(d)' = {}
        BY <2>4, <3>1
      <4> QED BY <1>b, <2>1, <2>5, <4>1
    <3>2. CASE d # c
      BY <2>0, <2>1, <2>4, <3>2 DEF NoneHiddenInv
    <3> QED BY <3>1, <3>2
  <2> QED BY <1>0, <2>3, <2>6 DEF NoneHiddenInv
<1>4. ASSUME NEW c \in 1 .. MaxConversations,
             \/ \E status \in {"OPEN", "CLOSED"} : Inbox!SetsStatus(c, status)
             \/ \E mode \in {"AI", "HUMAN"} : Inbox!SetsMode(c, mode)
      PROVE  NoneHiddenInv'
  <2>1. UNCHANGED <<inboxRow, inboxReader>>
    BY <1>4 DEF Inbox!SetsStatus, Inbox!SetsMode
  <2>3. \A d \in 1 .. MaxConversations : inboxConversation'[d].unread = inboxConversation[d].unread
    <3>0. inboxConversation[c] \in ThreadRows
      BY <1>b
    <3>1. ASSUME NEW status \in {"OPEN", "CLOSED"}, Inbox!SetsStatus(c, status)
          PROVE  \A d \in 1 .. MaxConversations : inboxConversation'[d].unread = inboxConversation[d].unread
      <4>1. inboxConversation' = [inboxConversation EXCEPT ![c].status = status]
        BY <3>1 DEF Inbox!SetsStatus
      <4> QED BY <1>b, <3>0, <4>1 DEF ThreadRows
    <3>2. ASSUME NEW mode \in {"AI", "HUMAN"}, Inbox!SetsMode(c, mode)
          PROVE  \A d \in 1 .. MaxConversations : inboxConversation'[d].unread = inboxConversation[d].unread
      <4>1. inboxConversation' = [inboxConversation EXCEPT ![c].mode = mode]
        BY <3>2 DEF Inbox!SetsMode
      <4> QED BY <1>b, <3>0, <4>1 DEF ThreadRows
    <3> QED BY <1>4, <3>1, <3>2
  <2>2. SavedMessages' = SavedMessages /\ \A d \in 1 .. MaxConversations : Waiting(d)' = Waiting(d)
    BY <2>1 DEF SavedMessages, Inbox!Saved, Waiting
  <2> QED BY <1>0, <2>1, <2>2, <2>3 DEF NoneHiddenInv
<1>5. ASSUME UNCHANGED <<inboxConversation, inboxRow, inboxReader>> PROVE NoneHiddenInv'
  BY <1>0, <1>5, NoneHiddenKept DEF NoneHiddenInv
<1>6. ASSUME NEW w \in Requests, \/ Inbox!Begins(w) \/ Inbox!FindsDuplicate(w) \/ Inbox!Conflicts(w)
                                 \/ Inbox!Finishes(w) \/ Inbox!Answers(w) \/ Inbox!Fails(w)
                                 \/ \E b \in Batched : Inbox!Arrives(w, b)
      PROVE  UNCHANGED <<inboxConversation, inboxRow, inboxReader>>
  BY <1>6 DEF Inbox!Begins, Inbox!FindsDuplicate, Inbox!Conflicts, Inbox!Finishes, Inbox!Answers, Inbox!Fails,
      Inbox!Arrives
<1>7. ASSUME \E b \in Batched : Inbox!ArrivesAgain(b) PROVE UNCHANGED <<inboxConversation, inboxRow, inboxReader>>
  BY <1>7 DEF Inbox!ArrivesAgain
<1>8. ASSUME UNCHANGED Inbox!vars PROVE UNCHANGED <<inboxConversation, inboxRow, inboxReader>>
  BY <1>8 DEF Inbox!vars
<1> QED BY <1>1, <1>2, <1>3, <1>4, <1>5, <1>6, <1>7, <1>8 DEF Inbox!Next, Inbox!Conversations

------------------------------------------------------------------------------
(***************************************************************************)
(* The delivery of a message.                                              *)
(***************************************************************************)

MessageRows == [status : Delivery!Statuses \cup {"NONE"}, claimed : BOOLEAN,
                external : BOOLEAN, retryOf : 0 .. MaxMessages]
SenderRows == [pc : {"idle", "claim", "call", "sent", "failed"}, message : 0 .. MaxMessages]
WebhookRows == [message : 0 .. MaxMessages, read : Delivery!Statuses \cup {"NONE"},
                next : Delivery!Statuses \cup {"NONE"}]
\* The types, row by row.
DeliveryShape ==
  /\ message \in [Delivery!Messages -> MessageRows]
  /\ sender \in [Requests -> SenderRows]
  /\ webhook \in [Webhooks -> WebhookRows]
  /\ taken \in [Delivery!Messages -> Nat]
  /\ reported \in [Delivery!Messages -> SUBSET (Delivery!Statuses \ {"PENDING"})]

\* A request that has the claim of its message and has not recorded the answer.
Holding == {s \in Requests : sender[s].pc \in {"call", "sent", "failed"}}
\* Why the provider is given a message once: the claim is of one request, which has not
\* called yet or will not call again; what nobody claimed was given to nobody.
DeliveryInv ==
  /\ DeliveryShape
  /\ \A m \in Delivery!Messages :
       /\ taken[m] <= 1
       /\ message[m].status = "NONE" => ~message[m].claimed
       /\ ~message[m].claimed => taken[m] = 0 /\ ~message[m].external
       /\ message[m].external => message[m].status \notin {"NONE", "PENDING"}
  /\ \A s \in Requests :
       /\ sender[s].pc # "idle" => sender[s].message # 0
                                   /\ message[sender[s].message].status # "NONE"
       /\ sender[s].pc = "call" => taken[sender[s].message] = 0
  /\ \A s \in Holding : LET m == sender[s].message IN
       /\ message[m].claimed /\ ~message[m].external /\ message[m].status = "PENDING"
       /\ \A other \in Holding : sender[other].message = m => other = s
  \* Of the provider's identifier: a status is applied to what was recorded as sent.
  /\ \A w \in Webhooks : webhook[w].message # 0 =>
       /\ message[webhook[w].message].external
       /\ webhook[w].read \notin {"NONE", "PENDING"}
       /\ webhook[w].next \notin {"NONE", "PENDING"}
       /\ Delivery!Onwards(webhook[w].read, webhook[w].next)

\* Nothing was sent at the start.
LEMMA DeliveryInit == Delivery!Init => DeliveryInv
BY Bounds DEF Delivery!Init, Delivery!DeliveryAssumption, DeliveryInv, DeliveryShape, MessageRows,
   SenderRows, WebhookRows, Holding, Delivery!NoMessage, Delivery!Free, Delivery!NoStatus,
   Delivery!Messages, Delivery!Statuses

\* The row a new message takes is free.
LEMMA NewMessageFree ==
  ASSUME Delivery!HasRoom
  PROVE  Delivery!NewMessage \in Delivery!Messages /\ message[Delivery!NewMessage].status = "NONE"
<1> DEFINE S == {m \in Delivery!Messages : message[m].status = "NONE"}
<1>1. S \subseteq Nat /\ S # {}
  BY DEF Delivery!HasRoom, Delivery!Messages
<1>2. PICK m \in S : \A j \in S : m <= j
  <2> HIDE DEF S
  <2> QED BY <1>1, Smallest
<1>3. ASSUME NEW n \in 1 .. m - 1 PROVE message[n].status # "NONE"
  <2>1. n \in Delivery!Messages /\ n < m /\ m \in Nat
    BY Bounds, <1>1 DEF Delivery!Messages, Delivery!DeliveryAssumption
  <2> QED BY <1>2, <2>1
<1> QED BY <1>2, <1>3 DEF Delivery!NewMessage

\* A new row, for the request that saved it.
LEMMA DeliveryReserves ==
  ASSUME DeliveryInv, NEW s \in Requests, NEW of \in 0 .. MaxMessages, Delivery!HasRoom,
         sender[s].pc = "idle",
         message' = [message EXCEPT ![Delivery!NewMessage] = Delivery!Reserved(of)],
         sender' = [sender EXCEPT ![s] = [pc |-> "claim", message |-> Delivery!NewMessage]],
         UNCHANGED <<webhook, taken, reported>>
  PROVE  DeliveryInv' /\ Delivery!NeverBackStep
<1> DEFINE fresh == Delivery!NewMessage
           r == Delivery!Reserved(of)
<1>1. fresh \in Delivery!Messages /\ message[fresh].status = "NONE"
  BY NewMessageFree
<1>2. r \in MessageRows /\ r.status = "PENDING" /\ ~r.claimed /\ ~r.external
  BY DEF Delivery!Reserved, MessageRows, Delivery!Statuses
<1>3. [pc |-> "claim", message |-> fresh] \in SenderRows /\ fresh # 0
  BY <1>1 DEF SenderRows, Delivery!Messages
<1> HIDE DEF fresh, r
<1>4. message' = [message EXCEPT ![fresh] = r]
      /\ sender' = [sender EXCEPT ![s] = [pc |-> "claim", message |-> fresh]]
  BY DEF fresh, r
<1>5. DeliveryShape'
  BY <1>1, <1>2, <1>3, <1>4 DEF DeliveryInv, DeliveryShape
<1>6. /\ message \in [Delivery!Messages -> MessageRows] /\ sender \in [Requests -> SenderRows]
  BY DEF DeliveryInv, DeliveryShape
<1>7. Holding' = Holding /\ s \notin Holding /\ \A o \in Holding : sender'[o] = sender[o] /\
        sender[o].message # fresh
  BY <1>1, <1>4, <1>6 DEF Holding, DeliveryInv
<1>8. \A w \in Webhooks : webhook[w].message # 0 => webhook[w].message # fresh
  BY <1>1 DEF DeliveryInv
<1>9. \A m \in Delivery!Messages : m # fresh => message'[m] = message[m]
  BY <1>4, <1>6
<1>10. message'[fresh] = r /\ ~message[fresh].claimed
  BY <1>1, <1>4, <1>6 DEF DeliveryInv
<1>m. \A o \in Requests : sender[o].message \in 0 .. MaxMessages
  BY <1>6 DEF SenderRows
<1>w. \A w \in Webhooks : webhook[w].message \in 0 .. MaxMessages
  BY DEF DeliveryInv, DeliveryShape, WebhookRows
<1>n. Delivery!Messages = 1 .. MaxMessages /\ MaxMessages \in Nat
  BY Bounds DEF Delivery!Messages, Delivery!DeliveryAssumption
<1>11. (\A m \in Delivery!Messages :
       /\ taken[m] <= 1
       /\ message[m].status = "NONE" => ~message[m].claimed
       /\ ~message[m].claimed => taken[m] = 0 /\ ~message[m].external
       /\ message[m].external => message[m].status \notin {"NONE", "PENDING"})'
  BY <1>2, <1>9, <1>10 DEF DeliveryInv
<1>12. (\A o \in Requests :
       /\ sender[o].pc # "idle" => sender[o].message # 0
                                   /\ message[sender[o].message].status # "NONE"
       /\ sender[o].pc = "call" => taken[sender[o].message] = 0)'
  BY <1>2, <1>3, <1>4, <1>6, <1>9, <1>10, <1>m, <1>n DEF DeliveryInv
<1>13. (\A o \in Holding : LET m == sender[o].message IN
       /\ message[m].claimed /\ ~message[m].external /\ message[m].status = "PENDING"
       /\ \A other \in Holding : sender[other].message = m => other = o)'
  <2>1. \A o \in Holding : sender[o].message \in Delivery!Messages
    BY <1>m, <1>n DEF DeliveryInv, Holding
  <2> QED BY <1>7, <1>9, <2>1 DEF DeliveryInv
<1>14. (\A w \in Webhooks : webhook[w].message # 0 =>
       /\ message[webhook[w].message].external
       /\ webhook[w].read \notin {"NONE", "PENDING"}
       /\ webhook[w].next \notin {"NONE", "PENDING"}
       /\ Delivery!Onwards(webhook[w].read, webhook[w].next))'
  BY <1>8, <1>9, <1>w, <1>n DEF DeliveryInv
<1>15. Delivery!NeverBackStep
  <2>1. \A x \in MessageRows : Delivery!Onwards(x.status, x.status)
    BY DEF Delivery!Onwards, Delivery!Rank, MessageRows, Delivery!Statuses
  <2>2. Delivery!Onwards("NONE", "PENDING")
    BY DEF Delivery!Onwards, Delivery!Rank
  <2> QED BY <1>1, <1>2, <1>6, <1>9, <1>10, <2>1, <2>2 DEF Delivery!NeverBackStep
<1> QED BY <1>5, <1>11, <1>12, <1>13, <1>14, <1>15 DEF DeliveryInv

\* A request that goes on, or ends, while the rows stay: what a request holds it goes on holding.
LEMMA DeliveryMoves ==
  ASSUME DeliveryInv, NEW s \in Requests, NEW f \in SenderRows,
         sender' = [sender EXCEPT ![s] = f],
         UNCHANGED <<message, webhook, taken>>,
         reported' \in [Delivery!Messages -> SUBSET (Delivery!Statuses \ {"PENDING"})],
         \/ f = Delivery!Free
         \/ /\ f.pc \in {"sent", "failed"} /\ s \in Holding /\ f.message = sender[s].message
         \/ /\ f.pc = "claim" /\ s \notin Holding
            /\ f.message \in Delivery!Messages /\ message[f.message].status # "NONE"
  PROVE  DeliveryInv'
<1>1. /\ message \in [Delivery!Messages -> MessageRows] /\ sender \in [Requests -> SenderRows]
      /\ sender' \in [Requests -> SenderRows] /\ DeliveryShape'
  BY DEF DeliveryInv, DeliveryShape
<1>n. Delivery!Messages = 1 .. MaxMessages /\ MaxMessages \in Nat
  BY Bounds DEF Delivery!Messages, Delivery!DeliveryAssumption
<1>2. /\ sender'[s] = f /\ \A o \in Requests : o # s => sender'[o] = sender[o]
  BY <1>1
<1>3. \A o \in Holding' : o \in Holding /\ sender'[o].message = sender[o].message
  BY <1>2 DEF Holding, Delivery!Free
<1>4. \A o \in Requests : sender'[o].pc # "idle" => sender'[o].message # 0
                             /\ message[sender'[o].message].status # "NONE"
  BY <1>2, <1>n DEF DeliveryInv, Holding, Delivery!Free
<1>5. \A o \in Requests : sender'[o].pc = "call" => taken[sender'[o].message] = 0
  BY <1>2 DEF DeliveryInv, Delivery!Free
<1> QED BY <1>1, <1>3, <1>4, <1>5 DEF DeliveryInv

\* A request takes the claim of its message, which nobody had.
LEMMA DeliveryClaims ==
  ASSUME DeliveryInv, NEW s \in Requests, Delivery!Claims(s), Delivery!Claimable(sender[s].message)
  PROVE  DeliveryInv' /\ Delivery!NeverBackStep
<1> DEFINE m == sender[s].message
<1>1. /\ message \in [Delivery!Messages -> MessageRows] /\ sender \in [Requests -> SenderRows]
  BY DEF DeliveryInv, DeliveryShape
<1>n. Delivery!Messages = 1 .. MaxMessages /\ MaxMessages \in Nat
  BY Bounds DEF Delivery!Messages, Delivery!DeliveryAssumption
<1>2. /\ m \in Delivery!Messages /\ message[m].status = "PENDING" /\ ~message[m].claimed
      /\ s \notin Holding /\ sender[s].pc = "claim"
      /\ message' = [message EXCEPT ![m].claimed = TRUE]
      /\ sender' = [sender EXCEPT ![s].pc = "call"]
      /\ UNCHANGED <<webhook, taken, reported>>
  BY <1>1, <1>n DEF Delivery!Claims, Delivery!Claimable, DeliveryInv, SenderRows, Holding
<1> HIDE DEF m
<1>3. message' \in [Delivery!Messages -> MessageRows] /\ sender' \in [Requests -> SenderRows]
  <2>1. [message[m] EXCEPT !.claimed = TRUE] \in MessageRows
    BY <1>1, <1>2 DEF MessageRows
  <2>2. [sender[s] EXCEPT !.pc = "call"] \in SenderRows
    BY <1>1 DEF SenderRows
  <2> QED BY <1>1, <1>2, <2>1, <2>2
<1>4. DeliveryShape'
  BY <1>2, <1>3 DEF DeliveryInv, DeliveryShape
<1>5. /\ sender'[s].pc = "call" /\ sender'[s].message = m
      /\ \A o \in Requests : o # s => sender'[o] = sender[o]
      /\ message'[m].claimed /\ message'[m].status = "PENDING" /\ message'[m].external = message[m].external
      /\ \A k \in Delivery!Messages : k # m => message'[k] = message[k]
      /\ \A k \in Delivery!Messages : message'[k].status = message[k].status
  BY <1>1, <1>2 DEF m, SenderRows, MessageRows
<1>6. Holding' = Holding \cup {s} /\ \A o \in Holding : o # s /\ sender[o].message # m
  BY <1>2, <1>5 DEF Holding, DeliveryInv
<1>7. taken[m] = 0 /\ ~message[m].external
  BY <1>2 DEF DeliveryInv
<1>i. /\ \A o \in Requests : sender[o].message \in 0 .. MaxMessages
      /\ \A w \in Webhooks : webhook[w].message \in 0 .. MaxMessages
  BY <1>1 DEF DeliveryInv, DeliveryShape, SenderRows, WebhookRows
<1>11. (\A k \in Delivery!Messages :
       /\ taken[k] <= 1
       /\ message[k].status = "NONE" => ~message[k].claimed
       /\ ~message[k].claimed => taken[k] = 0 /\ ~message[k].external
       /\ message[k].external => message[k].status \notin {"NONE", "PENDING"})'
  BY <1>2, <1>5, <1>7 DEF DeliveryInv
<1>12. (\A o \in Requests :
       /\ sender[o].pc # "idle" => sender[o].message # 0
                                   /\ message[sender[o].message].status # "NONE"
       /\ sender[o].pc = "call" => taken[sender[o].message] = 0)'
  BY <1>2, <1>5, <1>7, <1>i, <1>n DEF DeliveryInv
<1>13. (\A o \in Holding : LET k == sender[o].message IN
       /\ message[k].claimed /\ ~message[k].external /\ message[k].status = "PENDING"
       /\ \A other \in Holding : sender[other].message = k => other = o)'
  <2>1. \A o \in Holding : sender[o].message \in Delivery!Messages /\ o \in Requests
    BY <1>i, <1>n DEF DeliveryInv, Holding
  <2> QED BY <1>5, <1>6, <1>7, <2>1 DEF DeliveryInv
<1>14. (\A w \in Webhooks : webhook[w].message # 0 =>
       /\ message[webhook[w].message].external
       /\ webhook[w].read \notin {"NONE", "PENDING"}
       /\ webhook[w].next \notin {"NONE", "PENDING"}
       /\ Delivery!Onwards(webhook[w].read, webhook[w].next))'
  BY <1>2, <1>5, <1>7, <1>i, <1>n DEF DeliveryInv
<1>15. Delivery!NeverBackStep
  <2>1. \A x \in MessageRows : Delivery!Onwards(x.status, x.status)
    BY DEF Delivery!Onwards, Delivery!Rank, MessageRows, Delivery!Statuses
  <2> QED BY <1>1, <1>5, <2>1 DEF Delivery!NeverBackStep
<1> QED BY <1>4, <1>11, <1>12, <1>13, <1>14, <1>15 DEF DeliveryInv

\* The row of one message gets a new status and, perhaps, its identifier, from the request
\* that holds it or from nobody.
LEMMA DeliveryWrites ==
  ASSUME DeliveryInv, NEW m \in Delivery!Messages, NEW r \in MessageRows,
         message' = [message EXCEPT ![m] = r], r.claimed = message[m].claimed,
         r.status \notin {"NONE", "PENDING"}, message[m].status # "NONE",
         message[m].claimed, message[m].external => r.external,
         sender' \in [Requests -> SenderRows], webhook' \in [Webhooks -> WebhookRows],
         \A o \in Requests : sender'[o] \in {sender[o], Delivery!Free},
         \A o \in Holding : sender[o].message = m => sender'[o] = Delivery!Free,
         \A w \in Webhooks : webhook'[w] \in {webhook[w], Delivery!NoStatus},
         UNCHANGED <<taken, reported>>
  PROVE  DeliveryInv'
<1>1. /\ message \in [Delivery!Messages -> MessageRows] /\ sender \in [Requests -> SenderRows]
  BY DEF DeliveryInv, DeliveryShape
<1>n. Delivery!Messages = 1 .. MaxMessages /\ MaxMessages \in Nat
  BY Bounds DEF Delivery!Messages, Delivery!DeliveryAssumption
<1>4. DeliveryShape'
  BY <1>1 DEF DeliveryInv, DeliveryShape
<1>5. /\ message'[m] = r
      /\ \A k \in Delivery!Messages : k # m => message'[k] = message[k]
  BY <1>1
<1>6. \A o \in Holding' : o \in Holding /\ sender'[o] = sender[o] /\ sender[o].message # m
  BY DEF Holding, Delivery!Free
<1>i. /\ \A o \in Requests : sender[o].message \in 0 .. MaxMessages
      /\ \A w \in Webhooks : webhook[w].message \in 0 .. MaxMessages
  BY <1>1 DEF DeliveryInv, DeliveryShape, SenderRows, WebhookRows
<1>11. (\A k \in Delivery!Messages :
       /\ taken[k] <= 1
       /\ message[k].status = "NONE" => ~message[k].claimed
       /\ ~message[k].claimed => taken[k] = 0 /\ ~message[k].external
       /\ message[k].external => message[k].status \notin {"NONE", "PENDING"})'
  <2>1. taken' = taken /\ \A k \in Delivery!Messages :
         /\ taken[k] <= 1
         /\ message[k].status = "NONE" => ~message[k].claimed
         /\ ~message[k].claimed => taken[k] = 0 /\ ~message[k].external
         /\ message[k].external => message[k].status \notin {"NONE", "PENDING"}
    BY DEF DeliveryInv
  <2>2. ASSUME NEW k \in Delivery!Messages
        PROVE  (/\ taken[k] <= 1
                /\ message[k].status = "NONE" => ~message[k].claimed
                /\ ~message[k].claimed => taken[k] = 0 /\ ~message[k].external
                /\ message[k].external => message[k].status \notin {"NONE", "PENDING"})'
    <3>1. CASE k = m
      BY <1>5, <2>1, <3>1
    <3>2. CASE k # m
      BY <1>5, <2>1, <3>2
    <3> QED BY <3>1, <3>2
  <2> QED BY <2>2 DEF Delivery!Messages
<1>12. (\A o \in Requests :
       /\ sender[o].pc # "idle" => sender[o].message # 0
                                   /\ message[sender[o].message].status # "NONE"
       /\ sender[o].pc = "call" => taken[sender[o].message] = 0)'
  BY <1>5, <1>i, <1>n DEF DeliveryInv, Delivery!Free
<1>13. (\A o \in Holding : LET k == sender[o].message IN
       /\ message[k].claimed /\ ~message[k].external /\ message[k].status = "PENDING"
       /\ \A other \in Holding : sender[other].message = k => other = o)'
  <2>1. \A o \in Holding : sender[o].message \in Delivery!Messages /\ o \in Requests
    BY <1>i, <1>n DEF DeliveryInv, Holding
  <2> QED BY <1>5, <1>6, <2>1 DEF DeliveryInv
<1>14. (\A w \in Webhooks : webhook[w].message # 0 =>
       /\ message[webhook[w].message].external
       /\ webhook[w].read \notin {"NONE", "PENDING"}
       /\ webhook[w].next \notin {"NONE", "PENDING"}
       /\ Delivery!Onwards(webhook[w].read, webhook[w].next))'
  <2>1. \A w \in Webhooks : webhook[w].message # 0 => webhook[w].message \in Delivery!Messages
    BY <1>i, <1>n
  <2> QED BY <1>5, <2>1 DEF DeliveryInv, Delivery!NoStatus
<1> QED BY <1>4, <1>11, <1>12, <1>13, <1>14 DEF DeliveryInv

\* The one request that holds a message calls the provider, which takes it.
LEMMA DeliveryTakes ==
  ASSUME DeliveryInv, NEW s \in Requests, sender[s].pc = "call",
         NEW pc1 \in {"sent", "failed"}, sender' = [sender EXCEPT ![s].pc = pc1],
         taken' = [taken EXCEPT ![sender[s].message] = @ + 1],
         reported' = [reported EXCEPT ![sender[s].message] = @ \cup {"SENT"}],
         UNCHANGED <<message, webhook>>
  PROVE  DeliveryInv'
<1> DEFINE m == sender[s].message
<1>1. /\ message \in [Delivery!Messages -> MessageRows] /\ sender \in [Requests -> SenderRows]
      /\ taken \in [Delivery!Messages -> Nat]
      /\ reported \in [Delivery!Messages -> SUBSET (Delivery!Statuses \ {"PENDING"})]
  BY DEF DeliveryInv, DeliveryShape
<1>n. Delivery!Messages = 1 .. MaxMessages /\ MaxMessages \in Nat
  BY Bounds DEF Delivery!Messages, Delivery!DeliveryAssumption
<1>2. /\ m \in Delivery!Messages /\ s \in Holding /\ taken[m] = 0 /\ message[m].claimed
  BY <1>1, <1>n DEF DeliveryInv, SenderRows, Holding
<1> HIDE DEF m
<1>3. sender' \in [Requests -> SenderRows]
  BY <1>1 DEF SenderRows
<1>4. taken' \in [Delivery!Messages -> Nat] /\ taken'[m] = 1
      /\ \A k \in Delivery!Messages : k # m => taken'[k] = taken[k]
  BY <1>1, <1>2 DEF m
<1>5. reported' \in [Delivery!Messages -> SUBSET (Delivery!Statuses \ {"PENDING"})]
  BY <1>1, <1>2 DEF m, Delivery!Statuses
<1>6. DeliveryShape'
  BY <1>3, <1>4, <1>5 DEF DeliveryInv, DeliveryShape
<1>7. /\ sender'[s].pc = pc1 /\ sender'[s].message = m
      /\ \A o \in Requests : o # s => sender'[o] = sender[o]
  BY <1>1 DEF m, SenderRows
<1>8. Holding' = Holding /\ \A o \in Holding : o # s => sender[o].message # m
  BY <1>2, <1>7 DEF Holding, DeliveryInv, m
<1>9. \A o \in Requests : sender'[o].message = sender[o].message
  BY <1>7 DEF m
<1>i. \A o \in Requests : sender[o].message \in 0 .. MaxMessages
  BY <1>1 DEF SenderRows
<1>12. \A o \in Requests :
       /\ sender'[o].pc # "idle" => sender'[o].message # 0
                                   /\ message[sender'[o].message].status # "NONE"
       /\ sender'[o].pc = "call" => taken'[sender'[o].message] = 0
  <2> SUFFICES ASSUME NEW o \in Requests
               PROVE /\ sender'[o].pc # "idle" => sender'[o].message # 0
                                                  /\ message[sender'[o].message].status # "NONE"
                     /\ sender'[o].pc = "call" => taken'[sender'[o].message] = 0
    OBVIOUS
  <2>1. CASE o = s
    BY <1>7, <2>1 DEF DeliveryInv, m
  <2>2. CASE o # s
    <3>1. sender'[o] = sender[o]
      BY <1>7, <2>2
    <3>2. sender[o].pc = "call" => o \in Holding /\ sender[o].message \in Delivery!Messages
      BY <1>i, <1>n DEF DeliveryInv, Holding
    <3> QED BY <1>4, <1>8, <2>2, <3>1, <3>2 DEF DeliveryInv
  <2> QED BY <2>1, <2>2
<1>13. \A k \in Delivery!Messages : taken'[k] <= 1 /\ (~message[k].claimed => taken'[k] = 0)
  BY <1>2, <1>4 DEF DeliveryInv
<1> QED BY <1>6, <1>8, <1>9, <1>12, <1>13 DEF DeliveryInv

\* A status read for what the row says is one that the row may get.
LEMMA NextIsOnwards ==
  ASSUME NEW current \in Delivery!Statuses \ {"PENDING"}, NEW incoming \in Delivery!Statuses \ {"PENDING"}
  PROVE  /\ Delivery!NextStatus(current, incoming) \in Delivery!Statuses \ {"PENDING"}
         /\ Delivery!Onwards(current, Delivery!NextStatus(current, incoming))
BY DEF Delivery!NextStatus, Delivery!Onwards, Delivery!Rank, Delivery!Statuses

\* Every step keeps it, and takes no status back.
LEMMA DeliveryStep ==
  DeliveryInv /\ [Delivery!Next]_(Delivery!vars) => DeliveryInv' /\ Delivery!NeverBackStep
<1> SUFFICES ASSUME DeliveryInv, [Delivery!Next]_(Delivery!vars)
             PROVE  DeliveryInv' /\ Delivery!NeverBackStep
  OBVIOUS
<1>1. /\ message \in [Delivery!Messages -> MessageRows] /\ sender \in [Requests -> SenderRows]
      /\ webhook \in [Webhooks -> WebhookRows]
      /\ reported \in [Delivery!Messages -> SUBSET (Delivery!Statuses \ {"PENDING"})]
  BY DEF DeliveryInv, DeliveryShape
<1>n. Delivery!Messages = 1 .. MaxMessages /\ MaxMessages \in Nat
  BY Bounds DEF Delivery!Messages, Delivery!DeliveryAssumption
<1>i. /\ \A o \in Requests : sender[o].message \in 0 .. MaxMessages
      /\ \A w \in Webhooks : webhook[w].message \in 0 .. MaxMessages
  BY <1>1 DEF SenderRows, WebhookRows
<1>s. \A x \in MessageRows : Delivery!Onwards(x.status, x.status)
  BY DEF Delivery!Onwards, Delivery!Rank, MessageRows, Delivery!Statuses
<1>k. UNCHANGED message => Delivery!NeverBackStep
  BY <1>1, <1>s DEF Delivery!NeverBackStep
<1>f. Delivery!Free \in SenderRows /\ Delivery!NoStatus \in WebhookRows
  BY <1>n DEF Delivery!Free, Delivery!NoStatus, SenderRows, WebhookRows
<1>w. ASSUME NEW m \in Delivery!Messages, NEW r \in MessageRows,
             message' = [message EXCEPT ![m] = r], Delivery!Onwards(message[m].status, r.status)
      PROVE  Delivery!NeverBackStep
  BY <1>w, <1>1, <1>s DEF Delivery!NeverBackStep
<1>2. ASSUME NEW s \in Requests, Delivery!Sends(s) PROVE DeliveryInv' /\ Delivery!NeverBackStep
  <2>1. 0 \in 0 .. MaxMessages
    BY <1>n
  <2> QED BY <1>2, <2>1, DeliveryReserves DEF Delivery!Sends
<1>3. ASSUME NEW s \in Requests, NEW m \in Delivery!Messages, Delivery!Retries(s, m)
      PROVE DeliveryInv' /\ Delivery!NeverBackStep
  <2>1. m \in 0 .. MaxMessages
    BY <1>n
  <2> QED BY <1>3, <2>1, DeliveryReserves DEF Delivery!Retries
<1>4. ASSUME NEW s \in Requests, NEW m \in Delivery!Messages, Delivery!Prepares(s, m)
      PROVE DeliveryInv' /\ Delivery!NeverBackStep
  <2>1. [pc |-> "claim", message |-> m] \in SenderRows /\ s \notin Holding
    BY <1>n, <1>4 DEF Delivery!Prepares, SenderRows, Holding
  <2> QED BY <1>1, <1>4, <1>k, <2>1, DeliveryMoves DEF Delivery!Prepares
<1>5. ASSUME NEW s \in Requests, Delivery!Claims(s) PROVE DeliveryInv' /\ Delivery!NeverBackStep
  <2>1. CASE Delivery!Claimable(sender[s].message)
    BY <1>5, <2>1, DeliveryClaims
  <2>2. CASE ~Delivery!Claimable(sender[s].message)
    BY <1>1, <1>5, <1>f, <1>k, <2>2, DeliveryMoves DEF Delivery!Claims
  <2> QED BY <2>1, <2>2
<1>6. ASSUME NEW s \in Requests, Delivery!Calls(s) PROVE DeliveryInv' /\ Delivery!NeverBackStep
  <2>1. PICK took \in BOOLEAN, p1 \in {"sent", "failed"} :
          /\ sender' = [sender EXCEPT ![s].pc = p1]
          /\ taken' = Delivery!Given(sender[s].message, took)
          /\ reported' = IF took THEN [reported EXCEPT ![sender[s].message] = @ \cup {"SENT"}] ELSE reported
    BY <1>6 DEF Delivery!Calls
  <2>2. UNCHANGED <<message, webhook>> /\ sender[s].pc = "call"
    BY <1>6 DEF Delivery!Calls
  <2>3. CASE took
    BY <1>k, <2>1, <2>2, <2>3, DeliveryTakes DEF Delivery!Given
  <2>4. CASE ~took
    <3> DEFINE f == [sender[s] EXCEPT !.pc = p1]
    <3>1. f \in SenderRows /\ f.pc = p1 /\ f.message = sender[s].message
      BY <1>1 DEF SenderRows
    <3>2. sender' = [sender EXCEPT ![s] = f] /\ s \in Holding
      BY <2>1, <2>2 DEF Holding
    <3>3. UNCHANGED <<message, webhook, taken, reported>>
      BY <2>1, <2>2, <2>4 DEF Delivery!Given
    <3> HIDE DEF f
    <3> QED BY <1>1, <1>k, <3>1, <3>2, <3>3, DeliveryMoves
  <2> QED BY <2>3, <2>4
<1>7. ASSUME NEW s \in Requests, Delivery!Records(s) PROVE DeliveryInv' /\ Delivery!NeverBackStep
  <2> DEFINE m == sender[s].message
             r == IF sender[s].pc = "sent" THEN [message[m] EXCEPT !.status = "SENT", !.external = TRUE]
                  ELSE [message[m] EXCEPT !.status = "FAILED"]
  <2>1. s \in Holding /\ m \in Delivery!Messages /\ message[m].claimed /\ message[m].status = "PENDING"
    BY <1>7, <1>i, <1>n DEF Delivery!Records, Holding, DeliveryInv
  <2>2. r \in MessageRows /\ r.claimed = message[m].claimed /\ r.status \in {"SENT", "FAILED"}
        /\ (message[m].external => r.external)
    <3> DEFINE x == message[m]
    <3>1. x \in MessageRows
      BY <1>1, <2>1
    <3>2. r = [x EXCEPT !.status = "SENT", !.external = TRUE] \/ r = [x EXCEPT !.status = "FAILED"]
      OBVIOUS
    <3> HIDE DEF r, x
    <3>3. r \in MessageRows /\ r.claimed = x.claimed /\ r.status \in {"SENT", "FAILED"}
          /\ (x.external => r.external)
      BY <3>1, <3>2 DEF MessageRows, Delivery!Statuses
    <3> QED BY <3>3 DEF x
  <2>3. message' = [message EXCEPT ![m] = r] /\ sender' = [sender EXCEPT ![s] = Delivery!Free]
        /\ UNCHANGED <<webhook, taken, reported>>
    BY <1>7, <2>1 DEF Delivery!Records
  <2>4. \A o \in Holding : sender[o].message = m => o = s
    BY <2>1 DEF DeliveryInv
  <2>5. \A o \in Requests : sender'[o] \in {sender[o], Delivery!Free}
    BY <1>1, <2>3
  <2>6. sender'[s] = Delivery!Free /\ sender' \in [Requests -> SenderRows]
    BY <1>1, <1>f, <2>3
  <2>7. Delivery!Onwards(message[m].status, r.status)
    BY <2>1, <2>2 DEF Delivery!Onwards, Delivery!Rank
  <2> HIDE DEF r, m
  <2>8. \A o \in Holding : sender[o].message = m => sender'[o] = Delivery!Free
    BY <2>4, <2>6
  <2>9. webhook' \in [Webhooks -> WebhookRows] /\ \A w \in Webhooks : webhook'[w] \in {webhook[w],
          Delivery!NoStatus}
    BY <1>1, <2>3
  <2>10. r.status \notin {"NONE", "PENDING"} /\ message[m].status # "NONE"
    BY <2>1, <2>2
  <2>11. DeliveryInv'
    BY <2>1, <2>2, <2>3, <2>5, <2>6, <2>8, <2>9, <2>10, DeliveryWrites
  <2> QED BY <1>w, <2>1, <2>2, <2>3, <2>7, <2>11
<1>8. ASSUME NEW s \in Requests, Delivery!SenderStops(s) PROVE DeliveryInv' /\ Delivery!NeverBackStep
  BY <1>1, <1>8, <1>f, <1>k, DeliveryMoves DEF Delivery!SenderStops
<1>9. ASSUME NEW m \in Delivery!Messages, Delivery!Reports(m) PROVE DeliveryInv' /\ Delivery!NeverBackStep
  <2>1. reported' \in [Delivery!Messages -> SUBSET (Delivery!Statuses \ {"PENDING"})]
        /\ UNCHANGED <<message, sender, webhook, taken>>
    BY <1>1, <1>9 DEF Delivery!Reports, Delivery!Statuses
  <2> QED BY <1>k, <2>1 DEF DeliveryInv, DeliveryShape, Holding
<1>10. ASSUME NEW w \in Webhooks, Delivery!WritesStatus(w) PROVE DeliveryInv' /\ Delivery!NeverBackStep
  <2> DEFINE m == webhook[w].message
             r == [message[m] EXCEPT !.status = webhook[w].next]
  <2>1. /\ m \in Delivery!Messages /\ message[m].external /\ webhook[w].next \notin {"NONE", "PENDING"}
        /\ webhook[w].next \in Delivery!Statuses
        /\ Delivery!Onwards(webhook[w].read, webhook[w].next)
        /\ webhook' = [webhook EXCEPT ![w] = Delivery!NoStatus]
        /\ UNCHANGED <<sender, taken, reported>>
    BY <1>1, <1>10, <1>i, <1>n DEF Delivery!WritesStatus, DeliveryInv, WebhookRows
  <2>2. /\ webhook' \in [Webhooks -> WebhookRows]
        /\ \A v \in Webhooks : webhook'[v] \in {webhook[v], Delivery!NoStatus}
    BY <1>1, <1>f, <2>1
  <2>3. CASE Delivery!Unchanged(w)
    <3>1. message' = [message EXCEPT ![m] = r] /\ Delivery!Onwards(message[m].status, r.status)
          /\ r \in MessageRows /\ r.claimed = message[m].claimed /\ r.external = message[m].external
          /\ r.status = webhook[w].next
      BY <1>1, <1>10, <2>1, <2>3 DEF Delivery!WritesStatus, Delivery!Unchanged, MessageRows
    <3>2. message[m].claimed /\ message[m].status # "NONE" /\ \A o \in Holding : sender[o].message # m
      BY <2>1 DEF DeliveryInv
    <3> HIDE DEF r, m
    <3>3. DeliveryInv'
      BY <1>1, <2>1, <2>2, <3>1, <3>2, DeliveryWrites
    <3> QED BY <1>w, <2>1, <3>1, <3>3
  <2>4. CASE ~Delivery!Unchanged(w)
    <3>1. UNCHANGED <<message, sender, taken, reported>>
      BY <1>10, <2>4 DEF Delivery!WritesStatus
    <3> QED BY <1>k, <2>2, <3>1 DEF DeliveryInv, DeliveryShape, Holding, Delivery!NoStatus
  <2> QED BY <2>3, <2>4
<1>11. ASSUME NEW w \in Webhooks, NEW m \in Delivery!Messages, NEW x \in Delivery!Statuses \ {"PENDING"},
              Delivery!ReadsStatus(w, m, x)
       PROVE DeliveryInv' /\ Delivery!NeverBackStep
  <2> DEFINE to == Delivery!NextStatus(message[m].status, x)
             v == [message |-> m, read |-> message[m].status, next |-> to]
  <2>1. message[m].external /\ webhook' = [webhook EXCEPT ![w] = v] /\
          UNCHANGED <<message, sender, taken, reported>>
    BY <1>11 DEF Delivery!ReadsStatus, Delivery!Finds, Delivery!Travels
  <2>2. message[m].status \in Delivery!Statuses \ {"PENDING"}
    BY <1>1, <2>1 DEF DeliveryInv, MessageRows
  <2>3. to \in Delivery!Statuses \ {"PENDING"} /\ Delivery!Onwards(message[m].status, to)
    BY <2>2, NextIsOnwards
  <2> HIDE DEF to
  <2>4. v \in WebhookRows /\ to \notin {"NONE", "PENDING"} /\ message[m].status \notin {"NONE", "PENDING"}
    BY <1>n, <2>2, <2>3 DEF WebhookRows, Delivery!Statuses
  <2>5. webhook' \in [Webhooks -> WebhookRows] /\ webhook'[w] = v
        /\ \A o \in Webhooks : o # w => webhook'[o] = webhook[o]
    BY <1>1, <2>1, <2>4
  <2>6. \A o \in Webhooks : webhook'[o].message # 0 =>
             /\ message[webhook'[o].message].external
             /\ webhook'[o].read \notin {"NONE", "PENDING"}
             /\ webhook'[o].next \notin {"NONE", "PENDING"}
             /\ Delivery!Onwards(webhook'[o].read, webhook'[o].next)
    BY <2>1, <2>3, <2>4, <2>5 DEF DeliveryInv
  <2> QED BY <1>k, <2>1, <2>5, <2>6 DEF DeliveryInv, DeliveryShape, Holding
<1>12. UNCHANGED Delivery!vars => DeliveryInv' /\ Delivery!NeverBackStep
  BY <1>k DEF Delivery!vars, DeliveryInv, DeliveryShape, Holding
<1> QED BY <1>2, <1>3, <1>4, <1>5, <1>6, <1>7, <1>8, <1>9, <1>10, <1>11, <1>12 DEF Delivery!Next

\* What it means for the messages: each is in the hands of the provider once at most.
LEMMA DeliveryHolds == DeliveryInv => Delivery!TypeOK /\ Delivery!GivenOnce
BY DEF DeliveryInv, DeliveryShape, Delivery!TypeOK, Delivery!GivenOnce, MessageRows, SenderRows, WebhookRows

------------------------------------------------------------------------------
(***************************************************************************)
(* The turns of the assistant in a conversation.                           *)
(***************************************************************************)

TurnRowsAnswers == [pc : {"new", "quota", "model", "refund", "attention", "check", "send", "replied", "silent"},
              period : 0 .. TurnMonths, refunded : BOOLEAN, derived : BOOLEAN, taken : BOOLEAN]
\* The types, row by row.
ShapeAnswers ==
  /\ turnConversation \in [status : {"OPEN", "PENDING", "CLOSED"}, mode : {"AI", "HUMAN"}]
  /\ usage \in [1 .. TurnMonths -> Nat] /\ month \in 1 .. TurnMonths
  /\ turnActions \in 0 .. TurnSteps
  /\ turn \in [Answers!Turns -> TurnRowsAnswers]

\* The types hold at the start.
LEMMA StartShapeAnswers == Answers!Init => ShapeAnswers
BY Bounds DEF Answers!Init, Answers!TurnAssumption, ShapeAnswers, TurnRowsAnswers

\* A turn that goes on changes its place only.
LEMMA TurnGoesAnswers ==
  ASSUME ShapeAnswers, NEW t \in Answers!Turns,
         NEW p \in {"new", "quota", "model", "refund", "attention", "check", "send", "replied", "silent"},
         Answers!Goes(t, p)
  PROVE  /\ turn' \in [Answers!Turns -> TurnRowsAnswers]
         /\ turn'[t] = [turn[t] EXCEPT !.pc = p]
         /\ \A u \in Answers!Turns : u # t => turn'[u] = turn[u]
BY DEF Answers!Goes, ShapeAnswers, TurnRowsAnswers

\* A step is that of a turn that goes on, of a turn that counts or gives back its unit, of the
\* conversation, or of the month.
LEMMA TurnShapeAnswers ==
  ASSUME ShapeAnswers, Answers!Next PROVE ShapeAnswers'
<1>a. /\ TurnMonths \in Nat \ {0} /\ TurnSteps \in Nat
      /\ turnConversation \in [status : {"OPEN", "PENDING", "CLOSED"}, mode : {"AI", "HUMAN"}]
      /\ usage \in [1 .. TurnMonths -> Nat] /\ month \in 1 .. TurnMonths
      /\ turnActions \in 0 .. TurnSteps /\ turn \in [Answers!Turns -> TurnRowsAnswers]
  BY Bounds DEF Answers!TurnAssumption, ShapeAnswers
<1>1. ASSUME NEW t \in Answers!Turns, Answers!Gates(t) \/ Answers!Runs(t) \/ Answers!Checks(t) \/
        Answers!Sends(t) \/ Answers!Stops(t)
      PROVE  ShapeAnswers'
  <2>1. PICK p \in {"new", "quota", "model", "refund", "attention", "check", "send", "replied",
          "silent"} : Answers!Goes(t, p)
    BY <1>1 DEF Answers!Gates, Answers!Runs, Answers!Checks, Answers!Sends, Answers!Stops, Answers!Unanswered,
        Answers!Fails, Answers!Answers
  <2>2. UNCHANGED <<turnConversation, usage, month, turnActions>>
    BY <1>1 DEF Answers!Gates, Answers!Runs, Answers!Checks, Answers!Sends, Answers!Stops
  <2> QED BY <2>1, <2>2, TurnGoesAnswers DEF ShapeAnswers
<1>2. ASSUME NEW t \in Answers!Turns, Answers!NeedsAttention(t) PROVE ShapeAnswers'
  <2>1. turnConversation' \in [status : {"OPEN", "PENDING", "CLOSED"}, mode : {"AI", "HUMAN"}]
    BY <1>a, <1>2 DEF Answers!NeedsAttention, Answers!Attended
  <2>2. Answers!Goes(t, "silent") /\ UNCHANGED <<usage, month, turnActions>>
    BY <1>2 DEF Answers!NeedsAttention
  <2> QED BY <2>1, <2>2, TurnGoesAnswers DEF ShapeAnswers
<1>3. ASSUME NEW t \in Answers!Turns, Answers!Consumes(t) PROVE ShapeAnswers'
  <2>1. CASE Answers!Below
    <3>1. turn' \in [Answers!Turns -> TurnRowsAnswers]
      <4>1. turn' = [turn EXCEPT ![t].pc = "model", ![t].period = month]
        BY <1>3, <2>1 DEF Answers!Consumes
      <4>2. month \in 0 .. TurnMonths
        BY <1>a
      <4> DEFINE x == [turn[t] EXCEPT !.pc = "model", !.period = month]
      <4>3. x \in TurnRowsAnswers
        <5>1. ASSUME NEW y \in TurnRowsAnswers, NEW k \in 0 .. TurnMonths
              PROVE  [y EXCEPT !.pc = "model", !.period = k] \in TurnRowsAnswers
          BY DEF TurnRowsAnswers
        <5> QED BY <1>a, <4>2, <5>1
      <4>4. turn' = [turn EXCEPT ![t] = x]
        BY <1>a, <4>1
      <4> HIDE DEF x
      <4> QED BY <1>a, <4>3, <4>4
    <3>2. usage' \in [1 .. TurnMonths -> Nat] /\ UNCHANGED <<turnConversation, month, turnActions>>
      BY <1>a, <1>3, <2>1 DEF Answers!Consumes
    <3> QED BY <1>a, <3>1, <3>2 DEF ShapeAnswers
  <2>2. CASE ~Answers!Below
    <3>1. Answers!Goes(t, Answers!Unanswered(t)) /\ UNCHANGED <<turnConversation, usage, month, turnActions>>
      BY <1>3, <2>2 DEF Answers!Consumes, Answers!Denied
    <3>2. Answers!Unanswered(t) \in {"attention", "silent"}
      BY DEF Answers!Unanswered
    <3> QED BY <3>1, <3>2, TurnGoesAnswers DEF ShapeAnswers
  <2> QED BY <2>1, <2>2
<1>4. ASSUME NEW t \in Answers!Turns, Answers!Refunds(t) PROVE ShapeAnswers'
  <2>1. turn' \in [Answers!Turns -> TurnRowsAnswers]
    <3>1. Answers!Unanswered(t) \in {"attention", "silent"}
      BY DEF Answers!Unanswered
    <3>2. turn' = [turn EXCEPT ![t].pc = Answers!Unanswered(t), ![t].refunded = TRUE]
      BY <1>4 DEF Answers!Refunds
    <3> DEFINE x == [turn[t] EXCEPT !.pc = Answers!Unanswered(t), !.refunded = TRUE]
    <3>3. x \in TurnRowsAnswers
      <4>1. ASSUME NEW y \in TurnRowsAnswers, NEW p \in {"attention", "silent"}
            PROVE  [y EXCEPT !.pc = p, !.refunded = TRUE] \in TurnRowsAnswers
        BY DEF TurnRowsAnswers
      <4> QED BY <1>a, <3>1, <4>1
    <3>4. turn' = [turn EXCEPT ![t] = x]
      BY <1>a, <3>2
    <3> HIDE DEF x
    <3> QED BY <1>a, <3>3, <3>4
  <2>2. usage' \in [1 .. TurnMonths -> Nat] /\ UNCHANGED <<turnConversation, month, turnActions>>
    BY <1>a, <1>4 DEF Answers!Refunds
  <2> QED BY <1>a, <2>1, <2>2 DEF ShapeAnswers
<1>m. turnConversation' = [turnConversation EXCEPT !.mode = "HUMAN"] \/
        turnConversation' = [turnConversation EXCEPT !.mode = "AI"]
        => turnConversation' \in [status : {"OPEN", "PENDING", "CLOSED"}, mode : {"AI", "HUMAN"}]
  BY <1>a
<1>t. \A u \in Answers!Turns, b \in BOOLEAN :
        [turn[u] EXCEPT !.derived = b] \in TurnRowsAnswers /\ [turn[u] EXCEPT !.taken = b] \in TurnRowsAnswers
  BY <1>a DEF TurnRowsAnswers
<1>w. \A u \in Answers!Turns :
        [turn[u] EXCEPT !.taken = turn[u].taken \/ turn[u].pc \in {"quota", "model"}] \in TurnRowsAnswers
  <2> TAKE u \in Answers!Turns
  <2>1. (turn[u].taken \/ turn[u].pc \in {"quota", "model"}) \in BOOLEAN
    OBVIOUS
  <2> QED BY <1>t, <2>1
<1>5. ASSUME NEW t \in Answers!Turns, Answers!Derives(t) PROVE ShapeAnswers'
  <2>1. turn' \in [Answers!Turns -> TurnRowsAnswers]
    BY <1>t, <1>w, <1>5 DEF Answers!Derives
  <2> QED BY <1>a, <1>m, <1>5, <2>1 DEF Answers!Derives, ShapeAnswers
<1>6. CASE Answers!Takes
  <2>1. turn' \in [Answers!Turns -> TurnRowsAnswers]
    BY <1>w, <1>6 DEF Answers!Takes
  <2>2. turnActions' \in 0 .. TurnSteps
    BY <1>a, <1>6 DEF Answers!Takes, Answers!Acts
  <2> QED BY <1>a, <1>m, <1>6, <2>1, <2>2 DEF Answers!Takes, ShapeAnswers
<1>7. CASE Answers!Returns
  <2>1. turn' \in [Answers!Turns -> TurnRowsAnswers]
    BY <1>t, <1>7 DEF Answers!Returns
  <2>2. turnActions' \in 0 .. TurnSteps
    BY <1>a, <1>7 DEF Answers!Returns, Answers!Acts
  <2> QED BY <1>a, <1>m, <1>7, <2>1, <2>2 DEF Answers!Returns, ShapeAnswers
<1>8. ASSUME NEW status \in {"OPEN", "PENDING", "CLOSED"}, Answers!SetsStatus(status) PROVE ShapeAnswers'
  <2>1. turnConversation' \in [status : {"OPEN", "PENDING", "CLOSED"}, mode : {"AI", "HUMAN"}]
    BY <1>a, <1>8 DEF Answers!SetsStatus
  <2>2. turnActions' \in 0 .. TurnSteps /\ UNCHANGED <<usage, month, turn>>
    BY <1>a, <1>8 DEF Answers!SetsStatus, Answers!Acts
  <2> QED BY <1>a, <2>1, <2>2 DEF ShapeAnswers
<1>9. CASE Answers!MonthEnds
  BY <1>a, <1>9 DEF Answers!MonthEnds, ShapeAnswers
<1> QED BY <1>1, <1>2, <1>3, <1>4, <1>5, <1>6, <1>7, <1>8, <1>9 DEF Answers!Next

\* Why nobody is talked over: what the team took no turn has checked; a turn that passed the
\* check was not taken, or had derived the conversation itself.
NotTaken ==
  /\ turnConversation.mode = "AI" => \A t \in Answers!Turns : ~turn[t].taken
  /\ \A t \in Answers!Turns : t \in Requests /\ turn[t].pc = "send" => turn[t].derived \/ ~turn[t].taken
AnswersInv == ShapeAnswers /\ NotTaken

\* No turn has begun at the start.
LEMMA AnswersInit == Answers!Init => AnswersInv
BY StartShapeAnswers DEF Answers!Init, AnswersInv, NotTaken

\* Every step keeps it, and a turn that is replied was not taken from it.
LEMMA AnswersStep ==
  AnswersInv /\ [Answers!Next]_(Answers!vars) => AnswersInv' /\ Answers!NotTalkedOverStep
<1> SUFFICES ASSUME AnswersInv, [Answers!Next]_(Answers!vars)
             PROVE  AnswersInv' /\ Answers!NotTalkedOverStep
  OBVIOUS
<1>a. /\ ShapeAnswers /\ turn \in [Answers!Turns -> TurnRowsAnswers]
      /\ turnConversation \in [status : {"OPEN", "PENDING", "CLOSED"}, mode : {"AI", "HUMAN"}]
      /\ Requests \subseteq Answers!Turns
  BY DEF AnswersInv, ShapeAnswers, Answers!Turns
<1>s. ShapeAnswers'
  BY TurnShapeAnswers DEF AnswersInv, Answers!vars, ShapeAnswers
<1>1. ASSUME NEW t \in Answers!Turns, Answers!Gates(t) \/ Answers!Runs(t) \/ Answers!Checks(t) \/
        Answers!Sends(t) \/ Answers!Stops(t)
      PROVE  NotTaken' /\ Answers!NotTalkedOverStep
  <2>1. PICK p \in {"new", "quota", "model", "refund", "attention", "check", "send", "replied", "silent"} :
          /\ Answers!Goes(t, p)
          /\ p = "send" => t \notin Requests \/ (turn[t].pc = "check" /\ Answers!StillMine(t))
          /\ p = "replied" => turn[t].pc = "send"
    BY <1>1 DEF Answers!Gates, Answers!Runs, Answers!Checks, Answers!Sends, Answers!Stops,
       Answers!Unanswered, Answers!Fails, Answers!Answers
  <2>2. UNCHANGED turnConversation
    BY <1>1 DEF Answers!Gates, Answers!Runs, Answers!Checks, Answers!Sends, Answers!Stops
  <2>3. /\ turn'[t] = [turn[t] EXCEPT !.pc = p]
        /\ \A u \in Answers!Turns : u # t => turn'[u] = turn[u]
    BY <1>a, <2>1, TurnGoesAnswers
  <2>4. turn'[t].pc = p /\ turn'[t].derived = turn[t].derived /\ turn'[t].taken = turn[t].taken
    BY <1>a, <2>3 DEF TurnRowsAnswers
  <2>5. \A u \in Answers!Turns : turn'[u].taken = turn[u].taken
    BY <2>3, <2>4
  <2>6. t \in Requests /\ p = "send" => turn[t].derived \/ ~turn[t].taken
    BY <2>1 DEF Answers!StillMine, AnswersInv, NotTaken
  <2>7. NotTaken'
    BY <2>2, <2>3, <2>4, <2>5, <2>6 DEF AnswersInv, NotTaken
  <2>8. Answers!NotTalkedOverStep
    BY <1>a, <2>1, <2>3, <2>4 DEF AnswersInv, NotTaken, Answers!NotTalkedOverStep
  <2> QED BY <2>7, <2>8
<1>2. ASSUME NEW t \in Answers!Turns, Answers!NeedsAttention(t) PROVE NotTaken' /\ Answers!NotTalkedOverStep
  <2>1. Answers!Goes(t, "silent") /\ turnConversation'.mode = turnConversation.mode
    BY <1>a, <1>2 DEF Answers!NeedsAttention, Answers!Attended
  <2>2. /\ turn'[t] = [turn[t] EXCEPT !.pc = "silent"]
        /\ \A u \in Answers!Turns : u # t => turn'[u] = turn[u]
    BY <1>a, <2>1, TurnGoesAnswers
  <2>3. turn'[t].pc = "silent" /\ turn'[t].taken = turn[t].taken
    BY <1>a, <2>2 DEF TurnRowsAnswers
  <2> QED BY <1>a, <2>1, <2>2, <2>3 DEF AnswersInv, NotTaken, Answers!NotTalkedOverStep
<1>3. ASSUME NEW t \in Answers!Turns, Answers!Consumes(t) \/ Answers!Refunds(t)
        PROVE NotTaken' /\ Answers!NotTalkedOverStep
  <2>1. /\ turn'[t].pc \notin {"send", "replied"} /\ turn'[t].taken = turn[t].taken
        /\ \A u \in Answers!Turns : u # t => turn'[u] = turn[u]
    BY <1>a, <1>3 DEF Answers!Consumes, Answers!Refunds, Answers!Denied, Answers!Unanswered,
       Answers!Goes, TurnRowsAnswers
  <2>2. UNCHANGED turnConversation
    BY <1>3 DEF Answers!Consumes, Answers!Refunds
  <2> QED BY <1>a, <2>1, <2>2 DEF AnswersInv, NotTaken, Answers!NotTalkedOverStep
<1>4. ASSUME Answers!Takes \/ \E t \in Answers!Turns : Answers!Derives(t)
        PROVE NotTaken' /\ Answers!NotTalkedOverStep
  <2>1. turnConversation'.mode = "HUMAN"
    BY <1>a, <1>4 DEF Answers!Takes, Answers!Derives
  <2>2. \A u \in Answers!Turns : turn'[u].pc = turn[u].pc /\ (turn[u].pc = "send" =>
              turn'[u].taken = turn[u].taken /\ (turn[u].derived => turn'[u].derived))
    BY <1>a, <1>4 DEF Answers!Takes, Answers!Derives, TurnRowsAnswers
  <2> QED BY <1>a, <2>1, <2>2 DEF AnswersInv, NotTaken, Answers!NotTalkedOverStep
<1>5. ASSUME Answers!Returns PROVE NotTaken' /\ Answers!NotTalkedOverStep
  <2>1. \A u \in Answers!Turns : turn'[u].pc = turn[u].pc /\ ~turn'[u].taken
    BY <1>a, <1>5 DEF Answers!Returns, TurnRowsAnswers
  <2> QED BY <1>a, <2>1 DEF AnswersInv, NotTaken, Answers!NotTalkedOverStep
<1>6. ASSUME NEW status \in {"OPEN", "PENDING", "CLOSED"}, Answers!SetsStatus(status)
        PROVE NotTaken' /\ Answers!NotTalkedOverStep
  <2>1. turnConversation'.mode = turnConversation.mode /\ UNCHANGED turn
    BY <1>a, <1>6 DEF Answers!SetsStatus
  <2> QED BY <1>a, <2>1 DEF AnswersInv, NotTaken, Answers!NotTalkedOverStep
<1>7. ASSUME Answers!MonthEnds \/ UNCHANGED Answers!vars PROVE NotTaken' /\ Answers!NotTalkedOverStep
  <2>1. UNCHANGED <<turnConversation, turn>>
    BY <1>7 DEF Answers!MonthEnds, Answers!vars
  <2> QED BY <1>a, <2>1 DEF AnswersInv, NotTaken, Answers!NotTalkedOverStep
<1> QED BY <1>s, <1>1, <1>2, <1>3, <1>4, <1>5, <1>6, <1>7 DEF Answers!Next, AnswersInv

\* The types of the turns.
LEMMA AnswersHold == AnswersInv => Answers!TypeOK
BY DEF AnswersInv, ShapeAnswers, TurnRowsAnswers, Answers!TypeOK

TurnRowsQuota == [pc : {"new", "quota", "model", "refund", "attention", "check", "send", "replied", "silent"},
              period : 0 .. 1, refunded : BOOLEAN, derived : BOOLEAN, taken : BOOLEAN]
\* The types, row by row.
ShapeQuota ==
  /\ turnConversation \in [status : {"OPEN", "PENDING", "CLOSED"}, mode : {"AI", "HUMAN"}]
  /\ usage \in [1 .. 1 -> Nat] /\ month \in 1 .. 1
  /\ turnActions \in 0 .. QuotaSteps
  /\ turn \in [Quota!Turns -> TurnRowsQuota]

\* The types hold at the start.
LEMMA StartShapeQuota == Quota!Init => ShapeQuota
BY Bounds DEF Quota!Init, Quota!TurnAssumption, ShapeQuota, TurnRowsQuota

\* A turn that goes on changes its place only.
LEMMA TurnGoesQuota ==
  ASSUME ShapeQuota, NEW t \in Quota!Turns,
         NEW p \in {"new", "quota", "model", "refund", "attention", "check", "send", "replied", "silent"},
         Quota!Goes(t, p)
  PROVE  /\ turn' \in [Quota!Turns -> TurnRowsQuota]
         /\ turn'[t] = [turn[t] EXCEPT !.pc = p]
         /\ \A u \in Quota!Turns : u # t => turn'[u] = turn[u]
BY DEF Quota!Goes, ShapeQuota, TurnRowsQuota

\* A step is that of a turn that goes on, of a turn that counts or gives back its unit, of the
\* conversation, or of the month.
LEMMA TurnShapeQuota ==
  ASSUME ShapeQuota, Quota!Next PROVE ShapeQuota'
<1>a. /\ 1 \in Nat \ {0} /\ QuotaSteps \in Nat
      /\ turnConversation \in [status : {"OPEN", "PENDING", "CLOSED"}, mode : {"AI", "HUMAN"}]
      /\ usage \in [1 .. 1 -> Nat] /\ month \in 1 .. 1
      /\ turnActions \in 0 .. QuotaSteps /\ turn \in [Quota!Turns -> TurnRowsQuota]
  BY Bounds DEF Quota!TurnAssumption, ShapeQuota
<1>1. ASSUME NEW t \in Quota!Turns, Quota!Gates(t) \/ Quota!Runs(t) \/ Quota!Checks(t) \/ Quota!Sends(t) \/
        Quota!Stops(t)
      PROVE  ShapeQuota'
  <2>1. PICK p \in {"new", "quota", "model", "refund", "attention", "check", "send", "replied",
          "silent"} : Quota!Goes(t, p)
    BY <1>1 DEF Quota!Gates, Quota!Runs, Quota!Checks, Quota!Sends, Quota!Stops, Quota!Unanswered, Quota!Fails,
        Quota!Answers
  <2>2. UNCHANGED <<turnConversation, usage, month, turnActions>>
    BY <1>1 DEF Quota!Gates, Quota!Runs, Quota!Checks, Quota!Sends, Quota!Stops
  <2> QED BY <2>1, <2>2, TurnGoesQuota DEF ShapeQuota
<1>2. ASSUME NEW t \in Quota!Turns, Quota!NeedsAttention(t) PROVE ShapeQuota'
  <2>1. turnConversation' \in [status : {"OPEN", "PENDING", "CLOSED"}, mode : {"AI", "HUMAN"}]
    BY <1>a, <1>2 DEF Quota!NeedsAttention, Quota!Attended
  <2>2. Quota!Goes(t, "silent") /\ UNCHANGED <<usage, month, turnActions>>
    BY <1>2 DEF Quota!NeedsAttention
  <2> QED BY <2>1, <2>2, TurnGoesQuota DEF ShapeQuota
<1>3. ASSUME NEW t \in Quota!Turns, Quota!Consumes(t) PROVE ShapeQuota'
  <2>1. CASE Quota!Below
    <3>1. turn' \in [Quota!Turns -> TurnRowsQuota]
      <4>1. turn' = [turn EXCEPT ![t].pc = "model", ![t].period = month]
        BY <1>3, <2>1 DEF Quota!Consumes
      <4>2. month \in 0 .. 1
        BY <1>a
      <4> DEFINE x == [turn[t] EXCEPT !.pc = "model", !.period = month]
      <4>3. x \in TurnRowsQuota
        <5>1. ASSUME NEW y \in TurnRowsQuota, NEW k \in 0 .. 1
              PROVE  [y EXCEPT !.pc = "model", !.period = k] \in TurnRowsQuota
          BY DEF TurnRowsQuota
        <5> QED BY <1>a, <4>2, <5>1
      <4>4. turn' = [turn EXCEPT ![t] = x]
        BY <1>a, <4>1
      <4> HIDE DEF x
      <4> QED BY <1>a, <4>3, <4>4
    <3>2. usage' \in [1 .. 1 -> Nat] /\ UNCHANGED <<turnConversation, month, turnActions>>
      BY <1>a, <1>3, <2>1 DEF Quota!Consumes
    <3> QED BY <1>a, <3>1, <3>2 DEF ShapeQuota
  <2>2. CASE ~Quota!Below
    <3>1. Quota!Goes(t, Quota!Unanswered(t)) /\ UNCHANGED <<turnConversation, usage, month, turnActions>>
      BY <1>3, <2>2 DEF Quota!Consumes, Quota!Denied
    <3>2. Quota!Unanswered(t) \in {"attention", "silent"}
      BY DEF Quota!Unanswered
    <3> QED BY <3>1, <3>2, TurnGoesQuota DEF ShapeQuota
  <2> QED BY <2>1, <2>2
<1>4. ASSUME NEW t \in Quota!Turns, Quota!Refunds(t) PROVE ShapeQuota'
  <2>1. turn' \in [Quota!Turns -> TurnRowsQuota]
    <3>1. Quota!Unanswered(t) \in {"attention", "silent"}
      BY DEF Quota!Unanswered
    <3>2. turn' = [turn EXCEPT ![t].pc = Quota!Unanswered(t), ![t].refunded = TRUE]
      BY <1>4 DEF Quota!Refunds
    <3> DEFINE x == [turn[t] EXCEPT !.pc = Quota!Unanswered(t), !.refunded = TRUE]
    <3>3. x \in TurnRowsQuota
      <4>1. ASSUME NEW y \in TurnRowsQuota, NEW p \in {"attention", "silent"}
            PROVE  [y EXCEPT !.pc = p, !.refunded = TRUE] \in TurnRowsQuota
        BY DEF TurnRowsQuota
      <4> QED BY <1>a, <3>1, <4>1
    <3>4. turn' = [turn EXCEPT ![t] = x]
      BY <1>a, <3>2
    <3> HIDE DEF x
    <3> QED BY <1>a, <3>3, <3>4
  <2>2. usage' \in [1 .. 1 -> Nat] /\ UNCHANGED <<turnConversation, month, turnActions>>
    BY <1>a, <1>4 DEF Quota!Refunds
  <2> QED BY <1>a, <2>1, <2>2 DEF ShapeQuota
<1>m. turnConversation' = [turnConversation EXCEPT !.mode = "HUMAN"] \/
        turnConversation' = [turnConversation EXCEPT !.mode = "AI"]
        => turnConversation' \in [status : {"OPEN", "PENDING", "CLOSED"}, mode : {"AI", "HUMAN"}]
  BY <1>a
<1>t. \A u \in Quota!Turns, b \in BOOLEAN :
        [turn[u] EXCEPT !.derived = b] \in TurnRowsQuota /\ [turn[u] EXCEPT !.taken = b] \in TurnRowsQuota
  BY <1>a DEF TurnRowsQuota
<1>w. \A u \in Quota!Turns :
        [turn[u] EXCEPT !.taken = turn[u].taken \/ turn[u].pc \in {"quota", "model"}] \in TurnRowsQuota
  <2> TAKE u \in Quota!Turns
  <2>1. (turn[u].taken \/ turn[u].pc \in {"quota", "model"}) \in BOOLEAN
    OBVIOUS
  <2> QED BY <1>t, <2>1
<1>5. ASSUME NEW t \in Quota!Turns, Quota!Derives(t) PROVE ShapeQuota'
  <2>1. turn' \in [Quota!Turns -> TurnRowsQuota]
    BY <1>t, <1>w, <1>5 DEF Quota!Derives
  <2> QED BY <1>a, <1>m, <1>5, <2>1 DEF Quota!Derives, ShapeQuota
<1>6. CASE Quota!Takes
  <2>1. turn' \in [Quota!Turns -> TurnRowsQuota]
    BY <1>w, <1>6 DEF Quota!Takes
  <2>2. turnActions' \in 0 .. QuotaSteps
    BY <1>a, <1>6 DEF Quota!Takes, Quota!Acts
  <2> QED BY <1>a, <1>m, <1>6, <2>1, <2>2 DEF Quota!Takes, ShapeQuota
<1>7. CASE Quota!Returns
  <2>1. turn' \in [Quota!Turns -> TurnRowsQuota]
    BY <1>t, <1>7 DEF Quota!Returns
  <2>2. turnActions' \in 0 .. QuotaSteps
    BY <1>a, <1>7 DEF Quota!Returns, Quota!Acts
  <2> QED BY <1>a, <1>m, <1>7, <2>1, <2>2 DEF Quota!Returns, ShapeQuota
<1>8. ASSUME NEW status \in {"OPEN", "PENDING", "CLOSED"}, Quota!SetsStatus(status) PROVE ShapeQuota'
  <2>1. turnConversation' \in [status : {"OPEN", "PENDING", "CLOSED"}, mode : {"AI", "HUMAN"}]
    BY <1>a, <1>8 DEF Quota!SetsStatus
  <2>2. turnActions' \in 0 .. QuotaSteps /\ UNCHANGED <<usage, month, turn>>
    BY <1>a, <1>8 DEF Quota!SetsStatus, Quota!Acts
  <2> QED BY <1>a, <2>1, <2>2 DEF ShapeQuota
<1>9. CASE Quota!MonthEnds
  BY <1>a, <1>9 DEF Quota!MonthEnds, ShapeQuota
<1> QED BY <1>1, <1>2, <1>3, <1>4, <1>5, <1>6, <1>7, <1>8, <1>9 DEF Quota!Next

\* The turns the month let run, less those that gave their unit back.
Counted == {t \in Quota!Turns : turn[t].period = 1 /\ ~turn[t].refunded}
\* Why the counter never passes the plan, nor counts what failed: it counts these turns, and a
\* turn that runs is one of them.
CounterTrue ==
  /\ IsFiniteSet(Counted) /\ usage[1] = Cardinality(Counted) /\ usage[1] <= PlanAnswers
  /\ \A t \in Quota!Turns :
       /\ turn[t].pc \in {"new", "quota"} => turn[t].period = 0 /\ ~turn[t].refunded
       /\ turn[t].pc \in {"model", "refund", "check", "send", "replied"} => turn[t].period = 1 /\ ~turn[t].refunded
QuotaInv == ShapeQuota /\ CounterTrue

\* Nothing is counted at the start.
LEMMA QuotaInit == Quota!Init => QuotaInv
<1> SUFFICES ASSUME Quota!Init PROVE QuotaInv
  OBVIOUS
<1>1. Counted = {}
  BY DEF Quota!Init, Counted
<1>2. usage[1] = 0 /\ 0 <= PlanAnswers
  BY Bounds DEF Quota!Init, Quota!TurnAssumption
<1>3. IsFiniteSet(Counted) /\ Cardinality(Counted) = 0
  BY <1>1, FS_EmptySet
<1> QED BY <1>2, <1>3, StartShapeQuota DEF Quota!Init, QuotaInv, CounterTrue

\* Steps that count nothing: what a turn consumed and gave back stays.
LEMMA QuotaIdle ==
  ASSUME QuotaInv, UNCHANGED usage, NEW t \in Quota!Turns,
         \A u \in Quota!Turns : turn'[u].period = turn[u].period /\ turn'[u].refunded = turn[u].refunded,
         \A u \in Quota!Turns : u # t => turn'[u].pc = turn[u].pc,
         \/ turn'[t].pc = turn[t].pc
         \/ turn'[t].pc \in {"attention", "silent"}
         \/ turn[t].pc = "new" /\ turn'[t].pc = "quota"
         \/ turn[t].pc \in {"model", "check", "send"} /\ turn'[t].pc \in {"refund", "check", "send", "replied"}
  PROVE  CounterTrue'
<1>1. Counted' = Counted
  BY DEF Counted
<1> QED BY <1>1 DEF QuotaInv, CounterTrue

\* Every step keeps it.
LEMMA QuotaStep ==
  QuotaInv /\ [Quota!Next]_(Quota!vars) => QuotaInv'
<1> SUFFICES ASSUME QuotaInv, [Quota!Next]_(Quota!vars) PROVE QuotaInv'
  OBVIOUS
<1>a. /\ ShapeQuota /\ turn \in [Quota!Turns -> TurnRowsQuota] /\ usage \in [1 .. 1 -> Nat] /\ month = 1
      /\ PlanAnswers \in Nat
  BY Bounds DEF QuotaInv, ShapeQuota, Quota!TurnAssumption
<1>s. ShapeQuota'
  BY TurnShapeQuota DEF QuotaInv, Quota!vars, ShapeQuota
<1>1. ASSUME NEW t \in Quota!Turns, Quota!Gates(t) \/ Quota!Runs(t) \/ Quota!Checks(t) \/ Quota!Sends(t)
                                    \/ Quota!Stops(t) \/ Quota!NeedsAttention(t)
                                    \/ (Quota!Consumes(t) /\ ~Quota!Below)
      PROVE  CounterTrue'
  <2>1. PICK p \in {"new", "quota", "model", "refund", "attention", "check", "send", "replied", "silent"} :
          /\ Quota!Goes(t, p)
          /\ \/ p \in {"attention", "silent"}
             \/ turn[t].pc = "new" /\ p = "quota"
             \/ turn[t].pc \in {"model", "check", "send"} /\ p \in {"refund", "check", "send", "replied"}
    BY <1>1 DEF Quota!Gates, Quota!Runs, Quota!Checks, Quota!Sends, Quota!Stops, Quota!NeedsAttention,
       Quota!Consumes, Quota!Denied, Quota!Unanswered, Quota!Fails, Quota!Answers
  <2>2. UNCHANGED usage
    BY <1>1 DEF Quota!Gates, Quota!Runs, Quota!Checks, Quota!Sends, Quota!Stops, Quota!NeedsAttention,
       Quota!Consumes
  <2>3. /\ turn'[t] = [turn[t] EXCEPT !.pc = p]
        /\ \A u \in Quota!Turns : u # t => turn'[u] = turn[u]
    BY <1>a, <2>1, TurnGoesQuota
  <2>4. turn'[t].pc = p /\ turn'[t].period = turn[t].period /\ turn'[t].refunded = turn[t].refunded
    BY <1>a, <2>3 DEF TurnRowsQuota
  <2>5. /\ \A u \in Quota!Turns : turn'[u].period = turn[u].period /\ turn'[u].refunded = turn[u].refunded
        /\ \A u \in Quota!Turns : u # t => turn'[u].pc = turn[u].pc
    BY <2>3, <2>4
  <2> QED BY <2>1, <2>2, <2>4, <2>5, QuotaIdle
<1>2. ASSUME NEW t \in Quota!Turns, Quota!Consumes(t), Quota!Below PROVE CounterTrue'
  <2>1. /\ turn'[t].pc = "model" /\ turn'[t].period = 1 /\ turn'[t].refunded = turn[t].refunded
        /\ \A u \in Quota!Turns : u # t => turn'[u] = turn[u]
    BY <1>a, <1>2 DEF Quota!Consumes, TurnRowsQuota
  <2>2. usage'[1] = usage[1] + 1 /\ usage[1] <= PlanAnswers - 1 /\ usage[1] \in Nat
    BY <1>a, <1>2 DEF Quota!Consumes, Quota!Below
  <2>3. turn[t].pc = "quota" /\ t \notin Counted
    BY <1>2 DEF Quota!Consumes, QuotaInv, CounterTrue, Counted
  <2>4. ~turn[t].refunded
    BY <2>3 DEF QuotaInv, CounterTrue
  <2>5. Counted' = Counted \cup {t}
    BY <2>1, <2>4 DEF Counted
  <2>6. IsFiniteSet(Counted') /\ Cardinality(Counted') = Cardinality(Counted) + 1
    BY <2>3, <2>5, FS_AddElement DEF QuotaInv, CounterTrue
  <2>7. \A u \in Quota!Turns :
       /\ turn'[u].pc \in {"new", "quota"} => turn'[u].period = 0 /\ ~turn'[u].refunded
       /\ turn'[u].pc \in {"model", "refund", "check", "send", "replied"} => turn'[u].period = 1 /\
           ~turn'[u].refunded
    BY <2>1, <2>4 DEF QuotaInv, CounterTrue
  <2>8. usage'[1] <= PlanAnswers
    BY <1>a, <2>2
  <2> QED BY <2>2, <2>6, <2>7, <2>8 DEF QuotaInv, CounterTrue
<1>3. ASSUME NEW t \in Quota!Turns, Quota!Refunds(t) PROVE CounterTrue'
  <2>1. /\ turn'[t].pc \in {"attention", "silent"} /\ turn'[t].period = turn[t].period /\ turn'[t].refunded
        /\ \A u \in Quota!Turns : u # t => turn'[u] = turn[u]
    BY <1>a, <1>3 DEF Quota!Refunds, Quota!Unanswered, TurnRowsQuota
  <2>2. t \in Counted
    BY <1>3 DEF Quota!Refunds, QuotaInv, CounterTrue, Counted
  <2>3. Counted' = Counted \ {t}
    BY <2>1 DEF Counted
  <2>4. IsFiniteSet(Counted') /\ Cardinality(Counted') = Cardinality(Counted) - 1
    BY <2>2, <2>3, FS_RemoveElement DEF QuotaInv, CounterTrue
  <2>5. Cardinality(Counted') \in Nat
    BY <2>4, FS_CardinalityType
  <2>6. usage[1] \in Nat /\ usage[1] = Cardinality(Counted) /\ usage[1] <= PlanAnswers
    BY <1>a DEF QuotaInv, CounterTrue
  <2>7. usage'[1] = usage[1] - 1
    BY <1>a, <1>3, <2>4, <2>5, <2>6 DEF Quota!Refunds
  <2>8. \A u \in Quota!Turns :
       /\ turn'[u].pc \in {"new", "quota"} => turn'[u].period = 0 /\ ~turn'[u].refunded
       /\ turn'[u].pc \in {"model", "refund", "check", "send", "replied"} => turn'[u].period = 1 /\
           ~turn'[u].refunded
    BY <2>1 DEF QuotaInv, CounterTrue
  <2>9. usage'[1] = Cardinality(Counted)' /\ usage'[1] <= PlanAnswers
    BY <1>a, <2>4, <2>6, <2>7
  <2> QED BY <2>4, <2>8, <2>9 DEF CounterTrue
<1>4. ASSUME NEW t \in Quota!Turns, Quota!Derives(t) PROVE CounterTrue'
  <2>1. UNCHANGED usage /\ \A u \in Quota!Turns : turn'[u].period = turn[u].period /\
          turn'[u].refunded = turn[u].refunded
                               /\ turn'[u].pc = turn[u].pc
    BY <1>a, <1>4 DEF Quota!Derives, TurnRowsQuota
  <2> QED BY <2>1, QuotaIdle
<1>5. (UNCHANGED usage /\ \A u \in Quota!Turns : turn'[u].period = turn[u].period
                     /\ turn'[u].refunded = turn[u].refunded /\ turn'[u].pc = turn[u].pc)
      => CounterTrue'
  <2> SUFFICES ASSUME UNCHANGED usage, \A u \in Quota!Turns : turn'[u].period = turn[u].period
                     /\ turn'[u].refunded = turn[u].refunded /\ turn'[u].pc = turn[u].pc
               PROVE CounterTrue'
    OBVIOUS
  <2>1. Counted' = Counted
    BY DEF Counted
  <2> QED BY <2>1 DEF QuotaInv, CounterTrue
<1>6. ASSUME Quota!Takes \/ Quota!Returns PROVE CounterTrue'
  <2>1. UNCHANGED usage /\ \A u \in Quota!Turns : turn'[u].period = turn[u].period /\
          turn'[u].refunded = turn[u].refunded
                               /\ turn'[u].pc = turn[u].pc
    BY <1>a, <1>6 DEF Quota!Takes, Quota!Returns, TurnRowsQuota
  <2> QED BY <1>5, <2>1
<1>7. ASSUME Quota!MonthEnds \/ UNCHANGED Quota!vars \/ \E status \in {"OPEN", "PENDING",
        "CLOSED"} : Quota!SetsStatus(status)
      PROVE CounterTrue'
  <2>1. UNCHANGED <<usage, turn>>
    BY <1>7 DEF Quota!MonthEnds, Quota!vars, Quota!SetsStatus
  <2> QED BY <1>5, <2>1
<1>8. CounterTrue'
  BY <1>1, <1>2, <1>3, <1>4, <1>6, <1>7 DEF Quota!Next
<1> QED BY <1>s, <1>8 DEF QuotaInv

\* What it means for the plan: the answers of a month are within it, and failures are free.
LEMMA QuotaHolds == QuotaInv => Quota!TypeOK /\ Quota!WithinPlan /\ Quota!FailuresFree
<1> SUFFICES ASSUME QuotaInv PROVE Quota!TypeOK /\ Quota!WithinPlan /\ Quota!FailuresFree
  OBVIOUS
<1>1. Quota!TypeOK
  BY DEF QuotaInv, ShapeQuota, TurnRowsQuota, Quota!TypeOK
<1> DEFINE replied == {t \in Quota!In(1) : turn[t].pc = "replied"}
<1>2. replied \subseteq Counted
  BY DEF Quota!In, Counted, QuotaInv, CounterTrue
<1>3. IsFiniteSet(replied) /\ Cardinality(replied) <= Cardinality(Counted)
  BY <1>2, FS_Subset DEF QuotaInv, CounterTrue
<1>4. Cardinality(replied) \in Nat /\ Cardinality(Counted) \in Nat /\ PlanAnswers \in Nat
  BY <1>3, FS_CardinalityType, Bounds DEF QuotaInv, CounterTrue, Quota!TurnAssumption
<1>5. Cardinality(replied) <= PlanAnswers
  BY <1>3, <1>4 DEF QuotaInv, CounterTrue
<1>6. {t \in Quota!In(1) : ~turn[t].refunded} = Counted
  BY DEF Quota!In, Counted
<1>8. Quota!WithinPlan
  <2> SUFFICES ASSUME NEW m \in 1 .. 1
               PROVE Cardinality({t \in Quota!In(m) : turn[t].pc = "replied"}) <= PlanAnswers
    BY DEF Quota!WithinPlan, Quota!Cardinality, Cardinality
  <2>1. m = 1
    OBVIOUS
  <2> QED BY <1>5, <2>1
<1>9. Quota!FailuresFree
  <2> SUFFICES ASSUME NEW m \in 1 .. 1
               PROVE usage[m] = Cardinality({t \in Quota!In(m) : ~turn[t].refunded})
    BY DEF Quota!FailuresFree, Quota!Cardinality, Cardinality
  <2>1. m = 1
    OBVIOUS
  <2> QED BY <1>6, <2>1 DEF QuotaInv, CounterTrue
<1> QED BY <1>1, <1>8, <1>9

------------------------------------------------------------------------------
(***************************************************************************)
(* The tags of an organization.                                            *)
(***************************************************************************)

CrmRowsTagging == [pc : {"idle", "create", "rename", "apply"}, tag : Tags \cup {None}, name : TagNames \cup {None},
             target : Targets \cup {None}]
\* The types, row by row.
CrmShapeTagging ==
  /\ name \in [Tags -> TagNames \cup {None}]
  /\ applied \subseteq Targets \X Tags
  /\ crmRequest \in [Requests -> CrmRowsTagging]
  /\ refused \in (Targets \X Tags) \cup {None}
  \* A request that writes has what it writes.
  /\ \A r \in Requests :
       /\ crmRequest[r].pc \in {"create", "rename"} => crmRequest[r].name \in TagNames
       /\ crmRequest[r].pc = "rename" => crmRequest[r].tag \in Tags
       /\ crmRequest[r].pc = "apply" => crmRequest[r].tag \in Tags /\ crmRequest[r].target \in Targets

\* The types hold at the start.
LEMMA CrmStartTagging == Tagging!Init => CrmShapeTagging
BY DEF Tagging!Init, Tagging!Free, CrmShapeTagging, CrmRowsTagging

\* Every step keeps the types.
LEMMA CrmTypesTagging == CrmShapeTagging /\ Tagging!Next => CrmShapeTagging'
<1> SUFFICES ASSUME CrmShapeTagging, Tagging!Next PROVE CrmShapeTagging'
  OBVIOUS
<1>a. /\ name \in [Tags -> TagNames \cup {None}] /\ applied \subseteq Targets \X Tags
      /\ crmRequest \in [Requests -> CrmRowsTagging] /\ refused \in (Targets \X Tags) \cup {None}
  BY DEF CrmShapeTagging
<1>b. ASSUME NEW r \in Requests, NEW f \in CrmRowsTagging, Tagging!Becomes(r, f), UNCHANGED <<name, applied,
        refused>>,
             f.pc \in {"create", "rename"} => f.name \in TagNames,
             f.pc = "rename" => f.tag \in Tags,
             f.pc = "apply" => f.tag \in Tags /\ f.target \in Targets
      PROVE  CrmShapeTagging'
  BY <1>a, <1>b DEF CrmShapeTagging, Tagging!Becomes
<1>f. Tagging!Free \in CrmRowsTagging /\ Tagging!Free.pc = "idle"
  BY DEF Tagging!Free, CrmRowsTagging
<1>1. ASSUME NEW r \in Requests, NEW n \in TagNames, Tagging!AsksCreate(r, n) PROVE CrmShapeTagging'
  <2>1. [Tagging!Free EXCEPT !.pc = "create", !.name = n] \in CrmRowsTagging
    BY DEF Tagging!Free, CrmRowsTagging
  <2> QED BY <1>b, <1>1, <2>1 DEF Tagging!AsksCreate, Tagging!Free
<1>2. ASSUME NEW r \in Requests, NEW t \in Tags, NEW n \in TagNames, Tagging!AsksRename(r, t, n)
        PROVE CrmShapeTagging'
  <2>1. [Tagging!Free EXCEPT !.pc = "rename", !.tag = t, !.name = n] \in CrmRowsTagging
    BY DEF Tagging!Free, CrmRowsTagging
  <2> QED BY <1>b, <1>2, <2>1 DEF Tagging!AsksRename, Tagging!Free
<1>3. ASSUME NEW r \in Requests, NEW t \in Tags, Tagging!Writes(r, t) PROVE CrmShapeTagging'
  <2>1. name' \in [Tags -> TagNames \cup {None}]
    <3>1. crmRequest[r].name \in TagNames
      BY <1>3 DEF Tagging!Writes, CrmShapeTagging
    <3> QED BY <1>a, <1>3, <3>1 DEF Tagging!Writes
  <2>2. crmRequest' = [crmRequest EXCEPT ![r] = Tagging!Free] /\ UNCHANGED <<applied, refused>>
    BY <1>3 DEF Tagging!Writes, Tagging!Becomes
  <2> QED BY <1>a, <1>f, <2>1, <2>2 DEF CrmShapeTagging
<1>4. ASSUME NEW t \in Tags, Tagging!Deletes(t) PROVE CrmShapeTagging'
  BY <1>a, <1>4 DEF Tagging!Deletes, Tagging!Cascade, CrmShapeTagging
<1>5. ASSUME NEW r \in Requests, NEW target \in Targets, NEW t \in Tags, Tagging!AsksApply(r, target, t)
        PROVE CrmShapeTagging'
  <2>1. CASE Tagging!RoomForApplied(target)
    <3>1. [Tagging!Free EXCEPT !.pc = "apply", !.tag = t, !.target = target] \in CrmRowsTagging
      BY DEF Tagging!Free, CrmRowsTagging
    <3>2. /\ Tagging!Becomes(r, [Tagging!Free EXCEPT !.pc = "apply", !.tag = t, !.target = target])
          /\ UNCHANGED <<name, applied, refused>>
      BY <1>5, <2>1 DEF Tagging!AsksApply
    <3> QED BY <1>b, <3>1, <3>2 DEF Tagging!Free
  <2>2. CASE ~Tagging!RoomForApplied(target)
    BY <1>a, <1>5, <2>2 DEF Tagging!AsksApply, Tagging!Pair, CrmShapeTagging
  <2> QED BY <2>1, <2>2
<1>6. ASSUME NEW r \in Requests, Tagging!Applies(r) PROVE CrmShapeTagging'
  <2>1. applied' \subseteq Targets \X Tags
    BY <1>a, <1>6 DEF Tagging!Applies, CrmShapeTagging
  <2>2. crmRequest' = [crmRequest EXCEPT ![r] = Tagging!Free] /\ UNCHANGED <<name, refused>>
    BY <1>6 DEF Tagging!Applies, Tagging!Becomes
  <2> QED BY <1>a, <1>f, <2>1, <2>2 DEF CrmShapeTagging
<1>7. ASSUME NEW target \in Targets, NEW t \in Tags, Tagging!Removes(target, t) PROVE CrmShapeTagging'
  BY <1>a, <1>7 DEF Tagging!Removes, CrmShapeTagging
<1> QED BY <1>1, <1>2, <1>3, <1>4, <1>5, <1>6, <1>7 DEF Tagging!Next

\* The types of the catalogue.
LEMMA CrmTypedTagging == CrmShapeTagging => Tagging!TypeOK
BY DEF CrmShapeTagging, CrmRowsTagging, Tagging!TypeOK

TaggingInv == CrmShapeTagging /\ Tagging!UniqueNames /\ Tagging!AppliedExists

\* The catalogue is empty at the start.
LEMMA TaggingInit == Tagging!Init => TaggingInv
BY CrmStartTagging DEF Tagging!Init, TaggingInv, Tagging!UniqueNames, Tagging!AppliedExists, Tagging!Catalogue

\* The index and the foreign key keep the catalogue, whatever the requests had read.
LEMMA TaggingStep == TaggingInv /\ [Tagging!Next]_(Tagging!vars) => TaggingInv'
<1> SUFFICES ASSUME TaggingInv, [Tagging!Next]_(Tagging!vars) PROVE TaggingInv'
  OBVIOUS
<1>a. /\ name \in [Tags -> TagNames \cup {None}] /\ applied \subseteq Targets \X Tags /\ None \notin TagNames
  BY Bounds DEF TaggingInv, CrmShapeTagging, Tagging!CrmTagsAssumption
<1>s. CrmShapeTagging'
  BY CrmTypesTagging DEF TaggingInv, Tagging!vars, CrmShapeTagging
<1> DEFINE Sound == Tagging!UniqueNames /\ Tagging!AppliedExists
<1>u. UNCHANGED name /\ applied' \subseteq applied => Sound'
  BY DEF TaggingInv, Tagging!UniqueNames, Tagging!AppliedExists, Tagging!Catalogue
<1>1. ASSUME NEW r \in Requests, NEW t \in Tags, Tagging!Writes(r, t) PROVE Sound'
  <2>1. crmRequest[r].name \in TagNames /\ UNCHANGED applied
    BY <1>1 DEF Tagging!Writes, TaggingInv, CrmShapeTagging
  <2>2. CASE name' = name
    BY <1>u, <2>1, <2>2
  <2>3. CASE name' # name
    <3>1. name' = [name EXCEPT ![t] = crmRequest[r].name] /\ ~Tagging!Taken(crmRequest[r].name, t)
      BY <1>1, <2>3 DEF Tagging!Writes, Tagging!UniqueIndex
    <3>2. /\ name'[t] = crmRequest[r].name
          /\ \A u \in Tags : u # t => name'[u] = name[u] /\ name[u] # crmRequest[r].name
      BY <1>a, <3>1 DEF Tagging!Taken
    <3>3. Tagging!UniqueNames'
      BY <3>2 DEF TaggingInv, Tagging!UniqueNames, Tagging!Catalogue
    <3>4. Tagging!AppliedExists'
      BY <1>a, <2>1, <3>2 DEF TaggingInv, Tagging!AppliedExists, Tagging!Catalogue
    <3> QED BY <3>3, <3>4
  <2> QED BY <2>2, <2>3
<1>2. ASSUME NEW t \in Tags, Tagging!Deletes(t) PROVE Sound'
  <2>1. /\ name'[t] = None /\ \A u \in Tags : u # t => name'[u] = name[u]
        /\ \A a \in applied' : a \in applied /\ a[2] # t
    BY <1>a, <1>2 DEF Tagging!Deletes, Tagging!Cascade
  <2>2. Tagging!UniqueNames'
    BY <2>1 DEF TaggingInv, Tagging!UniqueNames, Tagging!Catalogue
  <2>3. Tagging!AppliedExists'
    BY <2>1 DEF TaggingInv, Tagging!AppliedExists, Tagging!Catalogue
  <2> QED BY <2>2, <2>3
<1>3. ASSUME NEW r \in Requests, Tagging!Applies(r) PROVE Sound'
  <2>1. /\ UNCHANGED name
        /\ \A a \in applied' : a \in applied \/ (a = <<crmRequest[r].target, crmRequest[r].tag>> /\
            crmRequest[r].tag \in Tagging!Catalogue)
    BY <1>3 DEF Tagging!Applies
  <2>2. Tagging!UniqueNames'
    BY <2>1 DEF TaggingInv, Tagging!UniqueNames, Tagging!Catalogue
  <2>3. Tagging!AppliedExists'
    BY <2>1 DEF TaggingInv, Tagging!AppliedExists, Tagging!Catalogue
  <2> QED BY <2>2, <2>3
<1>4. ASSUME NEW target \in Targets, NEW t \in Tags, Tagging!Removes(target, t) PROVE Sound'
  BY <1>u, <1>4 DEF Tagging!Removes
<1>5. Sound'
  <2>1. ASSUME NEW r \in Requests,
          \/ \E n \in TagNames : Tagging!AsksCreate(r, n)
          \/ \E t \in Tags, n \in TagNames : Tagging!AsksRename(r, t, n)
          \/ \E target \in Targets, t \in Tags : Tagging!AsksApply(r, target, t)
        PROVE Sound'
    <3>1. UNCHANGED <<name, applied>>
      BY <2>1 DEF Tagging!AsksCreate, Tagging!AsksRename, Tagging!AsksApply
    <3> QED BY <1>u, <3>1
  <2>2. UNCHANGED Tagging!vars => Sound'
    BY <1>u DEF Tagging!vars
  <2> HIDE DEF Sound
  <2> QED BY <1>1, <1>2, <1>3, <1>4, <2>1, <2>2 DEF Tagging!Next
<1> QED BY <1>s, <1>5 DEF TaggingInv

CrmRowsOneTagging == [pc : {"idle", "create", "rename", "apply"}, tag : Tags \cup {None}, name : MoreNames \cup
    {None},
             target : Targets \cup {None}]
\* The types, row by row.
CrmShapeOneTagging ==
  /\ name \in [Tags -> MoreNames \cup {None}]
  /\ applied \subseteq Targets \X Tags
  /\ crmRequest \in [{"q"} -> CrmRowsOneTagging]
  /\ refused \in (Targets \X Tags) \cup {None}
  \* A request that writes has what it writes.
  /\ \A r \in {"q"} :
       /\ crmRequest[r].pc \in {"create", "rename"} => crmRequest[r].name \in MoreNames
       /\ crmRequest[r].pc = "rename" => crmRequest[r].tag \in Tags
       /\ crmRequest[r].pc = "apply" => crmRequest[r].tag \in Tags /\ crmRequest[r].target \in Targets

\* The types hold at the start.
LEMMA CrmStartOneTagging == OneTagging!Init => CrmShapeOneTagging
BY DEF OneTagging!Init, OneTagging!Free, CrmShapeOneTagging, CrmRowsOneTagging

\* Every step keeps the types.
LEMMA CrmTypesOneTagging == CrmShapeOneTagging /\ OneTagging!Next => CrmShapeOneTagging'
<1> SUFFICES ASSUME CrmShapeOneTagging, OneTagging!Next PROVE CrmShapeOneTagging'
  OBVIOUS
<1>a. /\ name \in [Tags -> MoreNames \cup {None}] /\ applied \subseteq Targets \X Tags
      /\ crmRequest \in [{"q"} -> CrmRowsOneTagging] /\ refused \in (Targets \X Tags) \cup {None}
  BY DEF CrmShapeOneTagging
<1>b. ASSUME NEW r \in {"q"}, NEW f \in CrmRowsOneTagging, OneTagging!Becomes(r, f), UNCHANGED <<name, applied,
        refused>>,
             f.pc \in {"create", "rename"} => f.name \in MoreNames,
             f.pc = "rename" => f.tag \in Tags,
             f.pc = "apply" => f.tag \in Tags /\ f.target \in Targets
      PROVE  CrmShapeOneTagging'
  BY <1>a, <1>b DEF CrmShapeOneTagging, OneTagging!Becomes
<1>f. OneTagging!Free \in CrmRowsOneTagging /\ OneTagging!Free.pc = "idle"
  BY DEF OneTagging!Free, CrmRowsOneTagging
<1>1. ASSUME NEW r \in {"q"}, NEW n \in MoreNames, OneTagging!AsksCreate(r, n) PROVE CrmShapeOneTagging'
  <2>1. [OneTagging!Free EXCEPT !.pc = "create", !.name = n] \in CrmRowsOneTagging
    BY DEF OneTagging!Free, CrmRowsOneTagging
  <2> QED BY <1>b, <1>1, <2>1 DEF OneTagging!AsksCreate, OneTagging!Free
<1>2. ASSUME NEW r \in {"q"}, NEW t \in Tags, NEW n \in MoreNames, OneTagging!AsksRename(r, t, n)
        PROVE CrmShapeOneTagging'
  <2>1. [OneTagging!Free EXCEPT !.pc = "rename", !.tag = t, !.name = n] \in CrmRowsOneTagging
    BY DEF OneTagging!Free, CrmRowsOneTagging
  <2> QED BY <1>b, <1>2, <2>1 DEF OneTagging!AsksRename, OneTagging!Free
<1>3. ASSUME NEW r \in {"q"}, NEW t \in Tags, OneTagging!Writes(r, t) PROVE CrmShapeOneTagging'
  <2>1. name' \in [Tags -> MoreNames \cup {None}]
    <3>1. crmRequest[r].name \in MoreNames
      BY <1>3 DEF OneTagging!Writes, CrmShapeOneTagging
    <3> QED BY <1>a, <1>3, <3>1 DEF OneTagging!Writes
  <2>2. crmRequest' = [crmRequest EXCEPT ![r] = OneTagging!Free] /\ UNCHANGED <<applied, refused>>
    BY <1>3 DEF OneTagging!Writes, OneTagging!Becomes
  <2> QED BY <1>a, <1>f, <2>1, <2>2 DEF CrmShapeOneTagging
<1>4. ASSUME NEW t \in Tags, OneTagging!Deletes(t) PROVE CrmShapeOneTagging'
  BY <1>a, <1>4 DEF OneTagging!Deletes, OneTagging!Cascade, CrmShapeOneTagging
<1>5. ASSUME NEW r \in {"q"}, NEW target \in Targets, NEW t \in Tags, OneTagging!AsksApply(r, target, t)
        PROVE CrmShapeOneTagging'
  <2>1. CASE OneTagging!RoomForApplied(target)
    <3>1. [OneTagging!Free EXCEPT !.pc = "apply", !.tag = t, !.target = target] \in CrmRowsOneTagging
      BY DEF OneTagging!Free, CrmRowsOneTagging
    <3>2. /\ OneTagging!Becomes(r, [OneTagging!Free EXCEPT !.pc = "apply", !.tag = t, !.target = target])
          /\ UNCHANGED <<name, applied, refused>>
      BY <1>5, <2>1 DEF OneTagging!AsksApply
    <3> QED BY <1>b, <3>1, <3>2 DEF OneTagging!Free
  <2>2. CASE ~OneTagging!RoomForApplied(target)
    BY <1>a, <1>5, <2>2 DEF OneTagging!AsksApply, OneTagging!Pair, CrmShapeOneTagging
  <2> QED BY <2>1, <2>2
<1>6. ASSUME NEW r \in {"q"}, OneTagging!Applies(r) PROVE CrmShapeOneTagging'
  <2>1. applied' \subseteq Targets \X Tags
    BY <1>a, <1>6 DEF OneTagging!Applies, CrmShapeOneTagging
  <2>2. crmRequest' = [crmRequest EXCEPT ![r] = OneTagging!Free] /\ UNCHANGED <<name, refused>>
    BY <1>6 DEF OneTagging!Applies, OneTagging!Becomes
  <2> QED BY <1>a, <1>f, <2>1, <2>2 DEF CrmShapeOneTagging
<1>7. ASSUME NEW target \in Targets, NEW t \in Tags, OneTagging!Removes(target, t) PROVE CrmShapeOneTagging'
  BY <1>a, <1>7 DEF OneTagging!Removes, CrmShapeOneTagging
<1> QED BY <1>1, <1>2, <1>3, <1>4, <1>5, <1>6, <1>7 DEF OneTagging!Next

\* The types of the catalogue.
LEMMA CrmTypedOneTagging == CrmShapeOneTagging => OneTagging!TypeOK
BY DEF CrmShapeOneTagging, CrmRowsOneTagging, OneTagging!TypeOK

\* Why the limits hold with one request at a time: what it counted before it writes does not
\* grow meanwhile.
WithinLimits ==
  /\ IsFiniteSet(OneTagging!Catalogue) /\ Cardinality(OneTagging!Catalogue) <= MaxTags
  /\ \A target \in Targets : IsFiniteSet(OneTagging!Of(target)) /\ Cardinality(OneTagging!Of(target)) <= MaxApplied
  /\ crmRequest["q"].pc = "create" => Cardinality(OneTagging!Catalogue) < MaxTags
  /\ crmRequest["q"].pc = "apply" => Cardinality(OneTagging!Of(crmRequest["q"].target)) < MaxApplied
TagsInv == CrmShapeOneTagging /\ WithinLimits

\* The component counts as this module does.
LEMMA TagsCounted == \A S : OneTagging!Cardinality(S) = Cardinality(S)
BY DEF OneTagging!Cardinality, Cardinality

\* The catalogue is empty at the start.
LEMMA TagsInit == OneTagging!Init => TagsInv
<1> SUFFICES ASSUME OneTagging!Init PROVE TagsInv
  OBVIOUS
<1>1. OneTagging!Catalogue = {} /\ \A target \in Targets : OneTagging!Of(target) = {}
  BY DEF OneTagging!Init, OneTagging!Catalogue, OneTagging!Of
<1>2. IsFiniteSet({}) /\ Cardinality({}) = 0 /\ MaxTags \in Nat /\ MaxApplied \in Nat
  BY FS_EmptySet, Bounds DEF OneTagging!CrmTagsAssumption
<1>3. crmRequest["q"].pc = "idle"
  BY DEF OneTagging!Init, OneTagging!Free
<1> QED BY <1>1, <1>2, <1>3, CrmStartOneTagging DEF TagsInv, WithinLimits

\* The sets only shrink, and the request goes on or ends with what it had counted.
LEMMA TagsShrink ==
  ASSUME TagsInv, OneTagging!Catalogue' \subseteq OneTagging!Catalogue,
         \A target \in Targets : (OneTagging!Of(target))' \subseteq OneTagging!Of(target),
         \/ crmRequest'["q"] = crmRequest["q"]
         \/ crmRequest'["q"].pc \in {"idle", "rename"}
         \/ crmRequest'["q"].pc = "create" /\ Cardinality(OneTagging!Catalogue) < MaxTags
         \/ crmRequest'["q"].pc = "apply" /\ crmRequest'["q"].target \in Targets
            /\ Cardinality(OneTagging!Of(crmRequest'["q"].target)) < MaxApplied
  PROVE  WithinLimits'
<1>1. /\ MaxTags \in Nat /\ MaxApplied \in Nat
  BY Bounds DEF OneTagging!CrmTagsAssumption
<1>2. /\ IsFiniteSet(OneTagging!Catalogue') /\
        Cardinality(OneTagging!Catalogue') <= Cardinality(OneTagging!Catalogue)
      /\ Cardinality(OneTagging!Catalogue') \in Nat /\ Cardinality(OneTagging!Catalogue) \in Nat
  BY FS_Subset, FS_CardinalityType DEF TagsInv, WithinLimits
<1>3. ASSUME NEW target \in Targets
      PROVE  /\ IsFiniteSet((OneTagging!Of(target))')
             /\ Cardinality((OneTagging!Of(target))') <= Cardinality(OneTagging!Of(target))
             /\ Cardinality((OneTagging!Of(target))') \in Nat /\ Cardinality(OneTagging!Of(target)) \in Nat
  BY FS_Subset, FS_CardinalityType DEF TagsInv, WithinLimits
<1>4. Cardinality(OneTagging!Catalogue') <= MaxTags
  BY <1>1, <1>2 DEF TagsInv, WithinLimits
<1>5. \A target \in Targets : Cardinality((OneTagging!Of(target))') <= MaxApplied
  BY <1>1, <1>3 DEF TagsInv, WithinLimits
<1>6. crmRequest'["q"].pc = "create" => Cardinality(OneTagging!Catalogue') < MaxTags
  BY <1>1, <1>2 DEF TagsInv, WithinLimits
<1>7. (crmRequest["q"].pc = "apply" => Cardinality(OneTagging!Of(crmRequest["q"].target)) < MaxApplied)'
  <2> SUFFICES ASSUME crmRequest'["q"].pc = "apply"
               PROVE  Cardinality((OneTagging!Of(crmRequest["q"].target))') < MaxApplied
    OBVIOUS
  <2>1. PICK x \in Targets : crmRequest'["q"].target = x /\ Cardinality(OneTagging!Of(x)) < MaxApplied
    BY DEF TagsInv, WithinLimits, CrmShapeOneTagging
  <2>2. /\ Cardinality((OneTagging!Of(x))') <= Cardinality(OneTagging!Of(x))
        /\ Cardinality((OneTagging!Of(x))') \in Nat /\ Cardinality(OneTagging!Of(x)) \in Nat
    BY <1>3
  <2>3. Cardinality((OneTagging!Of(x))') < MaxApplied
    BY <1>1, <2>1, <2>2
  <2>4. (OneTagging!Of(crmRequest["q"].target))' = (OneTagging!Of(x))'
    BY <2>1 DEF OneTagging!Of
  <2> QED BY <2>3, <2>4
<1> QED BY <1>2, <1>3, <1>4, <1>5, <1>6, <1>7 DEF WithinLimits

\* A set that one element joins grows by one at most.
LEMMA OneMore ==
  ASSUME NEW S, NEW x, IsFiniteSet(S)
  PROVE  /\ IsFiniteSet(S \cup {x}) /\ Cardinality(S \cup {x}) \in Nat /\ Cardinality(S) \in Nat
         /\ Cardinality(S \cup {x}) <= Cardinality(S) + 1
<1>1. Cardinality(S) \in Nat
  BY FS_CardinalityType
<1>2. CASE x \in S
  <2>1. S \cup {x} = S
    BY <1>2
  <2>2. IsFiniteSet(S \cup {x}) /\ Cardinality(S \cup {x}) = Cardinality(S)
    BY <2>1
  <2> QED BY <1>1, <2>2
<1>3. CASE x \notin S
  <2>1. IsFiniteSet(S \cup {x}) /\ Cardinality(S \cup {x}) = Cardinality(S) + 1
    BY <1>3, FS_AddElement
  <2> QED BY <1>1, <2>1
<1> QED BY <1>2, <1>3

\* Every step keeps the limits: the request writes what it counted room for.
LEMMA TagsStep == TagsInv /\ [OneTagging!Next]_(OneTagging!vars) => TagsInv'
<1> SUFFICES ASSUME TagsInv, [OneTagging!Next]_(OneTagging!vars) PROVE TagsInv'
  OBVIOUS
<1>a. /\ name \in [Tags -> MoreNames \cup {None}] /\ crmRequest \in [{"q"} -> CrmRowsOneTagging]
      /\ MaxTags \in Nat /\ MaxApplied \in Nat
  BY Bounds DEF TagsInv, CrmShapeOneTagging, OneTagging!CrmTagsAssumption
<1>s. CrmShapeOneTagging'
  BY CrmTypesOneTagging DEF TagsInv, OneTagging!vars, CrmShapeOneTagging
<1>n. UNCHANGED name => OneTagging!Catalogue' = OneTagging!Catalogue
  BY DEF OneTagging!Catalogue
<1>o. applied' \subseteq applied => \A target \in Targets : (OneTagging!Of(target))' \subseteq OneTagging!Of(target)
  BY DEF OneTagging!Of
<1>1. ASSUME NEW n \in MoreNames, OneTagging!AsksCreate("q", n) PROVE WithinLimits'
  <2>1. crmRequest'["q"].pc = "create" /\ UNCHANGED <<name, applied>> /\ Cardinality(OneTagging!Catalogue) < MaxTags
    BY <1>a, <1>1, TagsCounted DEF OneTagging!AsksCreate, OneTagging!Becomes, OneTagging!Free, OneTagging!RoomForTag
  <2> QED BY <1>n, <1>o, <2>1, TagsShrink
<1>2. ASSUME NEW t \in Tags, NEW n \in MoreNames, OneTagging!AsksRename("q", t, n) PROVE WithinLimits'
  <2>1. crmRequest'["q"].pc = "rename" /\ UNCHANGED <<name, applied>>
    BY <1>a, <1>2 DEF OneTagging!AsksRename, OneTagging!Becomes, OneTagging!Free
  <2> QED BY <1>n, <1>o, <2>1, TagsShrink
<1>3. ASSUME NEW t \in Tags, OneTagging!Writes("q", t) PROVE WithinLimits'
  <2>1. crmRequest'["q"].pc = "idle" /\ UNCHANGED applied
    BY <1>a, <1>3 DEF OneTagging!Writes, OneTagging!Becomes, OneTagging!Free
  <2>2. CASE OneTagging!Catalogue' \subseteq OneTagging!Catalogue
    BY <1>o, <2>1, <2>2, TagsShrink
  <2>3. CASE ~(OneTagging!Catalogue' \subseteq OneTagging!Catalogue)
    <3>1. t \notin OneTagging!Catalogue /\ OneTagging!Catalogue' \subseteq OneTagging!Catalogue \cup {t}
      BY <1>a, <1>3, <2>3 DEF OneTagging!Writes, OneTagging!Catalogue
    <3>2. crmRequest["q"].pc = "create"
      BY <1>3, <2>3, <3>1, <1>n DEF OneTagging!Writes
    <3>3. OneTagging!Catalogue' = OneTagging!Catalogue \cup {t}
      <4>1. \A u \in Tags : u # t => name'[u] = name[u]
        BY <1>a, <1>3 DEF OneTagging!Writes
      <4> QED BY <2>3, <3>1, <4>1 DEF OneTagging!Catalogue
    <3>4. /\ IsFiniteSet(OneTagging!Catalogue') /\ Cardinality(OneTagging!Catalogue') \in Nat
          /\ Cardinality(OneTagging!Catalogue) \in Nat
          /\ Cardinality(OneTagging!Catalogue') <= Cardinality(OneTagging!Catalogue) + 1
      BY <3>3, OneMore DEF TagsInv, WithinLimits
    <3>5. Cardinality(OneTagging!Catalogue) < MaxTags
      BY <3>2 DEF TagsInv, WithinLimits
    <3>6. Cardinality(OneTagging!Catalogue') <= MaxTags
      BY <1>a, <3>4, <3>5
    <3>7. \A target \in Targets : (OneTagging!Of(target))' = OneTagging!Of(target)
      BY <2>1 DEF OneTagging!Of
    <3> QED BY <2>1, <3>4, <3>6, <3>7 DEF TagsInv, WithinLimits
  <2> QED BY <2>2, <2>3
<1>4. ASSUME NEW t \in Tags, OneTagging!Deletes(t) PROVE WithinLimits'
  <2>1. /\ applied' \subseteq applied /\ UNCHANGED crmRequest
    BY <1>4 DEF OneTagging!Deletes, OneTagging!Cascade
  <2>2. OneTagging!Catalogue' \subseteq OneTagging!Catalogue
    BY <1>a, <1>4 DEF OneTagging!Deletes, OneTagging!Catalogue
  <2> QED BY <1>o, <2>1, <2>2, TagsShrink
<1>5. ASSUME NEW target \in Targets, NEW t \in Tags, OneTagging!AsksApply("q", target, t) PROVE WithinLimits'
  <2>1. CASE OneTagging!RoomForApplied(target)
    <3>1. /\ crmRequest'["q"].pc = "apply" /\ crmRequest'["q"].target = target /\ UNCHANGED <<name, applied>>
          /\ Cardinality(OneTagging!Of(target)) < MaxApplied
      BY <1>a, <1>5, <2>1, TagsCounted DEF OneTagging!AsksApply, OneTagging!Becomes, OneTagging!Free,
          OneTagging!RoomForApplied
    <3> QED BY <1>n, <1>o, <3>1, TagsShrink
  <2>2. CASE ~OneTagging!RoomForApplied(target)
    <3>1. UNCHANGED <<name, applied, crmRequest>>
      BY <1>5, <2>2 DEF OneTagging!AsksApply
    <3> QED BY <1>n, <1>o, <3>1, TagsShrink
  <2> QED BY <2>1, <2>2
<1>6. ASSUME OneTagging!Applies("q") PROVE WithinLimits'
  <2>1. /\ crmRequest["q"].pc = "apply" /\ crmRequest'["q"].pc = "idle" /\ UNCHANGED name
        /\ applied' \in {applied, applied \cup {<<crmRequest["q"].target, crmRequest["q"].tag>>}}
    BY <1>a, <1>6 DEF OneTagging!Applies, OneTagging!Becomes, OneTagging!Free
  <2>2. PICK x \in Targets, t \in Tags : crmRequest["q"].target = x /\ crmRequest["q"].tag = t
    BY <2>1 DEF TagsInv, CrmShapeOneTagging
  <2>3. Cardinality(OneTagging!Of(x)) < MaxApplied
    BY <2>1, <2>2 DEF TagsInv, WithinLimits
  <2>4. \A target \in Targets : target # x => (OneTagging!Of(target))' = OneTagging!Of(target)
    BY <2>1, <2>2 DEF OneTagging!Of
  <2>5. (OneTagging!Of(x))' \subseteq OneTagging!Of(x) \cup {t}
    BY <2>1, <2>2 DEF OneTagging!Of
  <2>6. IsFiniteSet(OneTagging!Of(x))
    BY DEF TagsInv, WithinLimits
  <2>7. /\ IsFiniteSet(OneTagging!Of(x) \cup {t}) /\ Cardinality(OneTagging!Of(x) \cup {t}) \in Nat
        /\ Cardinality(OneTagging!Of(x)) \in Nat
        /\ Cardinality(OneTagging!Of(x) \cup {t}) <= Cardinality(OneTagging!Of(x)) + 1
    BY <2>6, OneMore
  <2>8. /\ IsFiniteSet((OneTagging!Of(x))') /\
          Cardinality((OneTagging!Of(x))') <= Cardinality(OneTagging!Of(x) \cup {t})
        /\ Cardinality((OneTagging!Of(x))') \in Nat
    BY <2>5, <2>7, FS_Subset, FS_CardinalityType
  <2>9. Cardinality((OneTagging!Of(x))') <= MaxApplied
    BY <1>a, <2>3, <2>7, <2>8
  <2>10. \A target \in Targets : IsFiniteSet((OneTagging!Of(target))') /\
           Cardinality((OneTagging!Of(target))') <= MaxApplied
    BY <2>4, <2>8, <2>9 DEF TagsInv, WithinLimits
  <2> QED BY <1>n, <2>1, <2>10 DEF TagsInv, WithinLimits
<1>7. ASSUME NEW target \in Targets, NEW t \in Tags, OneTagging!Removes(target, t) PROVE WithinLimits'
  <2>1. applied' \subseteq applied /\ UNCHANGED <<name, crmRequest>>
    BY <1>7 DEF OneTagging!Removes
  <2> QED BY <1>n, <1>o, <2>1, TagsShrink
<1>8. ASSUME UNCHANGED OneTagging!vars PROVE WithinLimits'
  <2>1. UNCHANGED <<name, applied, crmRequest>>
    BY <1>8 DEF OneTagging!vars
  <2> QED BY <1>n, <1>o, <2>1, TagsShrink
<1>9. WithinLimits'
  BY <1>1, <1>2, <1>3, <1>4, <1>5, <1>6, <1>7, <1>8 DEF OneTagging!Next
<1> QED BY <1>s, <1>9 DEF TagsInv

\* What it means for the panel: the two limits it states.
LEMMA TagsHold == TagsInv => OneTagging!TypeOK /\ OneTagging!CatalogueLimit /\ OneTagging!AppliedLimit
BY CrmTypedOneTagging, TagsCounted DEF TagsInv, WithinLimits, OneTagging!CatalogueLimit, OneTagging!AppliedLimit

------------------------------------------------------------------------------
(***************************************************************************)
(* The thread on the screens.                                              *)
(***************************************************************************)
\* The messages, the requests of the tabs and the tabs.
BubbleRows == [text : 0 .. MaxTexts, status : {"NONE", "PENDING", "SENT", "FAILED"}]
AskRows == [kind : {"none", "refresh", "send", "retry"},
            at : {"none", "called", "stored", "refused", "rendered"},
            row : 0 .. ScreenRows, list : SUBSET (1 .. ScreenRows), writable : BOOLEAN]
TabRows == [shown : SUBSET (1 .. ScreenRows), draft : 0 .. MaxTexts, writable : BOOLEAN, request : AskRows]
\* The types, row by row.
ScreenShape ==
  /\ rows \in Seq(BubbleRows) /\ Len(rows) <= ScreenRows /\ open \in BOOLEAN
  /\ tab \in [Screeners -> TabRows]
  /\ written \in 0 .. MaxTexts /\ erased \subseteq 1 .. MaxTexts
\* What the tab t shows and asks, when the messages are ms: every bubble is of a message, an
\* attempt has the text of the draft, which nobody writes meanwhile, and the list of an answer
\* is of the messages there were, the bubbles of the tab among them.
TabTrue(t, ms) ==
  /\ tab[t].shown \subseteq 1 .. Len(ms)
  /\ Screens!Request(t).kind = "none" => Screens!Request(t).at = "none"
  /\ Screens!Request(t).kind = "send" => tab[t].draft # 0
  /\ Screens!Request(t).kind = "retry" => Screens!Request(t).row \in 1 .. Len(ms)
  /\ Screens!Request(t).kind = "send" /\ Screens!Request(t).at \in {"stored", "rendered"} =>
       Screens!Request(t).row \in 1 .. Len(ms) /\ ms[Screens!Request(t).row].text = tab[t].draft
  /\ Screens!Request(t).at = "rendered" =>
       \E n \in 0 .. Len(ms) : Screens!Request(t).list = Screens!Window(n) /\ tab[t].shown \subseteq 1 .. n
ScreensInv == ScreenShape /\ Screens!NothingLost /\ \A t \in Screeners : TabTrue(t, rows)

\* It holds at the start.
LEMMA ScreensInit == Screens!Init => ScreensInv
<1> SUFFICES ASSUME Screens!Init PROVE ScreensInv
  OBVIOUS
<1>a. ScreenRows \in Nat /\ MaxTexts \in Nat
  BY Bounds DEF Screens!ThreadViewAssumption
<1>1. Screens!Idle \in AskRows /\ Screens!Idle.kind = "none" /\ Screens!Idle.at = "none"
  BY <1>a DEF Screens!Idle, AskRows
<1>2. [shown |-> {}, draft |-> 0, writable |-> TRUE, request |-> Screens!Idle] \in TabRows
  BY <1>a, <1>1 DEF TabRows
<1>3. ScreenShape
  BY <1>a, <1>2 DEF Screens!Init, ScreenShape
<1>4. \A t \in Screeners : tab[t].shown = {} /\ Screens!Request(t) = Screens!Idle
  BY DEF Screens!Init, Screens!Request
<1>5. \A t \in Screeners : TabTrue(t, rows)
  BY <1>1, <1>4 DEF TabTrue
<1> QED BY <1>3, <1>5 DEF ScreensInv, Screens!NothingLost, Screens!Init

\* What the page takes of some messages is of them.
LEMMA WindowOf == \A n \in Nat : Screens!Window(n) \subseteq 1 .. n
BY DEF Screens!Window

\* A message more leaves what the tabs show and ask as it was.
LEMMA TabGrows ==
  ASSUME ScreensInv, NEW r \in BubbleRows, NEW t \in Screeners
  PROVE  TabTrue(t, Append(rows, r))
<1>1. rows \in Seq(BubbleRows) /\ Len(rows) \in Nat
  BY DEF ScreensInv, ScreenShape
<1>2. Len(Append(rows, r)) = Len(rows) + 1 /\ \A i \in 1 .. Len(rows) : Append(rows, r)[i] = rows[i]
  BY <1>1
<1>3. 1 .. Len(rows) \subseteq 1 .. Len(Append(rows, r)) /\ 0 .. Len(rows) \subseteq 0 .. Len(Append(rows, r))
  BY <1>1, <1>2
<1> DEFINE more == Append(rows, r)
<1>4. /\ 1 .. Len(rows) \subseteq 1 .. Len(more) /\ 0 .. Len(rows) \subseteq 0 .. Len(more)
      /\ \A i \in 1 .. Len(rows) : more[i] = rows[i]
  BY <1>2, <1>3
<1>5. TabTrue(t, rows)
  BY DEF ScreensInv
<1> HIDE DEF more
<1> SUFFICES TabTrue(t, more)
  BY DEF more
<1> QED BY <1>4, <1>5 DEF TabTrue

\* And what was erased was still sent.
LEMMA SentGrows ==
  ASSUME ScreensInv, NEW r \in BubbleRows, rows' = Append(rows, r), erased' = erased
  PROVE  Screens!NothingLost' /\ rows' \in Seq(BubbleRows) /\ Len(rows') = Len(rows) + 1
<1>1. rows \in Seq(BubbleRows) /\ Len(rows) \in Nat
  BY DEF ScreensInv, ScreenShape
<1>2. Len(rows') = Len(rows) + 1 /\ rows' \in Seq(BubbleRows) /\ \A i \in 1 .. Len(rows) : rows'[i] = rows[i]
  BY <1>1
<1>3. 1 .. Len(rows) \subseteq 1 .. Len(rows')
  BY <1>1, <1>2
<1> QED BY <1>2, <1>3 DEF ScreensInv, Screens!NothingLost

\* A step of a tab alone keeps the messages.
LEMMA TabMoves ==
  ASSUME ScreensInv, NEW t \in Screeners, NEW r \in TabRows, tab' = [tab EXCEPT ![t] = r],
         UNCHANGED <<rows, open>>, written' \in 0 .. MaxTexts,
         erased' \subseteq 1 .. MaxTexts, Screens!NothingLost', TabTrue(t, rows)'
  PROVE  ScreensInv'
<1>1. ScreenShape'
  BY DEF ScreensInv, ScreenShape
<1>2. ASSUME NEW u \in Screeners, u # t PROVE TabTrue(u, rows)'
  <2>1. tab'[u] = tab[u] /\ Screens!Request(u)' = Screens!Request(u)
    BY <1>2 DEF ScreensInv, ScreenShape, Screens!Request
  <2> QED BY <2>1 DEF ScreensInv, TabTrue
<1> QED BY <1>1, <1>2 DEF ScreensInv

\* A tab with another request, which shows and drafts the same.
LEMMA TabAsks ==
  ASSUME ScreensInv, NEW t \in Screeners, NEW q \in AskRows, tab' = [tab EXCEPT ![t].request = q],
         UNCHANGED <<rows, open, written, erased>>,
         q.at \in {"none", "called", "refused"}, q.kind = "none" => q.at = "none",
         q.kind = "send" => tab[t].draft # 0, q.kind = "retry" => q.row \in 1 .. Len(rows)
  PROVE  ScreensInv'
<1> DEFINE r == [tab[t] EXCEPT !.request = q]
<1>0. tab \in [Screeners -> TabRows]
  BY DEF ScreensInv, ScreenShape
<1>1. r \in TabRows /\ tab' = [tab EXCEPT ![t] = r]
  BY <1>0 DEF TabRows
<1>2. r.shown = tab[t].shown /\ r.draft = tab[t].draft /\ r.request = q
  BY <1>0 DEF TabRows
<1>3. tab'[t] = r
  BY <1>0, <1>1
<1> HIDE DEF r
<1>4. tab'[t].shown = tab[t].shown /\ tab'[t].draft = tab[t].draft /\ Screens!Request(t)' = q
  BY <1>2, <1>3 DEF Screens!Request
<1>5. TabTrue(t, rows)'
  BY <1>4 DEF ScreensInv, TabTrue
<1>6. Screens!NothingLost' /\ erased' \subseteq 1 .. MaxTexts /\ written' \in 0 .. MaxTexts
  BY DEF ScreensInv, Screens!NothingLost, ScreenShape
<1> QED BY <1>1, <1>5, <1>6, TabMoves

\* Every step keeps it, and hides no bubble that the page would show.
LEMMA ScreensStep == ScreensInv /\ [Screens!Next]_(Screens!vars) => ScreensInv' /\ Screens!NeverHiddenStep
<1> SUFFICES ASSUME ScreensInv, [Screens!Next]_(Screens!vars) PROVE ScreensInv' /\ Screens!NeverHiddenStep
  OBVIOUS
<1>a. ScreenRows \in Nat /\ MaxTexts \in Nat /\ ScreenLimit \in Nat
  BY Bounds DEF Screens!ThreadViewAssumption
<1>b. /\ rows \in Seq(BubbleRows) /\ Len(rows) \in Nat /\ Len(rows) <= ScreenRows /\ open \in BOOLEAN
      /\ tab \in [Screeners -> TabRows] /\ written \in 0 .. MaxTexts /\ erased \subseteq 1 .. MaxTexts
      /\ Screens!NothingLost /\ \A t \in Screeners : TabTrue(t, rows)
  BY DEF ScreensInv, ScreenShape
<1>c. /\ Screens!Idle \in AskRows /\ Screens!Idle.kind = "none" /\ Screens!Idle.at = "none"
  BY <1>a DEF Screens!Idle, AskRows
<1>d. \A t \in Screeners : tab[t].request \in AskRows /\ tab[t].draft \in 0 .. MaxTexts /\
        Screens!Request(t) = tab[t].request
  BY <1>b DEF TabRows, Screens!Request
<1>e. (\A t \in Screeners : tab'[t].shown = tab[t].shown) => Screens!NeverHiddenStep
  BY DEF Screens!NeverHiddenStep
<1>1. ASSUME Screens!Arrives PROVE ScreensInv' /\ Screens!NeverHiddenStep
  <2> DEFINE r == [text |-> 0, status |-> "NONE"]
  <2>1. r \in BubbleRows
    BY <1>a DEF BubbleRows
  <2>2. rows' = Append(rows, r) /\ UNCHANGED <<open, tab, written, erased>> /\ Len(rows) < ScreenRows
    BY <1>1 DEF Screens!Arrives
  <2> HIDE DEF r
  <2>3. Screens!NothingLost' /\ rows' \in Seq(BubbleRows) /\ Len(rows') = Len(rows) + 1
    BY <2>1, <2>2, SentGrows
  <2>4. ASSUME NEW t \in Screeners PROVE TabTrue(t, rows)'
    <3>1. TabTrue(t, rows')
      BY <2>1, <2>2, TabGrows
    <3>2. Screens!Request(t)' = Screens!Request(t)
      BY <2>2 DEF Screens!Request
    <3> QED BY <2>2, <3>1, <3>2 DEF TabTrue
  <2>5. Len(rows') <= ScreenRows
    BY <1>a, <1>b, <2>2, <2>3
  <2> QED BY <1>b, <1>e, <2>2, <2>3, <2>4, <2>5 DEF ScreensInv, ScreenShape
<1>2. ASSUME Screens!Changes \/ UNCHANGED Screens!vars PROVE ScreensInv' /\ Screens!NeverHiddenStep
  <2>1. UNCHANGED <<rows, tab, written, erased>> /\ open' \in BOOLEAN
    BY <1>b, <1>2 DEF Screens!Changes, Screens!vars
  <2>2. \A t \in Screeners : TabTrue(t, rows)'
    BY <1>b, <2>1 DEF TabTrue, Screens!Request
  <2> QED BY <1>b, <1>e, <2>1, <2>2 DEF ScreensInv, ScreenShape, Screens!NothingLost
<1>3. ASSUME NEW m \in 1 .. ScreenRows, Screens!Ends(m) PROVE ScreensInv' /\ Screens!NeverHiddenStep
  <2>1. PICK status \in {"SENT", "FAILED"} : rows' = [rows EXCEPT ![m].status = status]
    BY <1>3 DEF Screens!Ends
  <2>2. UNCHANGED <<open, tab, written, erased>> /\ m \in 1 .. Len(rows) /\ rows[m].status = "PENDING"
    BY <1>3 DEF Screens!Ends
  <2>3. rows[m] \in BubbleRows
    BY <1>b, <2>2
  <2>4. [rows[m] EXCEPT !.status = status] \in BubbleRows /\ [rows[m] EXCEPT !.status = status].text = rows[m].text
    BY <2>3 DEF BubbleRows
  <2>5. rows' \in Seq(BubbleRows) /\ Len(rows') = Len(rows)
    BY <1>b, <2>1, <2>2, <2>4
  <2>6. \A i \in 1 .. Len(rows) : rows'[i].text = rows[i].text /\
          (rows[i].status = "SENT" => rows'[i].status = "SENT")
    BY <1>b, <2>1, <2>2, <2>4
  <2>7. \A t \in Screeners : TabTrue(t, rows)'
    BY <1>b, <2>2, <2>5, <2>6 DEF TabTrue, Screens!Request
  <2>8. Screens!NothingLost'
    BY <1>b, <2>2, <2>5, <2>6 DEF Screens!NothingLost
  <2> QED BY <1>b, <1>e, <2>2, <2>5, <2>7, <2>8 DEF ScreensInv, ScreenShape
<1>4. ASSUME NEW t \in Screeners, Screens!Writes(t) PROVE ScreensInv' /\ Screens!NeverHiddenStep
  <2> DEFINE r == [tab[t] EXCEPT !.draft = written + 1]
  <2>1. written + 1 \in 0 .. MaxTexts
    BY <1>a, <1>b, <1>4 DEF Screens!Writes
  <2>2. r \in TabRows /\ r.shown = tab[t].shown /\ r.request = tab[t].request
    BY <1>b, <2>1 DEF TabRows
  <2>3. tab' = [tab EXCEPT ![t] = r] /\ UNCHANGED <<rows, open, erased>> /\ written' = written + 1
        /\ Screens!Request(t).kind # "send"
    BY <1>4 DEF Screens!Writes
  <2> HIDE DEF r
  <2>4. tab'[t] = r
    BY <1>b, <2>3
  <2>5. tab'[t].shown = tab[t].shown /\ Screens!Request(t)' = Screens!Request(t)
    BY <2>2, <2>4 DEF Screens!Request
  <2>6. TabTrue(t, rows)'
    BY <1>b, <2>3, <2>5 DEF TabTrue
  <2>7. ScreensInv'
    BY <1>b, <2>1, <2>2, <2>3, <2>6, TabMoves DEF Screens!NothingLost
  <2> QED BY <1>b, <1>e, <2>3, <2>5, <2>7
<1>5. ASSUME NEW t \in Screeners, NEW q \in AskRows, tab' = [tab EXCEPT ![t].request = q]
      PROVE  Screens!NeverHiddenStep
  <2>1. \A u \in Screeners : tab'[u].shown = tab[u].shown
    BY <1>b, <1>5 DEF TabRows
  <2> QED BY <1>e, <2>1
<1>6. ASSUME NEW t \in Screeners, Screens!Refreshes(t) \/ Screens!Sends(t)
        PROVE ScreensInv' /\ Screens!NeverHiddenStep
  <2>1. PICK kind \in {"refresh", "send"} :
          /\ tab' = [tab EXCEPT ![t].request = [Screens!Idle EXCEPT !.kind = kind, !.at = "called"]]
          /\ kind = "send" => tab[t].draft # 0
    BY <1>6 DEF Screens!Refreshes, Screens!Sends, Screens!Asks
  <2> DEFINE q == [Screens!Idle EXCEPT !.kind = kind, !.at = "called"]
  <2>2. q \in AskRows /\ q.kind = kind /\ q.at = "called"
    BY <1>c DEF AskRows
  <2>3. UNCHANGED <<rows, open, written, erased>>
    BY <1>6 DEF Screens!Refreshes, Screens!Sends
  <2>4. tab' = [tab EXCEPT ![t].request = q]
    BY <2>1
  <2> HIDE DEF q
  <2>5. Screens!NeverHiddenStep
    BY <1>5, <2>2, <2>4
  <2>6. ScreensInv'
    BY <2>1, <2>2, <2>3, <2>4, TabAsks
  <2> QED BY <2>5, <2>6
<1>7. ASSUME NEW t \in Screeners, NEW m \in 1 .. ScreenRows, Screens!Retries(t, m)
        PROVE ScreensInv' /\ Screens!NeverHiddenStep
  <2> DEFINE q == [Screens!Idle EXCEPT !.kind = "retry", !.at = "called", !.row = m]
  <2>0. m \in 0 .. ScreenRows
    BY <1>a
  <2>1. q \in AskRows /\ q.kind = "retry" /\ q.at = "called" /\ q.row = m
    BY <1>c, <2>0 DEF AskRows, Screens!Idle
  <2>2. tab' = [tab EXCEPT ![t].request = q] /\ UNCHANGED <<rows, open, written, erased>> /\ m \in tab[t].shown
    BY <1>7 DEF Screens!Retries, Screens!Retryable
  <2>3. m \in 1 .. Len(rows)
    BY <1>b, <2>2 DEF TabTrue
  <2> HIDE DEF q
  <2>4. Screens!NeverHiddenStep
    BY <1>5, <2>1, <2>2
  <2>5. ScreensInv'
    BY <2>1, <2>2, <2>3, TabAsks
  <2> QED BY <2>4, <2>5
<1>8. ASSUME NEW t \in Screeners, Screens!Fails(t) PROVE ScreensInv' /\ Screens!NeverHiddenStep
  <2>1. tab' = [tab EXCEPT ![t].request = Screens!Idle] /\ UNCHANGED <<rows, open, written, erased>>
    BY <1>8 DEF Screens!Fails, Screens!Released
  <2>2. ScreensInv'
    BY <1>c, <2>1, TabAsks
  <2> QED BY <1>c, <1>5, <2>1, <2>2
<1>9. ASSUME NEW t \in Screeners, Screens!Stores(t), ~ open PROVE ScreensInv' /\ Screens!NeverHiddenStep
  <2> DEFINE q == [tab[t].request EXCEPT !.at = "refused"]
  <2>1. q \in AskRows /\ q.kind = tab[t].request.kind /\ q.at = "refused" /\ q.row = tab[t].request.row
    BY <1>d DEF AskRows
  <2>2. tab' = [tab EXCEPT ![t].request.at = "refused"] /\ UNCHANGED <<rows, open, written, erased>>
        /\ tab[t].request.kind \in {"send", "retry"}
    BY <1>d, <1>9 DEF Screens!Stores
  <2>3. tab' = [tab EXCEPT ![t].request = q]
    BY <2>2
  <2>4. (q.kind = "send" => tab[t].draft # 0) /\ (q.kind = "retry" => q.row \in 1 .. Len(rows)) /\ q.kind # "none"
    BY <1>b, <1>d, <2>1, <2>2 DEF TabTrue
  <2> HIDE DEF q
  <2>5. Screens!NeverHiddenStep
    BY <1>5, <2>1, <2>3
  <2>6. ScreensInv'
    BY <2>1, <2>2, <2>3, <2>4, TabAsks
  <2> QED BY <2>5, <2>6
<1>10. ASSUME NEW t \in Screeners, Screens!Stores(t), open PROVE ScreensInv' /\ Screens!NeverHiddenStep
  <2> DEFINE text == IF tab[t].request.kind = "send" THEN tab[t].draft ELSE rows[tab[t].request.row].text
             r == Screens!Attempt(text)
             q == [tab[t].request EXCEPT !.at = "stored", !.row = Len(rows) + 1]
             s == [tab[t] EXCEPT !.request = q]
  <2>1. /\ tab[t].request.kind \in {"send", "retry"} /\ Len(rows) < ScreenRows
        /\ rows' = Append(rows, r)
        /\ tab' = [tab EXCEPT ![t].request.at = "stored", ![t].request.row = Len(rows) + 1]
        /\ UNCHANGED <<open, written, erased>>
    BY <1>d, <1>10 DEF Screens!Stores
  <2>2. text \in 0 .. MaxTexts
    <3>1. tab[t].request.kind = "retry" => tab[t].request.row \in 1 .. Len(rows)
      BY <1>b, <1>d DEF TabTrue
    <3>2. tab[t].request.kind = "retry" => rows[tab[t].request.row] \in BubbleRows
      BY <1>b, <3>1
    <3> QED BY <1>d, <2>1, <3>2 DEF BubbleRows
  <2>3. r \in BubbleRows /\ r.text = text
    BY <2>2 DEF Screens!Attempt, BubbleRows
  <2>4. Len(rows) + 1 \in 0 .. ScreenRows
    BY <1>a, <1>b, <2>1
  <2>5. q \in AskRows /\ q.kind = tab[t].request.kind /\ q.at = "stored" /\ q.row = Len(rows) + 1
    BY <1>d, <2>4 DEF AskRows
  <2>6. s \in TabRows /\ s.shown = tab[t].shown /\ s.draft = tab[t].draft /\ s.request = q
    BY <1>b, <2>5 DEF TabRows
  <2>7. tab' = [tab EXCEPT ![t] = s]
    BY <1>b, <2>1 DEF TabRows, AskRows
  <2>8. q.kind = "send" => r.text = tab[t].draft
    BY <2>3, <2>5
  <2> HIDE DEF text, r, q, s
  <2>9. tab'[t] = s /\ \A u \in Screeners : u # t => tab'[u] = tab[u]
    BY <1>b, <2>7
  <2>10. Screens!NothingLost' /\ rows' \in Seq(BubbleRows) /\ Len(rows') = Len(rows) + 1
    BY <2>1, <2>3, SentGrows
  <2>11. rows'[Len(rows) + 1] = r
    BY <1>b, <2>1
  <2>12. ASSUME NEW u \in Screeners PROVE TabTrue(u, rows)'
    <3>1. TabTrue(u, rows')
      BY <2>1, <2>3, TabGrows
    <3>2. CASE u # t
      <4>1. tab'[u] = tab[u] /\ Screens!Request(u)' = Screens!Request(u)
        BY <2>9, <3>2 DEF Screens!Request
      <4> QED BY <3>1, <4>1 DEF TabTrue
    <3>3. CASE u = t
      <4>1. tab'[u].shown = tab[u].shown /\ Screens!Request(u)' = q /\ tab'[u].draft = tab[u].draft
        BY <2>6, <2>9, <3>3 DEF Screens!Request
      <4>2. Len(rows) + 1 \in 1 .. Len(rows')
        BY <1>b, <2>10
      <4>3. tab[u].shown \subseteq 1 .. Len(rows')
        BY <3>1 DEF TabTrue
      <4>4. q.kind = "send" => tab[u].draft # 0
        BY <1>b, <1>d, <2>5, <3>3 DEF TabTrue
      <4>5. q.kind # "none"
        BY <2>1, <2>5
      <4> QED BY <2>5, <2>8, <2>11, <3>3, <4>1, <4>2, <4>3, <4>4, <4>5 DEF TabTrue
    <3> QED BY <3>2, <3>3
  <2>13. tab' \in [Screeners -> TabRows]
    BY <1>b, <2>6, <2>7
  <2>14. Len(rows') <= ScreenRows
    BY <1>a, <1>b, <2>1, <2>10
  <2>15. Screens!NeverHiddenStep
    BY <1>e, <2>6, <2>9
  <2> QED BY <1>b, <2>1, <2>10, <2>12, <2>13, <2>14, <2>15 DEF ScreensInv, ScreenShape
<1>11. ASSUME NEW t \in Screeners, Screens!Renders(t) PROVE ScreensInv' /\ Screens!NeverHiddenStep
  <2> DEFINE list == Screens!Window(Len(rows))
             q == [tab[t].request EXCEPT !.at = "rendered", !.writable = open, !.list = list]
             s == [tab[t] EXCEPT !.request = q]
  <2>1. list \subseteq 1 .. ScreenRows
    <3>1. list \subseteq 1 .. Len(rows)
      BY <1>b, WindowOf
    <3> QED BY <1>a, <1>b, <3>1
  <2>2. q \in AskRows /\ q.kind = tab[t].request.kind /\ q.at = "rendered" /\ q.row = tab[t].request.row /\
          q.list = list
    BY <1>b, <1>d, <2>1 DEF AskRows
  <2>3. s \in TabRows /\ s.shown = tab[t].shown /\ s.draft = tab[t].draft /\ s.request = q
    BY <1>b, <2>2 DEF TabRows
  <2>4. tab' = [tab EXCEPT ![t].request = q] /\ UNCHANGED <<rows, open, written, erased>>
    BY <1>11 DEF Screens!Renders
  <2>5. tab' = [tab EXCEPT ![t] = s]
    BY <2>4
  <2>6. \/ tab[t].request.kind = "refresh" /\ tab[t].request.at = "called"
        \/ tab[t].request.at = "stored"
    BY <1>d, <1>11 DEF Screens!Renders
  <2> HIDE DEF list, q, s
  <2>7. tab'[t].shown = tab[t].shown /\ tab'[t].draft = tab[t].draft /\ Screens!Request(t)' = q
    <3>1. tab'[t] = s
      BY <1>b, <2>5
    <3> QED BY <2>3, <3>1 DEF Screens!Request
  <2>8. tab[t].shown \subseteq 1 .. Len(rows)
    BY <1>b DEF TabTrue
  <2>9. \E n \in 0 .. Len(rows) : q.list = Screens!Window(n) /\ tab[t].shown \subseteq 1 .. n
    <3>1. Len(rows) \in 0 .. Len(rows)
      BY <1>b
    <3> QED BY <2>2, <2>8, <3>1 DEF list
  <2>10. TabTrue(t, rows)'
    <3>1. /\ q.kind # "none"
          /\ q.kind = "send" => tab[t].draft # 0
          /\ q.kind = "retry" => q.row \in 1 .. Len(rows)
          /\ q.kind = "send" => q.row \in 1 .. Len(rows) /\ rows[q.row].text = tab[t].draft
      BY <1>b, <1>d, <2>2, <2>6 DEF TabTrue
    <3> QED BY <2>4, <2>7, <2>8, <2>9, <3>1 DEF TabTrue
  <2>11. Screens!NothingLost'
    BY <1>b, <2>4 DEF Screens!NothingLost
  <2>12. ScreensInv'
    BY <1>b, <2>3, <2>4, <2>5, <2>10, <2>11, TabMoves
  <2> QED BY <1>5, <2>2, <2>4, <2>12
<1>12. ASSUME NEW t \in Screeners, Screens!Answered(t) PROVE ScreensInv' /\ Screens!NeverHiddenStep
  <2> DEFINE q == tab[t].request
             shown == q.list \cup (IF q.kind = "refresh" THEN {} ELSE {q.row})
             draft == IF Screens!Accepted(t) THEN 0 ELSE tab[t].draft
             s == [tab[t] EXCEPT !.shown = shown, !.writable = q.writable, !.draft = draft, !.request =
                 Screens!Idle]
  <2>1. /\ tab' = [tab EXCEPT ![t] = s] /\ UNCHANGED <<rows, open, written>>
        /\ erased' = IF Screens!Accepted(t) THEN erased \cup {tab[t].draft} ELSE erased
        /\ q.at = "rendered"
    BY <1>b, <1>d, <1>12 DEF Screens!Answered, TabRows
  <2>2. PICK n \in 0 .. Len(rows) : q.list = Screens!Window(n) /\ tab[t].shown \subseteq 1 .. n
    BY <1>b, <1>d, <2>1 DEF TabTrue
  <2>3. /\ q.kind # "none"
        /\ q.kind # "refresh" => q.row \in 1 .. Len(rows)
        /\ q.kind = "send" => rows[q.row].text = tab[t].draft /\ tab[t].draft # 0
    BY <1>b, <1>d, <2>1 DEF TabTrue, AskRows
  <2>4. q.list \subseteq 1 .. Len(rows)
    <3>1. q.list \subseteq 1 .. n
      BY <2>2, WindowOf
    <3> QED BY <1>b, <3>1
  <2>5. shown \subseteq 1 .. Len(rows) /\ q.list \subseteq shown
    BY <2>3, <2>4
  <2>6. shown \subseteq 1 .. ScreenRows
    BY <1>a, <1>b, <2>5
  <2>7. draft \in 0 .. MaxTexts /\ q.writable \in BOOLEAN
    BY <1>a, <1>d DEF AskRows
  <2> HIDE DEF shown, draft
  <2>8. s \in TabRows /\ s.shown = shown /\ s.request = Screens!Idle
    BY <1>b, <1>c, <2>6, <2>7 DEF TabRows
  <2> HIDE DEF s
  <2>9. tab'[t] = s /\ \A u \in Screeners : u # t => tab'[u] = tab[u]
    BY <1>b, <2>1
  <2>10. TabTrue(t, rows)'
    <3>1. tab'[t].shown = shown /\ Screens!Request(t)' = Screens!Idle
      BY <2>8, <2>9 DEF Screens!Request
    <3> QED BY <1>c, <2>1, <2>5, <3>1 DEF TabTrue
  <2>11. Screens!NothingLost' /\ erased' \subseteq 1 .. MaxTexts
    <3>1. CASE Screens!Accepted(t)
      <4>1. q.kind = "send" /\ rows[q.row].status = "SENT"
        BY <1>d, <3>1 DEF Screens!Accepted
      <4>2. tab[t].draft \in 1 .. MaxTexts
        BY <1>a, <1>d, <2>3, <4>1
      <4>3. erased' = erased \cup {tab[t].draft}
        BY <2>1, <3>1
      <4> QED BY <1>b, <2>1, <2>3, <4>1, <4>2, <4>3 DEF Screens!NothingLost
    <3>2. CASE ~ Screens!Accepted(t)
      BY <1>b, <2>1, <3>2 DEF Screens!NothingLost
    <3> QED BY <3>1, <3>2
  <2>12. ScreensInv'
    BY <1>b, <2>1, <2>8, <2>10, <2>11, TabMoves
  <2>13. tab[t].shown \ tab'[t].shown \subseteq 1 .. (Len(rows') - ScreenLimit)
    <3>1. SUFFICES ASSUME NEW i \in tab[t].shown, i \notin q.list PROVE i \in 1 .. (Len(rows') - ScreenLimit)
      BY <2>5, <2>8, <2>9
    <3>2. i \in 1 .. n /\ ~ (i + ScreenLimit > n)
      BY <2>2, <3>1 DEF Screens!Window
    <3> QED BY <1>a, <1>b, <2>1, <3>2
  <2>14. \A u \in Screeners : u # t => tab[u].shown \ tab'[u].shown = {}
    BY <2>9
  <2> QED BY <2>12, <2>13, <2>14 DEF Screens!NeverHiddenStep
<1> QED BY <1>1, <1>2, <1>3, <1>4, <1>6, <1>7, <1>8, <1>9, <1>10, <1>11, <1>12 DEF Screens!Next, Screens!Ids

\* What is promised of the thread.
LEMMA ScreensHold == ScreensInv => Screens!TypeOK /\ Screens!NothingLost
<1> SUFFICES ASSUME ScreensInv PROVE Screens!TypeOK /\ Screens!NothingLost
  OBVIOUS
<1>1. \A i \in 1 .. Len(rows) : rows[i] \in BubbleRows
  BY DEF ScreensInv, ScreenShape
<1>2. tab \in [Screeners -> TabRows]
  BY DEF ScreensInv, ScreenShape
<1>3. Screens!TypeOK
  BY <1>1, <1>2 DEF ScreensInv, ScreenShape, Screens!TypeOK, Screens!Ids, BubbleRows, AskRows, TabRows
<1> QED BY <1>3 DEF ScreensInv

------------------------------------------------------------------------------
(***************************************************************************)
(* The pages of the inbox.                                                 *)
(***************************************************************************)
\* The order of the inbox by the instants of a function, and how many come before in a set.
Dates == [1 .. InboxSize -> Nat]
Newer(dates, c, d) == dates[c] > dates[d] \/ (dates[c] = dates[d] /\ c > d)
Ahead(dates, those, c) == {d \in those : Newer(dates, d, c)}
Place(dates, those, c) == Cardinality(Ahead(dates, those, c))

\* Of two conversations one comes first.
LEMMA NewerTotal ==
  ASSUME NEW dates \in Dates, NEW c \in 1 .. InboxSize, NEW d \in 1 .. InboxSize
  PROVE  c = d \/ Newer(dates, c, d) \/ Newer(dates, d, c)
<1>1. c \in Int /\ d \in Int /\ dates[c] \in Nat /\ dates[d] \in Nat
  BY DEF Dates
<1> QED BY <1>1 DEF Newer

\* The conversations are finitely many.
LEMMA PlaceFinite ==
  ASSUME NEW those \in SUBSET (1 .. InboxSize)
  PROVE  IsFiniteSet(those) /\ Cardinality(those) \in Nat
<1>1. InboxSize \in Int
  BY Bounds DEF Pages!InboxPagesAssumption
<1>2. IsFiniteSet(1 .. InboxSize)
  BY <1>1, FS_Interval
<1> QED BY <1>2, FS_Subset, FS_CardinalityType

\* A place is a number.
LEMMA PlaceType ==
  ASSUME NEW dates, NEW those \in SUBSET (1 .. InboxSize), NEW c
  PROVE  Place(dates, those, c) \in Nat
<1>1. Ahead(dates, those, c) \in SUBSET (1 .. InboxSize)
  BY DEF Ahead
<1> QED BY <1>1, PlaceFinite DEF Place

\* Who comes before has a smaller place.
LEMMA PlaceGrows ==
  ASSUME NEW dates \in Dates, NEW those \in SUBSET (1 .. InboxSize), NEW c \in those, NEW d \in those,
         Newer(dates, c, d)
  PROVE  Place(dates, those, c) < Place(dates, those, d)
<1> DEFINE A == Ahead(dates, those, c)
           B == Ahead(dates, those, d)
<1>1. ASSUME NEW e \in A PROVE e \in B
  <2>1. e \in those /\ e \in Int /\ c \in Int /\ d \in Int
        /\ dates[e] \in Nat /\ dates[c] \in Nat /\ dates[d] \in Nat
    BY DEF Ahead, Dates
  <2>2. Newer(dates, e, c)
    BY DEF Ahead
  <2>3. Newer(dates, e, d)
    BY <2>1, <2>2 DEF Newer
  <2> QED BY <2>1, <2>3 DEF Ahead
<1>2. c \in B
  BY DEF Ahead
<1>3. c \notin A
  <2>1. c \in Int /\ dates[c] \in Nat
    BY DEF Dates
  <2> QED BY <2>1 DEF Ahead, Newer
<1>4. B \in SUBSET (1 .. InboxSize)
  BY DEF Ahead
<1>5. IsFiniteSet(B)
  BY <1>4, PlaceFinite
<1>6. A \subseteq B /\ A # B
  BY <1>1, <1>2, <1>3
<1>7. Cardinality(A) < Cardinality(B)
  <2> HIDE DEF A, B
  <2>1. Cardinality(A) <= Cardinality(B)
    BY <1>5, <1>6, FS_Subset
  <2>2. Cardinality(A) # Cardinality(B)
    BY <1>5, <1>6, FS_Subset
  <2>3. Cardinality(A) \in Nat /\ Cardinality(B) \in Nat
    BY <1>5, <1>6, FS_Subset, FS_CardinalityType
  <2> QED BY <2>1, <2>2, <2>3
<1> QED BY <1>7 DEF Place

\* Some conversation comes first in a set.
LEMMA FirstPlace ==
  ASSUME NEW dates \in Dates, NEW those \in SUBSET (1 .. InboxSize), NEW some \in SUBSET those, some # {}
  PROVE  \E f \in some : \A d \in some : ~ Newer(dates, d, f)
<1> DEFINE Places == {Place(dates, those, c) : c \in some}
<1>1. Places \subseteq Nat
  BY PlaceType
<1>2. Places # {}
  OBVIOUS
<1>3. PICK k \in Places : \A j \in Places : k <= j
  <2> HIDE DEF Places
  <2> QED BY <1>1, <1>2, Smallest
<1>4. PICK f \in some : Place(dates, those, f) = k
  OBVIOUS
<1>5. ASSUME NEW d \in some, Newer(dates, d, f) PROVE FALSE
  <2>1. Place(dates, those, d) < Place(dates, those, f)
    BY <1>5, PlaceGrows
  <2>2. k <= Place(dates, those, d)
    BY <1>3
  <2>3. Place(dates, those, d) \in Nat /\ Place(dates, those, f) \in Nat
    BY PlaceType
  <2> QED BY <1>4, <2>1, <2>2, <2>3
<1> QED BY <1>5

\* When the rows are no more than a page, they are all there are.
LEMMA LastPage ==
  ASSUME NEW dates \in Dates, NEW those \in SUBSET (1 .. InboxSize), NEW size \in Nat,
         NEW got \in SUBSET those,
         got = {c \in those : Place(dates, those, c) < size + 1}, ~ (Cardinality(got) > size)
  PROVE  got = those
<1> DEFINE Left == {c \in those : Place(dates, those, c) >= size + 1}
<1>1. SUFFICES ASSUME Left # {} PROVE FALSE
  <2>1. \A c \in those : Place(dates, those, c) \in Nat
    BY PlaceType
  <2>2. ASSUME Left = {}, NEW c \in those PROVE c \in got
    <3>1. ~ (Place(dates, those, c) >= size + 1)
      BY <2>2
    <3>2. Place(dates, those, c) < size + 1
      BY <2>1, <3>1
    <3> QED BY <3>2
  <2>3. Left = {} => got = those
    BY <2>2
  <2> QED BY <2>3
<1>2. PICK f \in Left : \A d \in Left : ~ Newer(dates, d, f)
  BY <1>1, FirstPlace
<1>3. ASSUME NEW d \in Ahead(dates, those, f) PROVE d \in got
  <2>1. d \in those /\ Newer(dates, d, f)
    BY DEF Ahead
  <2>2. d \notin Left
    BY <1>2, <2>1
  <2>3. ~ (Place(dates, those, d) >= size + 1) /\ Place(dates, those, d) \in Nat
    BY <2>1, <2>2, PlaceType
  <2>4. Place(dates, those, d) < size + 1
    BY <2>3
  <2> QED BY <2>1, <2>4
<1>4. IsFiniteSet(got) /\ Cardinality(got) \in Nat
  BY PlaceFinite
<1>5. Cardinality(Ahead(dates, those, f)) <= Cardinality(got)
  <2>1. Ahead(dates, those, f) \subseteq got
    BY <1>3
  <2> QED BY <1>4, <2>1, FS_Subset
<1>6. Place(dates, those, f) >= size + 1 /\ Place(dates, those, f) \in Nat
  BY PlaceType
<1>7. Place(dates, those, f) <= Cardinality(got)
  BY <1>5 DEF Place
<1> QED BY <1>4, <1>6, <1>7

\* When there are more, the page has a last row.
LEMMA LastRow ==
  ASSUME NEW dates \in Dates, NEW those \in SUBSET (1 .. InboxSize), NEW size \in Nat \ {0}, those # {},
         NEW seen \in SUBSET those, seen = {c \in those : Place(dates, those, c) < size}
  PROVE  \E n \in seen : \A d \in seen \ {n} : Newer(dates, d, n)
<1>1. PICK f \in those : \A d \in those : ~ Newer(dates, d, f)
  BY FirstPlace
<1>2. Ahead(dates, those, f) = {}
  BY <1>1 DEF Ahead
<1>3. Place(dates, those, f) = 0
  BY <1>2, FS_EmptySet DEF Place
<1>4. f \in seen
  BY <1>3
<1> DEFINE Places == {Place(dates, those, c) + 1 : c \in seen}
<1>5. \A c \in seen : Place(dates, those, c) \in Nat
  BY PlaceType
<1>6. Places \subseteq 1 .. size /\ Places # {}
  BY <1>4, <1>5
<1>7. PICK k \in Places : \A j \in Places : k >= j
  <2> HIDE DEF Places
  <2> QED BY <1>6, Largest
<1>8. PICK n \in seen : k = Place(dates, those, n) + 1
  OBVIOUS
<1>9. ASSUME NEW d \in seen \ {n} PROVE Newer(dates, d, n)
  <2>1. d \in 1 .. InboxSize /\ n \in 1 .. InboxSize
    OBVIOUS
  <2>2. SUFFICES ASSUME Newer(dates, n, d) PROVE FALSE
    BY <2>1, NewerTotal
  <2>3. Place(dates, those, n) < Place(dates, those, d)
    BY <2>2, PlaceGrows
  <2>4. k >= Place(dates, those, d) + 1
    BY <1>7
  <2> QED BY <1>5, <1>8, <2>3, <2>4
<1> QED BY <1>9

------------------------------------------------------------------------------
\* The reader: a conversation without new messages was shown, or comes after the cursor.
PageReaders == [pc : {"first", "more", "end"}, cursor : 0 .. InboxSize,
               shown : [1 .. InboxSize -> Nat], quiet : SUBSET (1 .. InboxSize)]
PagesShape ==
  /\ last \in [1 .. InboxSize -> 0 .. PagesTime] /\ pagesClock \in 0 .. PagesTime
  /\ pagesReader \in PageReaders
  /\ \A c \in 1 .. InboxSize : last[c] <= pagesClock
\* What is still to be shown of a conversation.
Reached(c) ==
  /\ pagesReader.pc = "more" => pagesReader.shown[c] >= 1 \/ Newer(last, pagesReader.cursor, c)
  /\ pagesReader.pc = "end" => pagesReader.shown[c] >= 1
PagesInv ==
  /\ PagesShape
  /\ pagesReader.pc = "first" => pagesReader.cursor = 0
  /\ pagesReader.pc = "more" => pagesReader.cursor \in 1 .. InboxSize
  /\ \A c \in pagesReader.quiet : Reached(c)

\* What is promised of the pages.
LEMMA PagesHold == PagesInv => Pages!TypeOK /\ Pages!QuietShown
<1> SUFFICES ASSUME PagesInv PROVE Pages!TypeOK /\ Pages!QuietShown
  OBVIOUS
<1>1. Pages!TypeOK
  BY DEF PagesInv, PagesShape, PageReaders, Pages!TypeOK, Pages!Ids
<1>2. Pages!QuietShown
  BY DEF PagesInv, Reached, Pages!QuietShown
<1> QED BY <1>1, <1>2

\* Nothing was shown at the start.
LEMMA PagesInit == Pages!Init => PagesInv
<1> SUFFICES ASSUME Pages!Init PROVE PagesInv
  OBVIOUS
<1>1. PagesTime \in Nat /\ InboxSize \in Nat
  BY Bounds DEF Pages!InboxPagesAssumption
<1>2. pagesClock = PagesTime \div 2 /\ last \in [1 .. InboxSize -> 0 .. pagesClock]
      /\ pagesReader = Pages!Begin
  BY DEF Pages!Init, Pages!Ids
<1>3. pagesClock \in 0 .. PagesTime
  BY <1>1, <1>2
<1>4. last \in [1 .. InboxSize -> 0 .. PagesTime]
  BY <1>1, <1>2, <1>3
<1>5. pagesReader \in PageReaders /\ pagesReader.pc = "first" /\ pagesReader.cursor = 0
  BY <1>1, <1>2 DEF Pages!Begin, Pages!Ids, PageReaders
<1>6. \A c \in 1 .. InboxSize : last[c] <= pagesClock
  BY <1>2, <1>3, <1>1
<1>7. PagesShape
  BY <1>3, <1>4, <1>5, <1>6 DEF PagesShape
<1> QED BY <1>5, <1>7 DEF PagesInv, Reached

\* A message only moves its conversation up: what comes after the cursor stays after it.
LEMMA ArrivesKeeps ==
  ASSUME PagesInv, NEW c \in Pages!Ids, Pages!Arrives(c) PROVE PagesInv'
<1>0. PagesTime \in Nat /\ InboxSize \in Nat /\ c \in 1 .. InboxSize /\ PagesShape
  BY Bounds DEF Pages!InboxPagesAssumption, Pages!Ids, PagesInv
<1>1. PICK t \in pagesClock .. pagesClock + 1 :
        t <= PagesTime /\ pagesClock' = t /\ last' = [last EXCEPT ![c] = t]
  BY DEF Pages!Arrives
<1>2. pagesReader' = IF pagesReader.pc = "more" THEN [pagesReader EXCEPT !.quiet = @ \ {c}] ELSE pagesReader
  BY DEF Pages!Arrives
<1>3. t \in 0 .. PagesTime /\ t >= pagesClock
  BY <1>0, <1>1 DEF PagesShape
<1>4. last' \in [1 .. InboxSize -> 0 .. PagesTime]
  BY <1>0, <1>1, <1>3 DEF PagesShape
<1>5. pagesReader' \in PageReaders /\ pagesReader'.pc = pagesReader.pc
      /\ pagesReader'.cursor = pagesReader.cursor /\ pagesReader'.shown = pagesReader.shown
      /\ pagesReader'.quiet \subseteq pagesReader.quiet
      /\ (pagesReader.pc = "more" => c \notin pagesReader'.quiet)
  BY <1>0, <1>2 DEF PagesShape, PageReaders
<1>6. \A d \in 1 .. InboxSize : last'[d] \in Nat /\ last[d] \in Nat /\ last'[d] >= last[d] /\
        (d # c => last'[d] = last[d])
  BY <1>0, <1>1, <1>3, <1>4 DEF PagesShape
<1>7. \A d \in 1 .. InboxSize : last'[d] <= pagesClock'
  BY <1>0, <1>1, <1>3, <1>6 DEF PagesShape
<1>8. PagesShape'
  BY <1>1, <1>3, <1>4, <1>5, <1>7 DEF PagesShape, PageReaders
<1>9. ASSUME NEW d \in pagesReader'.quiet PROVE Reached(d)'
  <2>1. Reached(d) /\ d \in pagesReader.quiet /\ d \in 1 .. InboxSize
    BY <1>0, <1>5 DEF PagesInv, PagesShape, PageReaders
  <2>2. ASSUME pagesReader.pc = "more", Newer(last, pagesReader.cursor, d)
        PROVE  Newer(last', pagesReader'.cursor, d)
    <3>1. d # c /\ pagesReader.cursor \in 1 .. InboxSize
      BY <1>5, <2>2 DEF PagesInv
    <3> QED BY <1>5, <1>6, <2>1, <2>2, <3>1 DEF Newer
  <2> QED BY <1>5, <2>1, <2>2 DEF Reached
<1> QED BY <1>5, <1>8, <1>9 DEF PagesInv

\* A page shows what comes next, and its last row is before the rest.
LEMMA ReadsPageKeeps ==
  ASSUME PagesInv, Pages!ReadsPage PROVE PagesInv'
<1> DEFINE S == Pages!Rest
           R == Pages!Rows
           P == Pages!Page(R)
           M == Pages!HasMore(R)
           N == Pages!NextCursor(R)
<1>0. PagesTime \in Nat /\ InboxSize \in Nat /\ InboxPage \in Nat \ {0} /\ PagesShape
  BY Bounds DEF Pages!InboxPagesAssumption, PagesInv
<1>1. last \in Dates
  BY <1>0 DEF PagesShape, Dates
<1>2. S \in SUBSET (1 .. InboxSize)
  BY DEF Pages!Rest, Pages!Ids
<1>3. \A c, d : Pages!Above(c, d) <=> Newer(last, c, d)
  BY DEF Pages!Above, Newer
<1>4. \A c : Pages!Rank(c) = Place(last, S, c)
  <2>1. \A those : Pages!Cardinality(those) = Cardinality(those)
    BY DEF Pages!Cardinality, Cardinality
  <2>2. \A c : {d \in S : Pages!Above(d, c)} = Ahead(last, S, c)
    BY <1>3 DEF Ahead
  <2> QED BY <2>1, <2>2 DEF Pages!Rank, Place
<1>5. R = {c \in S : Place(last, S, c) < InboxPage + 1} /\ R \in SUBSET S
  BY <1>4 DEF Pages!Rows
<1>6. M <=> Cardinality(R) > InboxPage
  BY DEF Pages!HasMore, Pages!Cardinality, Cardinality
<1>7. \A c \in S : Place(last, S, c) \in Nat
  BY <1>2, PlaceType
<1>8. ASSUME ~ M PROVE P = S
  <2>1. R = S
    <3> HIDE DEF R, S
    <3> QED BY <1>0, <1>1, <1>2, <1>5, <1>6, <1>8, LastPage
  <2> QED BY <1>8, <2>1 DEF Pages!Page
<1>9. ASSUME M PROVE /\ P = {c \in S : Place(last, S, c) < InboxPage}
                     /\ N \in P /\ \A c \in S \ P : Newer(last, N, c)
  <2>1. P = {c \in S : Place(last, S, c) < InboxPage} /\ P \in SUBSET S
    <3>1. P = {c \in R : Place(last, S, c) < InboxPage}
      BY <1>4, <1>9 DEF Pages!Page
    <3> HIDE DEF P, R, S
    <3> QED BY <1>0, <1>5, <1>7, <3>1
  <2>2. S # {}
    <3>1. R # {}
      <4>1. R = {} => Cardinality(R) = 0
        BY FS_EmptySet
      <4> HIDE DEF R
      <4> QED BY <1>0, <1>6, <1>9, <4>1
    <3> QED BY <1>5, <3>1
  <2>3. \E n \in P : \A d \in P \ {n} : Newer(last, d, n)
    <3> HIDE DEF P, S
    <3> QED BY <1>0, <1>1, <1>2, <2>1, <2>2, LastRow
  <2>4. \E n \in P : \A d \in P \ {n} : Pages!Above(d, n)
    BY <1>3, <2>3
  <2>5. N \in P
    BY <2>4 DEF Pages!NextCursor
  <2>6. ASSUME NEW c \in S \ P PROVE Newer(last, N, c)
    <3> HIDE DEF P, S, N
    <3>1. N \in S /\ c \in S /\ N \in 1 .. InboxSize /\ c \in 1 .. InboxSize /\ N # c
      BY <1>2, <2>1, <2>5
    <3>2. Place(last, S, N) < InboxPage /\ ~ (Place(last, S, c) < InboxPage)
      BY <2>1, <2>5
    <3>3. SUFFICES ASSUME Newer(last, c, N) PROVE FALSE
      BY <1>1, <3>1, NewerTotal
    <3>4. Place(last, S, c) < Place(last, S, N)
      BY <1>1, <1>2, <3>1, <3>3, PlaceGrows
    <3> QED BY <1>0, <1>7, <3>1, <3>2, <3>4
  <2> QED BY <2>1, <2>5, <2>6
<1>10. P \subseteq S
  BY <1>8, <1>9
<1>11. /\ pagesReader.pc # "end"
       /\ pagesReader' = [pagesReader EXCEPT
            !.shown = [c \in 1 .. InboxSize |-> pagesReader.shown[c] + IF c \in P THEN 1 ELSE 0],
            !.pc = IF M THEN "more" ELSE "end",
            !.cursor = IF M THEN N ELSE 0]
       /\ last' = last /\ pagesClock' = pagesClock
  BY DEF Pages!ReadsPage, Pages!Ids, Pages!AtEnd
<1>12. pagesReader \in PageReaders
  BY <1>0 DEF PagesShape
<1>13. M => N \in 1 .. InboxSize
  BY <1>2, <1>9, <1>10
<1>14. [c \in 1 .. InboxSize |-> pagesReader.shown[c] + IF c \in P THEN 1 ELSE 0] \in [1 .. InboxSize -> Nat]
  <2> DEFINE One(c) == IF c \in P THEN 1 ELSE 0
  <2>1. \A c : One(c) \in Nat
    OBVIOUS
  <2>2. \A c \in 1 .. InboxSize : pagesReader.shown[c] \in Nat
    BY <1>12 DEF PageReaders
  <2> HIDE DEF One, P
  <2>3. \A c \in 1 .. InboxSize : pagesReader.shown[c] + One(c) \in Nat
    BY <2>1, <2>2
  <2> QED BY <2>3 DEF One
<1> HIDE DEF P, S, N, R, M
<1>15. pagesReader' \in PageReaders
  <2> DEFINE ShownNow == [c \in 1 .. InboxSize |-> pagesReader.shown[c] + IF c \in P THEN 1 ELSE 0]
             Onward == IF M THEN "more" ELSE "end"
             Cursor == IF M THEN N ELSE 0
  <2>1. Cursor \in 0 .. InboxSize /\ Onward \in {"first", "more", "end"}
    BY <1>0, <1>13
  <2>2. ShownNow \in [1 .. InboxSize -> Nat]
    BY <1>14
  <2>3. pagesReader' = [pagesReader EXCEPT !.shown = ShownNow, !.pc = Onward, !.cursor = Cursor]
    BY <1>11
  <2> HIDE DEF ShownNow, Onward, Cursor
  <2> QED BY <1>12, <2>1, <2>2, <2>3 DEF PageReaders
<1>16. /\ pagesReader'.pc = (IF M THEN "more" ELSE "end")
       /\ pagesReader'.cursor = (IF M THEN N ELSE 0)
       /\ pagesReader'.quiet = pagesReader.quiet
       /\ \A c \in 1 .. InboxSize : pagesReader'.shown[c] = pagesReader.shown[c] + IF c \in P THEN 1 ELSE 0
  BY <1>11, <1>12 DEF PageReaders
<1>17. PagesShape'
  BY <1>0, <1>11, <1>15 DEF PagesShape, PageReaders
<1>18. ASSUME NEW c \in pagesReader'.quiet PROVE Reached(c)'
  <2>1. c \in pagesReader.quiet /\ c \in 1 .. InboxSize /\ Reached(c) /\ pagesReader.shown[c] \in Nat
    BY <1>12, <1>16 DEF PagesInv, PageReaders
  <2>2. pagesReader'.shown[c] >= pagesReader.shown[c] /\ (c \in P => pagesReader'.shown[c] >= 1)
    BY <1>16, <2>1
  <2>3. CASE pagesReader.shown[c] >= 1
    <3>1. pagesReader'.shown[c] >= 1
      BY <1>16, <2>1, <2>3
    <3> QED BY <3>1 DEF Reached
  <2>4. CASE ~ (pagesReader.shown[c] >= 1)
    <3>1. pagesReader.pc \in {"first", "more"}
      BY <1>11, <1>12 DEF PageReaders
    <3>2. pagesReader.cursor = 0 \/ Newer(last, pagesReader.cursor, c)
      BY <2>1, <2>4, <3>1 DEF Reached, PagesInv
    <3>3. c \in S
      BY <1>3, <2>1, <3>2 DEF S, Pages!Rest, Pages!Ids
    <3>4. CASE c \in P
      BY <2>2, <3>4 DEF Reached
    <3>5. CASE c \notin P
      <4>1. M /\ Newer(last, N, c)
        BY <1>8, <1>9, <3>3, <3>5
      <4> QED BY <1>11, <1>16, <4>1 DEF Reached
    <3> QED BY <3>4, <3>5
  <2> QED BY <2>3, <2>4
<1> QED BY <1>13, <1>16, <1>17, <1>18 DEF PagesInv

\* No step of the pages loses a conversation.
LEMMA PagesStep == PagesInv /\ [Pages!Next]_(Pages!vars) => PagesInv'
<1> SUFFICES ASSUME PagesInv, [Pages!Next]_(Pages!vars) PROVE PagesInv'
  OBVIOUS
<1>1. CASE UNCHANGED Pages!vars
  <2>1. UNCHANGED <<last, pagesClock, pagesReader>>
    BY <1>1 DEF Pages!vars
  <2> QED BY <2>1 DEF PagesInv, PagesShape, Reached
<1>2. CASE Pages!ReadsPage
  BY <1>2, ReadsPageKeeps
<1>3. CASE \E c \in Pages!Ids : Pages!Arrives(c)
  BY <1>3, ArrivesKeeps
<1> QED BY <1>1, <1>2, <1>3 DEF Pages!Next

------------------------------------------------------------------------------
(***************************************************************************)
(* One run of the model.                                                   *)
(***************************************************************************)

\* What is kept of the history begins with the customer, if anything is.
LEMMA KeptFromUser ==
  ASSUME NEW h \in Beginnings
  PROVE  LET kept == Rounds!Normalized(h)
         IN  kept \in Seq(Rounds!Roles) /\ (Len(kept) > 0 => kept[1] = "user")
<1>1. h \in Seq(Rounds!Roles)
  BY DEF Beginnings, Rounds!Roles
<1>d. DOMAIN h = 1 .. Len(h) /\ Len(h) \in Nat
  BY <1>1
<1>2. CASE \E i \in DOMAIN h : h[i] = "user"
  <2> DEFINE S == {i \in DOMAIN h : h[i] = "user"}
             First(i) == h[i] = "user" /\ \A j \in 1 .. i - 1 : h[j] # "user"
             k == CHOOSE i \in DOMAIN h : First(i)
  <2>1. S \subseteq Nat /\ S # {}
    BY <1>2, <1>d
  <2>2. PICK i \in S : \A j \in S : i <= j
    <3> HIDE DEF S
    <3> QED BY <2>1, Smallest
  <2>3. First(i)
    <3> SUFFICES ASSUME NEW j \in 1 .. i - 1 PROVE h[j] # "user"
      BY <2>2
    <3>1. j \in DOMAIN h /\ j < i /\ i \in Nat
      BY <1>d, <2>2
    <3> QED BY <2>2, <3>1
  <2>4. k \in 1 .. Len(h) /\ h[k] = "user"
    BY <1>d, <2>2, <2>3
  <2>5. Rounds!Normalized(h) = SubSeq(h, k, Len(h))
    BY <1>2 DEF Rounds!Normalized
  <2> HIDE DEF k
  <2>6. /\ SubSeq(h, k, Len(h)) \in Seq(Rounds!Roles) /\ SubSeq(h, k, Len(h))[1] = h[k]
    BY <1>1, <1>d, <2>4
  <2> QED BY <2>4, <2>5, <2>6
<1>3. CASE ~ \E i \in DOMAIN h : h[i] = "user"
  <2>1. Rounds!Normalized(h) = <<>>
    BY <1>3 DEF Rounds!Normalized
  <2> QED BY <2>1
<1> QED BY <1>2, <1>3

LogRowsRounds == [role : Rounds!Roles, asks : SUBSET Rounds!Tools, gives : SUBSET Rounds!Tools]
\* What the next request holds.
SentRounds(l) == l \in Seq(LogRowsRounds)
\* A run before its end asks for tools of the catalogue.
RunShapeRounds ==
  /\ pc \in {"loop", "call", "tools"} \cup Rounds!Done
  /\ runClock \in Nat /\ calls \in Nat /\ rounds \in Nat
  /\ offered \in BOOLEAN /\ flag \in BOOLEAN /\ handed \in BOOLEAN /\ told \in BOOLEAN
  /\ SentRounds(log) /\ Len(log) >= 1 /\ ended \subseteq Rounds!Tools

\* The types hold at the start.
LEMMA RunStartRounds == Rounds!Init => RunShapeRounds
<1> SUFFICES ASSUME Rounds!Init PROVE RunShapeRounds
  OBVIOUS
<1>1. PICK h \in Beginnings : log =
        [i \in 1 .. Len(Rounds!Normalized(h)) |-> Rounds!Message(Rounds!Normalized(h)[i], {}, {})]
                              \o <<Rounds!Message("user", {}, {})>>
  BY DEF Rounds!Init
<1> DEFINE kept == Rounds!Normalized(h)
<1>2. kept \in Seq(Rounds!Roles)
  BY KeptFromUser
<1> HIDE DEF kept
<1>3. [i \in 1 .. Len(kept) |-> Rounds!Message(kept[i], {}, {})] \in Seq(LogRowsRounds)
  <2>1. Len(kept) \in Nat /\ \A i \in 1 .. Len(kept) : Rounds!Message(kept[i], {}, {}) \in LogRowsRounds
    BY <1>2 DEF Rounds!Message, LogRowsRounds
  <2> QED BY <2>1
<1>4. Rounds!Message("user", {}, {}) \in LogRowsRounds
  BY DEF Rounds!Message, LogRowsRounds, Rounds!Roles
<1> DEFINE first == [i \in 1 .. Len(kept) |-> Rounds!Message(kept[i], {}, {})]
           m == Rounds!Message("user", {}, {})
<1>5. log = first \o <<m>>
  BY <1>1 DEF kept
<1>6. first \in Seq(LogRowsRounds) /\ m \in LogRowsRounds
  BY <1>3, <1>4
<1> HIDE DEF first, m
<1>7. log \in Seq(LogRowsRounds) /\ Len(log) >= 1
  BY <1>5, <1>6
<1> QED BY <1>7 DEF Rounds!Init, RunShapeRounds, SentRounds

\* Every step keeps the types.
LEMMA RunTypesRounds == RunShapeRounds /\ Rounds!Next => RunShapeRounds'
<1> SUFFICES ASSUME RunShapeRounds, Rounds!Next PROVE RunShapeRounds'
  OBVIOUS
<1>a. /\ runClock \in Nat /\ calls \in Nat /\ rounds \in Nat
      /\ offered \in BOOLEAN /\ flag \in BOOLEAN /\ handed \in BOOLEAN /\ told \in BOOLEAN
      /\ log \in Seq(LogRowsRounds) /\ Len(log) >= 1 /\ ended \subseteq Rounds!Tools
  BY DEF RunShapeRounds, SentRounds
<1>b. ASSUME NEW times \in SUBSET Nat, NEW limit, Rounds!Passes(times, limit) PROVE runClock' \in Nat
  BY <1>a, <1>b DEF Rounds!Passes
<1>c. (0 .. RoundCalls) \subseteq Nat /\ RoundTools \subseteq Nat
  BY Bounds
<1>1. CASE Rounds!Calls
  <2>1. offered' \in BOOLEAN
    BY <1>a, <1>1 DEF Rounds!Calls, Rounds!Available, Rounds!AllowTools
  <2>2. pc' \in {"call", "failed"} /\ calls' \in Nat /\ UNCHANGED <<runClock, rounds, log, ended, flag, handed,
          told>>
    BY <1>a, <1>1 DEF Rounds!Calls
  <2> QED BY <1>a, <2>1, <2>2 DEF RunShapeRounds, SentRounds, Rounds!Done
<1>2. CASE Rounds!CallFails
  <2>1. runClock' \in Nat
    BY <1>2, <1>b, <1>c DEF Rounds!CallFails
  <2> QED BY <1>a, <1>2, <2>1 DEF Rounds!CallFails, RunShapeRounds, SentRounds, Rounds!Done
<1>3. CASE Rounds!AnswersText
  <2>1. runClock' \in Nat
    BY <1>3, <1>b, <1>c DEF Rounds!AnswersText
  <2> QED BY <1>a, <1>3, <2>1 DEF Rounds!AnswersText, RunShapeRounds, SentRounds, Rounds!Done
<1>4. CASE Rounds!AsksTools
  <2>1. runClock' \in Nat
    BY <1>4, <1>b, <1>c DEF Rounds!AsksTools
  <2>2. PICK asks \in SUBSET Rounds!Tools : log' = log \/ log' = Append(log, Rounds!Message("assistant", asks, {}))
    BY <1>4 DEF Rounds!AsksTools
  <2>3. Rounds!Message("assistant", asks, {}) \in LogRowsRounds
    BY DEF Rounds!Message, LogRowsRounds, Rounds!Roles
  <2>4. log' \in Seq(LogRowsRounds) /\ Len(log') >= 1
    BY <1>a, <2>2, <2>3
  <2>5. /\ pc' \in {"tools", "replied"} /\ rounds' \in Nat /\ told' \in BOOLEAN /\ ended' = {}
        /\ UNCHANGED <<calls, offered, flag, handed>>
    BY <1>a, <1>4 DEF Rounds!AsksTools
  <2> QED BY <1>a, <2>1, <2>4, <2>5 DEF RunShapeRounds, SentRounds, Rounds!Done
<1>5. CASE Rounds!EndsRound
  <2>1. runClock' \in Nat
    BY <1>5, <1>b, <1>c DEF Rounds!EndsRound
  <2>2. Rounds!Message("user", {}, ended) \in LogRowsRounds
    BY <1>a DEF Rounds!Message, LogRowsRounds, Rounds!Roles
  <2>3. log' = Append(log, Rounds!Message("user", {}, ended))
    BY <1>5 DEF Rounds!EndsRound, Rounds!Results
  <2>4. log' \in Seq(LogRowsRounds) /\ Len(log') >= 1
    BY <1>a, <2>2, <2>3
  <2> QED BY <1>a, <1>5, <2>1, <2>4 DEF Rounds!EndsRound, RunShapeRounds, SentRounds
<1>6. ASSUME NEW tool \in Rounds!Tools, Rounds!ToolEnds(tool) PROVE RunShapeRounds'
  BY <1>a, <1>6 DEF Rounds!ToolEnds, Rounds!Ends, RunShapeRounds, SentRounds
<1>7. ASSUME NEW tool \in Rounds!Tools, Rounds!HandsOver(tool) PROVE RunShapeRounds'
  BY <1>a, <1>7 DEF Rounds!HandsOver, Rounds!Ends, Rounds!FlagOf, RunShapeRounds, SentRounds
<1> QED BY <1>1, <1>2, <1>3, <1>4, <1>5, <1>6, <1>7 DEF Rounds!Next

\* The types of the run.
LEMMA RunTypedRounds == RunShapeRounds => Rounds!TypeOK
BY DEF RunShapeRounds, SentRounds, LogRowsRounds, Rounds!TypeOK

\* Why what is sent is well formed and the run is short: between rounds every request of tools
\* has its results, in a round the last message asks for what runs; each round is a call that
\* had twelve seconds, and the last call has none.
RoundsTrue ==
  /\ log[1].role = "user"
  /\ \A i \in 1 .. Len(log) : log[i].asks # {} =>
       \/ i < Len(log) /\ log[i + 1].role = "user" /\ log[i + 1].gives = log[i].asks
       \/ i = Len(log) /\ pc \notin {"loop", "call"}
  /\ pc = "loop" => calls = rounds /\ rounds <= 2 /\ runClock <= 48
  /\ pc = "call" => /\ calls = rounds + 1 /\ rounds <= 2 /\ runClock <= 22
                    /\ offered => rounds <= 1 /\ runClock <= 13
  /\ pc = "tools" => /\ calls = rounds /\ rounds <= 2 /\ runClock <= 33
                     /\ ended \subseteq log[Len(log)].asks
  /\ pc \in Rounds!Done => calls <= 3 /\ runClock <= 48
  /\ (flag => handed) /\ (told => handed)
RoundsInv == RunShapeRounds /\ RoundsTrue

\* The first request begins with the customer.
LEMMA RoundsInit == Rounds!Init => RoundsInv
<1> SUFFICES ASSUME Rounds!Init PROVE RoundsInv
  OBVIOUS
<1>1. PICK h \in Beginnings : log =
        [i \in 1 .. Len(Rounds!Normalized(h)) |-> Rounds!Message(Rounds!Normalized(h)[i], {}, {})]
                              \o <<Rounds!Message("user", {}, {})>>
  BY DEF Rounds!Init
<1> DEFINE kept == Rounds!Normalized(h)
<1>2. kept \in Seq(Rounds!Roles) /\ (Len(kept) > 0 => kept[1] = "user")
  BY KeptFromUser
<1> HIDE DEF kept
<1> DEFINE first == [i \in 1 .. Len(kept) |-> Rounds!Message(kept[i], {}, {})]
           m == Rounds!Message("user", {}, {})
<1>3. Len(kept) \in Nat /\ m.role = "user" /\ m.asks = {}
  BY <1>2 DEF Rounds!Message
<1>4. first \in Seq(LogRowsRounds) /\ Len(first) = Len(kept)
      /\ \A i \in 1 .. Len(kept) : first[i].asks = {} /\ first[i].role = kept[i]
  <2>1. \A i \in 1 .. Len(kept) : /\ Rounds!Message(kept[i], {}, {}) \in LogRowsRounds
           /\ Rounds!Message(kept[i], {}, {}).asks = {} /\ Rounds!Message(kept[i], {}, {}).role = kept[i]
    BY <1>2, <1>3 DEF Rounds!Message, LogRowsRounds
  <2>2. first \in [1 .. Len(kept) -> LogRowsRounds]
    BY <2>1
  <2>3. first \in Seq(LogRowsRounds) /\ Len(first) = Len(kept)
    BY <1>3, <2>2
  <2> QED BY <2>1, <2>3
<1>5. log = first \o <<m>>
  BY <1>1 DEF kept
<1> HIDE DEF first, m
<1>6. /\ Len(log) = Len(kept) + 1
      /\ \A i \in 1 .. Len(log) : log[i] = IF i <= Len(kept) THEN first[i] ELSE m
  BY <1>3, <1>4, <1>5
<1>7. log[1].role = "user" /\ \A i \in 1 .. Len(log) : log[i].asks = {}
  BY <1>2, <1>3, <1>4, <1>6
<1>8. pc = "loop" /\ calls = 0 /\ rounds = 0 /\ runClock = 0 /\ ~flag /\ ~told
  BY DEF Rounds!Init
<1> QED BY <1>7, <1>8, RunStartRounds DEF RoundsInv, RoundsTrue, Rounds!Done

\* Every step keeps it.
LEMMA RoundsStep == RoundsInv /\ [Rounds!Next]_(Rounds!vars) => RoundsInv'
<1> SUFFICES ASSUME RoundsInv, [Rounds!Next]_(Rounds!vars) PROVE RoundsInv'
  OBVIOUS
<1>s. RunShapeRounds'
  BY RunTypesRounds DEF RoundsInv, Rounds!vars, RunShapeRounds, SentRounds
<1>a. /\ runClock \in Nat /\ calls \in Nat /\ rounds \in Nat
      /\ log \in Seq(LogRowsRounds) /\ Len(log) >= 1 /\ Len(log) \in Nat /\ ended \subseteq Rounds!Tools
  BY DEF RoundsInv, RunShapeRounds, SentRounds
<1>t. /\ \A d \in RoundTools : d \in 0 .. 15
      /\ \A d \in 0 .. RoundCalls : d \in Nat
  BY Bounds
<1>c. ASSUME Rounds!Passes(0 .. RoundCalls, Rounds!CallLimit) PROVE runClock' <= runClock + 20 /\ runClock' \in Nat
  BY <1>a, <1>c, <1>t DEF Rounds!Passes, Rounds!CallLimit
<1>1. ASSUME Rounds!Calls PROVE RoundsTrue'
  <2>1. pc = "loop" /\ calls = rounds /\ rounds <= 2 /\ runClock <= 48
        /\ UNCHANGED <<runClock, rounds, log, ended, flag, handed, told>>
    BY <1>1 DEF Rounds!Calls, RoundsInv, RoundsTrue
  <2>2. CASE Rounds!TooLate
    <3>1. pc' = "failed" /\ UNCHANGED calls
      BY <1>1, <2>2 DEF Rounds!Calls
    <3> QED BY <1>a, <2>1, <3>1 DEF RoundsInv, RoundsTrue, Rounds!Done
  <2>3. CASE ~Rounds!TooLate
    <3>1. pc' = "call" /\ calls' = calls + 1 /\ runClock <= 22
      BY <1>1, <1>a, <2>1, <2>3 DEF Rounds!Calls, Rounds!TooLate, Rounds!Remaining
    <3>2. offered' => rounds < 2 /\ runClock <= 13
      <4>1. PICK some \in BOOLEAN : offered' = Rounds!AllowTools(some)
        BY <1>1, <2>3 DEF Rounds!Calls, Rounds!Available
      <4>2. Rounds!AllowTools(some) => rounds < 2 /\ Rounds!Remaining >= 12
        BY DEF Rounds!AllowTools, Rounds!MaxRounds
      <4>3. Rounds!Remaining >= 12 => runClock <= 13
        BY <1>a DEF Rounds!Remaining
      <4> QED BY <4>1, <4>2, <4>3
    <3>3. (\A i \in 1 .. Len(log) : log[i].asks # {} =>
       \/ i < Len(log) /\ log[i + 1].role = "user" /\ log[i + 1].gives = log[i].asks
       \/ i = Len(log) /\ pc \notin {"loop", "call"})'
      BY <2>1, <3>1 DEF RoundsInv, RoundsTrue
    <3> QED BY <1>a, <2>1, <3>1, <3>2, <3>3 DEF RoundsInv, RoundsTrue, Rounds!Done
  <2> QED BY <2>2, <2>3
<1>2. ASSUME Rounds!CallFails \/ Rounds!AnswersText PROVE RoundsTrue'
  <2>1. /\ pc = "call" /\ pc' \in Rounds!Done /\ told' \in {told, flag} /\
          UNCHANGED <<calls, rounds, log, flag, handed>>
        /\ runClock' <= runClock + 20 /\ runClock' \in Nat
    BY <1>2, <1>c DEF Rounds!CallFails, Rounds!AnswersText, Rounds!Done
  <2>2. calls <= 3 /\ runClock' <= 48
    BY <1>a, <2>1 DEF RoundsInv, RoundsTrue
  <2> QED BY <1>a, <2>1, <2>2 DEF RoundsInv, RoundsTrue, Rounds!Done
<1>3. ASSUME Rounds!AsksTools PROVE RoundsTrue'
  <2>1. /\ pc = "call" /\ offered /\ pc' = "tools" /\ rounds' = rounds + 1 /\
          UNCHANGED <<calls, flag, handed, told>>
        /\ ended' = {}
        /\ runClock' <= runClock + 20 /\ runClock' \in Nat
    BY <1>3, <1>c DEF Rounds!AsksTools
  <2>2. PICK asks \in SUBSET Rounds!Tools : log' = Append(log, Rounds!Message("assistant", asks, {}))
    BY <1>3 DEF Rounds!AsksTools
  <2>3. calls' = rounds' /\ rounds' <= 2 /\ runClock' <= 33
    BY <1>a, <2>1 DEF RoundsInv, RoundsTrue
  <2>4. /\ Len(log') = Len(log) + 1 /\ \A i \in 1 .. Len(log) : log'[i] = log[i]
    BY <1>a, <2>2
  <2>5. \A i \in 1 .. Len(log) : log[i].asks # {} =>
           i < Len(log) /\ log[i + 1].role = "user" /\ log[i + 1].gives = log[i].asks
    BY <2>1 DEF RoundsInv, RoundsTrue
  <2>6. (\A i \in 1 .. Len(log) : log[i].asks # {} =>
       \/ i < Len(log) /\ log[i + 1].role = "user" /\ log[i + 1].gives = log[i].asks
       \/ i = Len(log) /\ pc \notin {"loop", "call"})'
    <3> SUFFICES ASSUME NEW i \in 1 .. Len(log'), log'[i].asks # {}, i # Len(log')
                 PROVE  i < Len(log') /\ log'[i + 1].role = "user" /\ log'[i + 1].gives = log'[i].asks
      BY <2>1
    <3>1. i \in 1 .. Len(log) /\ log'[i] = log[i]
      BY <1>a, <2>4
    <3>2. i < Len(log) /\ log[i + 1].role = "user" /\ log[i + 1].gives = log[i].asks
      BY <2>5, <3>1
    <3>3. i + 1 \in 1 .. Len(log) /\ log'[i + 1] = log[i + 1]
      BY <1>a, <2>4, <3>1, <3>2
    <3> QED BY <1>a, <2>4, <3>1, <3>2, <3>3
  <2>7. log'[1].role = "user"
    BY <1>a, <2>4 DEF RoundsInv, RoundsTrue
  <2> QED BY <1>a, <2>1, <2>3, <2>6, <2>7 DEF RoundsInv, RoundsTrue, Rounds!Done
<1>4. ASSUME Rounds!EndsRound PROVE RoundsTrue'
  <2>1. /\ pc = "tools" /\ pc' = "loop" /\ ended = log[Len(log)].asks
        /\ UNCHANGED <<calls, rounds, flag, handed, told>> /\ log' = Append(log, Rounds!Message("user", {}, ended))
    BY <1>4 DEF Rounds!EndsRound, Rounds!Results, Rounds!Asked
  <2>2. PICK d \in RoundTools : runClock' = runClock + d
    BY <1>4 DEF Rounds!EndsRound, Rounds!Passes
  <2>3. runClock' <= 48
    <3>1. runClock <= 33
      BY <2>1 DEF RoundsInv, RoundsTrue
    <3>2. d \in 0 .. 15
      BY <1>t
    <3> QED BY <1>a, <2>2, <3>1, <3>2
  <2>4. /\ Len(log') = Len(log) + 1 /\ \A i \in 1 .. Len(log) : log'[i] = log[i]
        /\ log'[Len(log) + 1].role = "user" /\ log'[Len(log) + 1].gives = ended /\ log'[Len(log) + 1].asks = {}
    BY <1>a, <2>1 DEF Rounds!Message
  <2>6. (\A i \in 1 .. Len(log) : log[i].asks # {} =>
       \/ i < Len(log) /\ log[i + 1].role = "user" /\ log[i + 1].gives = log[i].asks
       \/ i = Len(log) /\ pc \notin {"loop", "call"})'
    <3> SUFFICES ASSUME NEW i \in 1 .. Len(log'), log'[i].asks # {}
                 PROVE  i < Len(log') /\ log'[i + 1].role = "user" /\ log'[i + 1].gives = log'[i].asks
      OBVIOUS
    <3>1. i \in 1 .. Len(log) /\ log'[i] = log[i]
      BY <1>a, <2>4
    <3>2. CASE i = Len(log)
      BY <1>a, <2>1, <2>4, <3>1, <3>2
    <3>3. CASE i # Len(log)
      <4>1. i < Len(log) /\ log[i + 1].role = "user" /\ log[i + 1].gives = log[i].asks
        BY <3>1, <3>3 DEF RoundsInv, RoundsTrue
      <4>2. i + 1 \in 1 .. Len(log) /\ log'[i + 1] = log[i + 1]
        BY <1>a, <2>4, <3>1, <4>1
      <4> QED BY <1>a, <2>4, <3>1, <4>1, <4>2
    <3> QED BY <3>2, <3>3
  <2>7. log'[1].role = "user"
    BY <1>a, <2>4 DEF RoundsInv, RoundsTrue
  <2> QED BY <1>a, <2>1, <2>3, <2>6, <2>7 DEF RoundsInv, RoundsTrue, Rounds!Done
<1>5. ASSUME NEW tool \in Rounds!Tools, Rounds!ToolEnds(tool) \/ Rounds!HandsOver(tool) PROVE RoundsTrue'
  <2>1. /\ pc = "tools" /\ ended' = ended \cup {tool} /\ tool \in log[Len(log)].asks
        /\ UNCHANGED <<pc, runClock, calls, rounds, offered, log, told>>
    BY <1>5 DEF Rounds!ToolEnds, Rounds!HandsOver, Rounds!Runs, Rounds!Ends, Rounds!Asked
  <2>2. (flag' => handed') /\ (told' => handed')
    <3>1. (flag => handed) /\ (told => handed) /\ told' = told
      BY <2>1 DEF RoundsInv, RoundsTrue
    <3>2. CASE Rounds!ToolEnds(tool)
      BY <3>1, <3>2 DEF Rounds!ToolEnds
    <3>3. CASE Rounds!HandsOver(tool)
      <4>1. PICK saved \in {"saved", "lost", "no"} : flag' = (flag \/ saved = "saved") /\
              handed' = (handed \/ saved # "no")
        BY <3>3 DEF Rounds!HandsOver, Rounds!FlagOf
      <4>2. saved = "saved" => saved # "no"
        OBVIOUS
      <4> QED BY <3>1, <4>1, <4>2, Zenon
    <3> QED BY <1>5, <3>2, <3>3
  <2> QED BY <1>a, <2>1, <2>2 DEF RoundsInv, RoundsTrue, Rounds!Done
<1>6. ASSUME UNCHANGED Rounds!vars PROVE RoundsTrue'
  BY <1>6 DEF Rounds!vars, RoundsInv, RoundsTrue
<1>7. RoundsTrue'
  BY <1>1, <1>2, <1>3, <1>4, <1>5, <1>6 DEF Rounds!Next
<1> QED BY <1>s, <1>7 DEF RoundsInv

\* What it means for the provider and for the server.
LEMMA RoundsHold ==
  RoundsInv => /\ Rounds!TypeOK /\ Rounds!WellFormed /\ Rounds!FewCalls /\ Rounds!NeverToldAlone
               /\ Rounds!EndsInTime
<1> SUFFICES ASSUME RoundsInv
             PROVE  /\ Rounds!TypeOK /\ Rounds!WellFormed /\ Rounds!FewCalls /\ Rounds!NeverToldAlone
                    /\ Rounds!EndsInTime
  OBVIOUS
<1>a. /\ runClock \in Nat /\ calls \in Nat /\ rounds \in Nat /\ log \in Seq(LogRowsRounds)
      /\ pc \in {"loop", "call", "tools"} \cup Rounds!Done
  BY DEF RoundsInv, RunShapeRounds, SentRounds
<1>1. Rounds!WellFormed
  BY <1>a DEF RoundsInv, RoundsTrue, Rounds!WellFormed
<1>2. Rounds!FewCalls
  BY <1>a DEF RoundsInv, RoundsTrue, Rounds!FewCalls
<1>3. Rounds!EndsInTime
  BY <1>a DEF RoundsInv, RoundsTrue, Rounds!EndsInTime
<1>4. Rounds!NeverToldAlone
  BY DEF RoundsInv, RoundsTrue, Rounds!NeverToldAlone
<1> QED BY <1>1, <1>2, <1>3, <1>4, RunTypedRounds DEF RoundsInv

LogRowsRetried == [role : Retried!Roles, asks : SUBSET Retried!Tools, gives : SUBSET Retried!Tools]
\* What the next request holds.
SentRetried(l) == l \in Seq(LogRowsRetried)
\* A run before its end asks for tools of the catalogue.
RunShapeRetried ==
  /\ pc \in {"loop", "call", "tools"} \cup Retried!Done
  /\ runClock \in Nat /\ calls \in Nat /\ rounds \in Nat
  /\ offered \in BOOLEAN /\ flag \in BOOLEAN /\ handed \in BOOLEAN /\ told \in BOOLEAN
  /\ SentRetried(log) /\ Len(log) >= 1 /\ ended \subseteq Retried!Tools

\* The types hold at the start.
LEMMA RunStartRetried == Retried!Init => RunShapeRetried
<1> SUFFICES ASSUME Retried!Init PROVE RunShapeRetried
  OBVIOUS
<1>1. PICK h \in {<<>>} : log =
        [i \in 1 .. Len(Retried!Normalized(h)) |-> Retried!Message(Retried!Normalized(h)[i], {}, {})]
                              \o <<Retried!Message("user", {}, {})>>
  BY DEF Retried!Init
<1> DEFINE kept == Retried!Normalized(h)
<1>2. kept \in Seq(Retried!Roles)
  BY DEF Retried!Normalized
<1> HIDE DEF kept
<1>3. [i \in 1 .. Len(kept) |-> Retried!Message(kept[i], {}, {})] \in Seq(LogRowsRetried)
  <2>1. Len(kept) \in Nat /\ \A i \in 1 .. Len(kept) : Retried!Message(kept[i], {}, {}) \in LogRowsRetried
    BY <1>2 DEF Retried!Message, LogRowsRetried
  <2> QED BY <2>1
<1>4. Retried!Message("user", {}, {}) \in LogRowsRetried
  BY DEF Retried!Message, LogRowsRetried, Retried!Roles
<1> DEFINE first == [i \in 1 .. Len(kept) |-> Retried!Message(kept[i], {}, {})]
           m == Retried!Message("user", {}, {})
<1>5. log = first \o <<m>>
  BY <1>1 DEF kept
<1>6. first \in Seq(LogRowsRetried) /\ m \in LogRowsRetried
  BY <1>3, <1>4
<1> HIDE DEF first, m
<1>7. log \in Seq(LogRowsRetried) /\ Len(log) >= 1
  BY <1>5, <1>6
<1> QED BY <1>7 DEF Retried!Init, RunShapeRetried, SentRetried

\* Every step keeps the types.
LEMMA RunTypesRetried == RunShapeRetried /\ Retried!Next => RunShapeRetried'
<1> SUFFICES ASSUME RunShapeRetried, Retried!Next PROVE RunShapeRetried'
  OBVIOUS
<1>a. /\ runClock \in Nat /\ calls \in Nat /\ rounds \in Nat
      /\ offered \in BOOLEAN /\ flag \in BOOLEAN /\ handed \in BOOLEAN /\ told \in BOOLEAN
      /\ log \in Seq(LogRowsRetried) /\ Len(log) >= 1 /\ ended \subseteq Retried!Tools
  BY DEF RunShapeRetried, SentRetried
<1>b. ASSUME NEW times \in SUBSET Nat, NEW limit, Retried!Passes(times, limit) PROVE runClock' \in Nat
  BY <1>a, <1>b DEF Retried!Passes
<1>c. {1, 60} \subseteq Nat /\ RoundTools \subseteq Nat
  BY Bounds
<1>1. CASE Retried!Calls
  <2>1. offered' \in BOOLEAN
    BY <1>a, <1>1 DEF Retried!Calls, Retried!Available, Retried!AllowTools
  <2>2. pc' \in {"call", "failed"} /\ calls' \in Nat /\ UNCHANGED <<runClock, rounds, log, ended, flag, handed,
          told>>
    BY <1>a, <1>1 DEF Retried!Calls
  <2> QED BY <1>a, <2>1, <2>2 DEF RunShapeRetried, SentRetried, Retried!Done
<1>2. CASE Retried!CallFails
  <2>1. runClock' \in Nat
    BY <1>2, <1>b, <1>c DEF Retried!CallFails
  <2> QED BY <1>a, <1>2, <2>1 DEF Retried!CallFails, RunShapeRetried, SentRetried, Retried!Done
<1>3. CASE Retried!AnswersText
  <2>1. runClock' \in Nat
    BY <1>3, <1>b, <1>c DEF Retried!AnswersText
  <2> QED BY <1>a, <1>3, <2>1 DEF Retried!AnswersText, RunShapeRetried, SentRetried, Retried!Done
<1>4. CASE Retried!AsksTools
  <2>1. runClock' \in Nat
    BY <1>4, <1>b, <1>c DEF Retried!AsksTools
  <2>2. PICK asks \in SUBSET Retried!Tools : log' = log \/ log' =
          Append(log, Retried!Message("assistant", asks, {}))
    BY <1>4 DEF Retried!AsksTools
  <2>3. Retried!Message("assistant", asks, {}) \in LogRowsRetried
    BY DEF Retried!Message, LogRowsRetried, Retried!Roles
  <2>4. log' \in Seq(LogRowsRetried) /\ Len(log') >= 1
    BY <1>a, <2>2, <2>3
  <2>5. /\ pc' \in {"tools", "replied"} /\ rounds' \in Nat /\ told' \in BOOLEAN /\ ended' = {}
        /\ UNCHANGED <<calls, offered, flag, handed>>
    BY <1>a, <1>4 DEF Retried!AsksTools
  <2> QED BY <1>a, <2>1, <2>4, <2>5 DEF RunShapeRetried, SentRetried, Retried!Done
<1>5. CASE Retried!EndsRound
  <2>1. runClock' \in Nat
    BY <1>5, <1>b, <1>c DEF Retried!EndsRound
  <2>2. Retried!Message("user", {}, ended) \in LogRowsRetried
    BY <1>a DEF Retried!Message, LogRowsRetried, Retried!Roles
  <2>3. log' = Append(log, Retried!Message("user", {}, ended))
    BY <1>5 DEF Retried!EndsRound, Retried!Results
  <2>4. log' \in Seq(LogRowsRetried) /\ Len(log') >= 1
    BY <1>a, <2>2, <2>3
  <2> QED BY <1>a, <1>5, <2>1, <2>4 DEF Retried!EndsRound, RunShapeRetried, SentRetried
<1>6. ASSUME NEW tool \in Retried!Tools, Retried!ToolEnds(tool) PROVE RunShapeRetried'
  BY <1>a, <1>6 DEF Retried!ToolEnds, Retried!Ends, RunShapeRetried, SentRetried
<1>7. ASSUME NEW tool \in Retried!Tools, Retried!HandsOver(tool) PROVE RunShapeRetried'
  BY <1>a, <1>7 DEF Retried!HandsOver, Retried!Ends, Retried!FlagOf, RunShapeRetried, SentRetried
<1> QED BY <1>1, <1>2, <1>3, <1>4, <1>5, <1>6, <1>7 DEF Retried!Next

\* The types of the run.
LEMMA RunTypedRetried == RunShapeRetried => Retried!TypeOK
BY DEF RunShapeRetried, SentRetried, LogRowsRetried, Retried!TypeOK

------------------------------------------------------------------------------
(***************************************************************************)
(* The batches of the dispatcher.                                          *)
(***************************************************************************)
EventRows == [status : Batches!Statuses, attempts : 0 .. BatchAttempts,
              next : 0 .. BatchTime, holder : {"d"} \cup {None}]
\* The types, row by row.
BatchesShape ==
  /\ now \in 0 .. BatchTime /\ event \in [BatchEvents -> EventRows]
  /\ todo \in [{"d"} -> SUBSET BatchEvents] /\ batchRunning \subseteq {"d"}
\* What an event says of itself: one that waits has attempts left, one in the hands of the
\* dispatcher is in process, and one in process was attempted.
EventTrue(x) ==
  /\ x \in EventRows
  /\ x.status = "PENDING" => x.attempts < BatchAttempts
  /\ x.status = "PROCESSING" => x.attempts >= 1
  /\ x.holder = "d" => x.status = "PROCESSING"
\* Why no event is attempted before its time: what is left of a selection is what was due when
\* it was made, and nobody else took it.
BatchesInv ==
  /\ BatchesShape
  /\ \A e \in BatchEvents : EventTrue(event[e])
  /\ \A e \in todo["d"] : event[e].status = "PENDING" /\ event[e].next <= now

\* No event at the start.
LEMMA BatchesInit == Batches!Init => BatchesInv
BY Bounds DEF Batches!Init, Batches!DispatchBatchAssumption, BatchesInv, BatchesShape, EventRows,
   EventTrue, Batches!Statuses

\* An event to be repeated waits twice as long, or has no attempts left.
LEMMA AgainRow ==
  ASSUME BatchesInv, NEW e \in BatchEvents, event[e].status = "PROCESSING"
  PROVE  EventTrue(Batches!Again(e))
<1>1. /\ event[e] \in EventRows /\ event[e].attempts \in 1 .. BatchAttempts /\ now \in 0 .. BatchTime
      /\ BatchTime \in Nat /\ BatchAttempts \in Nat /\ None # "d"
  BY Bounds DEF BatchesInv, BatchesShape, EventTrue, EventRows, Batches!DispatchBatchAssumption
<1>2. 2 ^ (event[e].attempts - 1) \in Nat
  BY <1>1, Bounds DEF Batches!DispatchBatchAssumption
<1>3. Batches!Later(event[e].attempts) \in 0 .. BatchTime
  BY <1>1, <1>2 DEF Batches!Later, Batches!Earliest
<1>4. CASE event[e].attempts >= BatchAttempts
  <2>1. Batches!Again(e) = [event[e] EXCEPT !.status = "DEAD_LETTER", !.holder = None]
    BY <1>4 DEF Batches!Again
  <2> QED BY <1>1, <2>1 DEF EventTrue, EventRows, Batches!Statuses
<1>5. CASE ~(event[e].attempts >= BatchAttempts)
  <2> DEFINE at == Batches!Later(event[e].attempts)
  <2>1. Batches!Again(e) = [event[e] EXCEPT !.status = "PENDING", !.holder = None, !.next = at]
    BY <1>5 DEF Batches!Again
  <2>2. at \in 0 .. BatchTime
    BY <1>3
  <2> HIDE DEF at
  <2>3. event[e].attempts < BatchAttempts
    BY <1>1, <1>5
  <2>4. Batches!Again(e) \in EventRows
    BY <1>1, <2>1, <2>2 DEF EventRows, Batches!Statuses
  <2>5. /\ Batches!Again(e).attempts = event[e].attempts
        /\ Batches!Again(e).status = "PENDING" /\ Batches!Again(e).holder = None
    BY <1>1, <2>1 DEF EventRows
  <2> QED BY <1>1, <2>3, <2>4, <2>5 DEF EventTrue
<1> QED BY <1>4, <1>5

\* One event changes, which is not in the selection; or leaves it.
LEMMA EventChanges ==
  ASSUME BatchesInv, NEW e \in BatchEvents, NEW x, EventTrue(x),
         event' = [event EXCEPT ![e] = x], e \notin todo'["d"],
         todo' \in [{"d"} -> SUBSET BatchEvents], todo'["d"] \subseteq todo["d"],
         UNCHANGED <<now, batchRunning>>
  PROVE  BatchesInv'
<1>1. x \in EventRows /\ event \in [BatchEvents -> EventRows]
  BY DEF EventTrue, BatchesInv, BatchesShape
<1>2. event' \in [BatchEvents -> EventRows] /\ event'[e] = x
      /\ \A f \in BatchEvents : f # e => event'[f] = event[f]
  BY <1>1
<1>3. BatchesShape'
  BY <1>2 DEF BatchesInv, BatchesShape
<1>4. \A f \in BatchEvents : EventTrue(event[f])'
  BY <1>2 DEF BatchesInv, EventTrue
<1>5. \A f \in todo'["d"] : event'[f].status = "PENDING" /\ event'[f].next <= now'
  BY <1>2 DEF BatchesInv, BatchesShape
<1> QED BY <1>3, <1>4, <1>5 DEF BatchesInv

\* Every step keeps it, and an event is attempted when it is due.
LEMMA BatchesStep ==
  BatchesInv /\ [Batches!Next]_(Batches!vars) => BatchesInv' /\ Batches!BackoffKeptStep
<1> SUFFICES ASSUME BatchesInv, [Batches!Next]_(Batches!vars)
             PROVE  BatchesInv' /\ Batches!BackoffKeptStep
  OBVIOUS
<1>a. /\ BatchTime \in Nat /\ BatchAttempts \in Nat \ {0} /\ None # "d"
      /\ now \in 0 .. BatchTime /\ event \in [BatchEvents -> EventRows]
      /\ todo \in [{"d"} -> SUBSET BatchEvents] /\ batchRunning \subseteq {"d"}
  BY Bounds DEF BatchesInv, BatchesShape, Batches!DispatchBatchAssumption
<1>b. \A e \in BatchEvents : event[e] \in EventRows /\ event[e].attempts \in 0 .. BatchAttempts
  BY <1>a DEF EventRows
<1>k. ASSUME NEW e \in BatchEvents, NEW x \in EventRows, event' = [event EXCEPT ![e] = x],
             x.attempts <= event[e].attempts \/ event[e].next <= now
      PROVE  Batches!BackoffKeptStep
  <2> SUFFICES ASSUME NEW f \in BatchEvents, event'[f].attempts > event[f].attempts
               PROVE  event[f].next <= now
    BY DEF Batches!BackoffKeptStep
  <2>1. CASE f = e
    <3>1. x.attempts \in Nat /\ event[e].attempts \in Nat
      BY <1>b DEF EventRows
    <3> QED BY <1>a, <1>k, <2>1, <3>1
  <2>2. CASE f # e
    <3>1. event'[f] = event[f] /\ event[f].attempts \in Nat
      BY <1>a, <1>b, <1>k, <2>2
    <3> QED BY <3>1
  <2> QED BY <2>1, <2>2
<1>u. UNCHANGED event => Batches!BackoffKeptStep
  BY <1>b DEF Batches!BackoffKeptStep
<1>1. CASE Batches!Tick
  <2>1. now' = now + 1 /\ now' \in 0 .. BatchTime /\ UNCHANGED <<event, todo, batchRunning>>
    BY <1>a, <1>1 DEF Batches!Tick
  <2>2. \A e \in todo["d"] : event[e].next \in Nat /\ event[e].next <= now
    BY <1>a DEF EventRows, BatchesInv
  <2>3. \A e \in todo["d"] : event[e].next <= now'
    BY <1>a, <2>1, <2>2
  <2> QED BY <1>u, <2>1, <2>3 DEF BatchesInv, BatchesShape, EventTrue
<1>2. ASSUME NEW e \in BatchEvents, Batches!Emits(e) PROVE BatchesInv' /\ Batches!BackoffKeptStep
  <2> DEFINE x == [status |-> "PENDING", attempts |-> 0, next |-> now, holder |-> None]
  <2>1. event[e].status = "ABSENT" /\ event' = [event EXCEPT ![e] = x] /\ UNCHANGED <<now, todo, batchRunning>>
    BY <1>2 DEF Batches!Emits
  <2>2. x \in EventRows /\ EventTrue(x) /\ x.attempts = 0
    BY <1>a DEF EventRows, EventTrue, Batches!Statuses
  <2>3. e \notin todo["d"] /\ x.attempts <= event[e].attempts
    BY <1>b, <2>1, <2>2 DEF BatchesInv
  <2> HIDE DEF x
  <2>4. BatchesInv'
    BY <1>a, <2>1, <2>2, <2>3, EventChanges
  <2> QED BY <1>k, <2>1, <2>2, <2>3, <2>4
<1>3. ASSUME NEW e \in BatchEvents, NEW x, EventTrue(x), event[e].status = "PROCESSING",
             event' = [event EXCEPT ![e] = x], x.attempts = event[e].attempts,
             UNCHANGED <<now, todo, batchRunning>>
      PROVE BatchesInv' /\ Batches!BackoffKeptStep
  <2>1. e \notin todo["d"] /\ x \in EventRows /\ x.attempts <= event[e].attempts
    BY <1>3, <1>b DEF BatchesInv, EventTrue
  <2>2. BatchesInv'
    BY <1>a, <1>3, <2>1, EventChanges
  <2> QED BY <1>3, <1>k, <2>1, <2>2
<1>4. ASSUME NEW e \in BatchEvents, event[e].status = "PROCESSING"
      PROVE  /\ EventTrue(Batches!Again(e)) /\ Batches!Again(e).attempts = event[e].attempts
             /\ \A s \in {"SUCCEEDED", "PROCESSING", "FAILED"} :
                  LET x == [event[e] EXCEPT !.status = s, !.holder = None]
                  IN  EventTrue(x) /\ x.attempts = event[e].attempts
             /\ event[e].holder = None => \A s \in {"SUCCEEDED", "FAILED"} :
                  LET x == [event[e] EXCEPT !.status = s]
                  IN  EventTrue(x) /\ x.attempts = event[e].attempts
  <2>1. EventTrue(Batches!Again(e)) /\ Batches!Again(e).attempts = event[e].attempts
    BY <1>4, <1>b, AgainRow DEF Batches!Again, EventRows
  <2>2. event[e] \in EventRows /\ event[e].attempts >= 1
    BY <1>4, <1>b DEF BatchesInv, EventTrue
  <2>3. \A s \in {"SUCCEEDED", "PROCESSING", "FAILED"} :
                  LET x == [event[e] EXCEPT !.status = s, !.holder = None]
                  IN  EventTrue(x) /\ x.attempts = event[e].attempts
    BY <1>a, <2>2 DEF EventTrue, EventRows, Batches!Statuses
  <2>4. event[e].holder = None => \A s \in {"SUCCEEDED", "FAILED"} :
                  LET x == [event[e] EXCEPT !.status = s]
                  IN  EventTrue(x) /\ x.attempts = event[e].attempts
    BY <1>a, <2>2 DEF EventTrue, EventRows, Batches!Statuses
  <2> QED BY <2>1, <2>3, <2>4
<1>5. ASSUME NEW e \in BatchEvents, Batches!Reclaims(e) PROVE BatchesInv' /\ Batches!BackoffKeptStep
  BY <1>3, <1>4, <1>5 DEF Batches!Reclaims
<1>6. ASSUME NEW e \in BatchEvents, Batches!CallsBack(e) PROVE BatchesInv' /\ Batches!BackoffKeptStep
  <2>1. PICK s \in {"SUCCEEDED", "FAILED"} : event' = [event EXCEPT ![e].status = s]
    BY <1>6 DEF Batches!CallsBack
  <2>2. event' = [event EXCEPT ![e] = [event[e] EXCEPT !.status = s]]
    BY <2>1
  <2>3. event[e].status = "PROCESSING" /\ event[e].holder = None /\ UNCHANGED <<now, todo, batchRunning>>
    BY <1>6 DEF Batches!CallsBack
  <2>4. EventTrue([event[e] EXCEPT !.status = s]) /\ [event[e] EXCEPT !.status = s].attempts = event[e].attempts
    BY <1>4, <2>3
  <2> QED BY <1>3, <2>2, <2>3, <2>4
<1>7. ASSUME NEW e \in BatchEvents, Batches!Answers("d", e) PROVE BatchesInv' /\ Batches!BackoffKeptStep
  <2>1. event[e].holder = "d" /\ event[e].status = "PROCESSING" /\ UNCHANGED <<now, todo, batchRunning>>
    BY <1>7 DEF Batches!Answers, BatchesInv, EventTrue
  <2>2. PICK x : event' = [event EXCEPT ![e] = x] /\ EventTrue(x) /\ x.attempts = event[e].attempts
    <3>1. CASE event' = [event EXCEPT ![e] = Batches!Again(e)]
      BY <1>4, <2>1, <3>1
    <3>2. CASE \E s \in {"SUCCEEDED", "PROCESSING", "FAILED"} :
                 event' = [event EXCEPT ![e].status = s, ![e].holder = None]
      <4>1. PICK s \in {"SUCCEEDED", "PROCESSING", "FAILED"} :
                 event' = [event EXCEPT ![e].status = s, ![e].holder = None]
        BY <3>2
      <4>2. event' = [event EXCEPT ![e] = [event[e] EXCEPT !.status = s, !.holder = None]]
        BY <1>a, <4>1 DEF EventRows
      <4>3. /\ EventTrue([event[e] EXCEPT !.status = s, !.holder = None])
            /\ [event[e] EXCEPT !.status = s, !.holder = None].attempts = event[e].attempts
        BY <1>4, <2>1
      <4> QED BY <4>2, <4>3
    <3> QED BY <1>7, <3>1, <3>2 DEF Batches!Answers
  <2> QED BY <1>3, <2>1, <2>2
<1>8. ASSUME NEW e \in BatchEvents, Batches!Claims("d", e) PROVE BatchesInv' /\ Batches!BackoffKeptStep
  <2> DEFINE x == [event[e] EXCEPT !.status = "PROCESSING", !.attempts = event[e].attempts + 1, !.holder = "d"]
  <2>1. e \in todo["d"] /\ event[e].status = "PENDING" /\ event[e].next <= now
    BY <1>8 DEF Batches!Claims, BatchesInv
  <2>2. EventTrue(x) /\ x \in EventRows
    <3>1. event[e].attempts + 1 \in 0 .. BatchAttempts /\ event[e].attempts + 1 >= 1
      BY <1>a, <1>b, <2>1 DEF BatchesInv, EventTrue
    <3> QED BY <1>b, <3>1 DEF EventTrue, EventRows, Batches!Statuses
  <2>3. /\ todo' = [todo EXCEPT !["d"] = @ \ {e}] /\ UNCHANGED <<now, batchRunning>>
        /\ event' = [event EXCEPT ![e] = x] \/ event' = event
    BY <1>a, <1>8 DEF Batches!Claims, Batches!Processing, EventRows
  <2>4. todo' \in [{"d"} -> SUBSET BatchEvents] /\ todo'["d"] \subseteq todo["d"] /\ e \notin todo'["d"]
    BY <1>a, <2>3
  <2> HIDE DEF x
  <2>5. CASE event' = [event EXCEPT ![e] = x]
    <3>1. BatchesInv'
      BY <2>2, <2>3, <2>4, <2>5, EventChanges
    <3> QED BY <1>k, <2>1, <2>2, <2>5, <3>1
  <2>6. CASE event' = event
    <3>1. BatchesInv'
      BY <2>3, <2>4, <2>6 DEF BatchesInv, BatchesShape, EventTrue
    <3> QED BY <1>u, <2>6, <3>1
  <2> QED BY <2>3, <2>5, <2>6
<1>9. CASE Batches!Starts("d")
  <2>1. PICK S \in SUBSET Batches!Due : todo' = [todo EXCEPT !["d"] = S]
    BY <1>9 DEF Batches!Starts
  <2>2. \A e \in S : e \in BatchEvents /\ event[e].status = "PENDING" /\ event[e].next <= now
    BY <2>1 DEF Batches!Due
  <2>3. todo' \in [{"d"} -> SUBSET BatchEvents] /\ todo'["d"] = S
    BY <1>a, <2>1, <2>2
  <2>4. batchRunning' \subseteq {"d"} /\ UNCHANGED <<now, event>>
    BY <1>a, <1>9 DEF Batches!Starts
  <2> QED BY <1>u, <2>2, <2>3, <2>4 DEF BatchesInv, BatchesShape, EventTrue
<1>10. CASE Batches!Ends("d")
  <2>1. batchRunning' \subseteq {"d"} /\ UNCHANGED <<now, event, todo>>
    BY <1>a, <1>10 DEF Batches!Ends
  <2> QED BY <1>u, <2>1 DEF BatchesInv, BatchesShape, EventTrue
<1>11. CASE Batches!Dies("d")
  <2>1. /\ batchRunning' \subseteq {"d"} /\ UNCHANGED now /\ todo' \in [{"d"} -> SUBSET BatchEvents] /\
          todo'["d"] = {}
    BY <1>a, <1>11 DEF Batches!Dies
  <2>2. event' = [e \in BatchEvents |-> IF event[e].holder = "d" THEN [event[e] EXCEPT !.holder = None] ELSE
          event[e]]
    BY <1>11 DEF Batches!Dies
  <2>3. \A e \in BatchEvents : event'[e] = event[e] \/ event'[e] = [event[e] EXCEPT !.holder = None]
    BY <2>2
  <2>4. \A e \in BatchEvents : event'[e] \in EventRows /\ event'[e].status = event[e].status
           /\ event'[e].attempts = event[e].attempts /\ event'[e].holder \in {event[e].holder, None}
    BY <1>b, <2>3 DEF EventRows
  <2>5. event' \in [BatchEvents -> EventRows]
    BY <2>2, <2>4
  <2>6. \A e \in BatchEvents : EventTrue(event[e])'
    BY <1>a, <2>4 DEF BatchesInv, EventTrue
  <2>7. Batches!BackoffKeptStep
    BY <1>b, <2>4 DEF Batches!BackoffKeptStep
  <2>8. now' \in 0 .. BatchTime
    BY <1>a, <2>1
  <2> QED BY <2>1, <2>5, <2>6, <2>7, <2>8 DEF BatchesInv, BatchesShape
<1>12. CASE UNCHANGED Batches!vars
  BY <1>u, <1>12 DEF Batches!vars, BatchesInv, BatchesShape, EventTrue
<1> QED BY <1>1, <1>2, <1>5, <1>6, <1>7, <1>8, <1>9, <1>10, <1>11, <1>12 DEF Batches!Next

\* The types of the events and the batches.
LEMMA BatchesHold == BatchesInv => Batches!TypeOK
BY DEF BatchesInv, BatchesShape, EventRows, Batches!TypeOK

------------------------------------------------------------------------------
(***************************************************************************)
(* The composition: every part keeps its invariant, for only the part that *)
(* was chosen at the start moves.                                          *)
(***************************************************************************)
\* The invariants of the parts.
ChannelInv ==
  /\ part = "connections" => ConnectionsInv
  /\ part = "signup" => SignupInv
  /\ part = "assets" => AssetsInv
  /\ part = "popups" => PopupInv
  /\ part = "payloads" => PayloadInv
  /\ part = "inbox" => NoneHiddenInv /\ InboxInvInbox
  /\ part = "receipts" => InboxInvReceipts
  /\ part = "delivery" => DeliveryInv
  /\ part = "turns" => AnswersInv
  /\ part = "quota" => QuotaInv
  /\ part = "tagging" => TaggingInv
  /\ part = "tags" => TagsInv
  /\ part = "screens" => ScreensInv
  /\ part = "pages" => PagesInv
  /\ part = "rounds" => RoundsInv
  /\ part = "answer" => RunShapeRetried
  /\ part = "batches" => BatchesInv

\* The invariant is inductive.
LEMMA ChannelInit == Init => ChannelInv
BY PartsStart, ConnectionsInit, SignupInit, AssetsInit, PopupInit, PayloadInit, NoneHiddenInit,
   InboxInitInbox, InboxInitReceipts, DeliveryInit, AnswersInit, QuotaInit, TaggingInit, TagsInit,
   ScreensInit, PagesInit, RoundsInit, RunStartRetried, BatchesInit DEF ChannelInv

\* The part whose run is retried keeps its types in every step.
LEMMA RetriedStep == RunShapeRetried /\ [Retried!Next]_(Retried!vars) => RunShapeRetried'
<1>1. RunShapeRetried /\ UNCHANGED Retried!vars => RunShapeRetried'
  BY DEF Retried!vars, RunShapeRetried
<1> QED BY <1>1, RunTypesRetried

\* And kept by every step, whatever the part.
LEMMA ChannelStep == ChannelInv /\ [Next]_vars => ChannelInv'
<1> SUFFICES ASSUME ChannelInv, [Next]_vars PROVE ChannelInv'
  OBVIOUS
<1>0. part' = part
  BY PartStays
<1>1. part = "connections" => ConnectionsInv'
  BY PartsStep, ConnectionsStep DEF ChannelInv
<1>2. part = "signup" => SignupInv'
  BY PartsStep, SignupStep DEF ChannelInv
<1>3. part = "assets" => AssetsInv'
  BY PartsStep, AssetsStep DEF ChannelInv
<1>4. part = "popups" => PopupInv'
  BY PartsStep, PopupStep DEF ChannelInv
<1>5. part = "payloads" => PayloadInv'
  BY PartsStep, PayloadStep DEF ChannelInv
<1>6. part = "inbox" => NoneHiddenInv' /\ InboxInvInbox'
  BY PartsStep, NoneHiddenStep, InboxStepInbox DEF ChannelInv
<1>7. part = "receipts" => InboxInvReceipts'
  BY PartsStep, InboxStepReceipts DEF ChannelInv
<1>8. part = "delivery" => DeliveryInv'
  BY PartsStep, DeliveryStep DEF ChannelInv
<1>9. part = "turns" => AnswersInv'
  BY PartsStep, AnswersStep DEF ChannelInv
<1>10. part = "quota" => QuotaInv'
  BY PartsStep, QuotaStep DEF ChannelInv
<1>11. part = "tagging" => TaggingInv'
  BY PartsStep, TaggingStep DEF ChannelInv
<1>12. part = "tags" => TagsInv'
  BY PartsStep, TagsStep DEF ChannelInv
<1>13. part = "screens" => ScreensInv'
  BY PartsStep, ScreensStep DEF ChannelInv
<1>14. part = "pages" => PagesInv'
  BY PartsStep, PagesStep DEF ChannelInv
<1>15. part = "rounds" => RoundsInv'
  BY PartsStep, RoundsStep DEF ChannelInv
<1>16. part = "answer" => RunShapeRetried'
  BY PartsStep, RetriedStep DEF ChannelInv
<1>17. part = "batches" => BatchesInv'
  BY PartsStep, BatchesStep DEF ChannelInv
<1> QED BY <1>0, <1>1, <1>2, <1>3, <1>4, <1>5, <1>6, <1>7, <1>8, <1>9, <1>10, <1>11, <1>12,
           <1>13, <1>14, <1>15, <1>16, <1>17 DEF ChannelInv

\* Every state of the composition has the invariant of its part.
LEMMA ChannelHolds == Spec => []ChannelInv
BY ChannelInit, ChannelStep, PTL DEF Spec

------------------------------------------------------------------------------
\* Every part keeps the types of its state, for every value of the constants.
THEOREM ChannelTypes == Spec => []TypeOK
<1>1. ChannelInv => TypeOK
  BY ConnectionsHold, SignupHolds, AssetsHold, PopupHolds, PayloadHolds, InboxHoldsInbox,
     InboxHoldsReceipts, DeliveryHolds, AnswersHold, QuotaHolds, CrmTypedTagging, TagsHold,
     ScreensHold, PagesHold, RoundsHold, RunTypedRetried, BatchesHold
     DEF ChannelInv, TypeOK, TaggingInv
<1> QED BY <1>1, ChannelHolds, PTL

\* Connecting a number: one number is in force and a follow-up never waits for one that is not,
\* a code is exchanged once and an attempt connects once, and what an operation accepts or
\* refuses is so at the provider, while nothing changes there.
THEOREM ConnectionKeeps == Spec => []ConnectionKept
<1>1. ChannelInv => ConnectionKept
  BY ConnectionsHold, SignupHolds, AssetsHold, PopupHolds DEF ChannelInv, ConnectionKept
<1> QED BY <1>1, ChannelHolds, PTL

\* The messages that come in: a batch gives each of its messages once and to its sender, each is
\* answered by one run however often it comes, and a counter hides none that was not read.
THEOREM MessagesKeep == Spec => []MessagesIn
<1>1. ChannelInv => MessagesIn
  BY PayloadHolds, InboxHoldsInbox, NoneHiddenHolds, InboxHoldsReceipts DEF ChannelInv, MessagesIn
<1> QED BY <1>1, ChannelHolds, PTL

\* The answers that go out: a message is given to the provider once, a month has no more answers
\* than its plan and none that failed, and a run asks well, briefly and in time.
THEOREM AnswersKeep == Spec => []AnswersKept
<1>1. ChannelInv => AnswersKept
  BY DeliveryHolds, QuotaHolds, RoundsHold DEF ChannelInv, AnswersKept
<1> QED BY <1>1, ChannelHolds, PTL

\* The inbox: names of tags are not repeated and their limits are kept, what is applied exists,
\* the text of a message is not lost and the pages leave no quiet conversation out.
THEOREM InboxKeeps == Spec => []InboxKept
<1>1. ChannelInv => InboxKept
  BY TagsHold, ScreensHold, PagesHold DEF ChannelInv, InboxKept, TaggingInv
<1> QED BY <1>1, ChannelHolds, PTL

\* What no step of a part does: a stale verdict, a test that changes, a cancellation of what is
\* being exchanged, a second conversation, a status that goes back, an answer over whom took the
\* conversation, a bubble hidden too soon or an attempt before its time.
THEOREM ChannelStepsKeep == Spec => ChannelSteps
<1> DEFINE A == /\ part = "connections" => Connections!VerdictOfReadStep
                /\ part = "assets" => Assets!TestOnlyReadsStep
                /\ part = "popups" => Popups!ExchangeUndisturbedStep
                /\ part = "receipts" => Receipts!CreatedAloneStep
                /\ part = "delivery" => Delivery!NeverBackStep
                /\ part = "turns" => Answers!NotTalkedOverStep
                /\ part = "screens" => Screens!NeverHiddenStep
                /\ part = "batches" => Batches!BackoffKeptStep
<1>1. ChannelInv /\ [Next]_vars => [A]_vars
  BY PartsStep, ConnectionsStep, AssetsStep, PopupUndisturbed, CreatedAloneHolds, DeliveryStep,
     AnswersStep, ScreensStep, BatchesStep DEF ChannelInv
<1> QED BY <1>1, ChannelHolds, PTL DEF Spec, ChannelSteps
==================================================================================

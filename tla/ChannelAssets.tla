----------------------------- MODULE ChannelAssets -----------------------------
(***************************************************************************)
(* What a connection asks of the provider before anything is saved         *)
(* (whatsapp/meta-client.ts, ycloud-client.ts, verifyStoredConnection of   *)
(* embedded-signup.ts and validateManualWhatsappConnectionAgainstMeta):    *)
(* one request after another, each with a time limit and no retry, while   *)
(* the accounts (WABA), their numbers, the token and the subscription of   *)
(* the webhook change on the side of the provider.                         *)
(***************************************************************************)
EXTENDS Naturals, FiniteSets

CONSTANTS
  Wabas,       \* accounts of WhatsApp
  MaxNumber,   \* numbers are 1 .. MaxNumber, in the order the provider lists them
  PageSize,    \* numbers of a page (100)
  MaxPages,    \* pages that are read (10)
  Operations,  \* the operations that are looked at
  MaxChanges   \* changes on the side of the provider

\* What the constants must be, for the instances of this module.
AssetsAssumption ==
  /\ Operations \subseteq {"signup", "manual", "test", "reconnect", "phone", "ycloud"}
  /\ PageSize \in Nat \ {0} /\ MaxPages \in Nat \ {0}
  /\ MaxNumber \in Nat /\ MaxChanges \in Nat /\ IsFiniteSet(Wabas)

VARIABLES
  home,        \* the account of each number, of the provider
  granted,     \* the accounts the token was granted
  token,       \* "valid", "narrow" (a scope is missing) or "expired"
  subscribed,  \* the accounts whose messages the webhook receives
  check,       \* the operation in course and what it has learned
  changes,
  still,       \* history: nothing has changed since the operation began
  stayed       \* history: numbers in the account of the operation since its walk began

world == <<home, granted, token, subscribed>>
vars == <<world, check, changes, still, stayed>>

Numbers == 1 .. MaxNumber
NoWaba == "none"
NoCheck == [op |-> "none", pc |-> "idle", waba |-> NoWaba, number |-> 0, page |-> 0,
            cursor |-> 0, answer |-> "none"]
Answers == {"none", "ok", "unavailable", "authentication", "permissions", "ambiguous",
            "not_listed", "changed", "webhook_pending"}

\* The operation and the world keep their types.
TypeOK ==
  /\ home \in [Numbers -> Wabas \cup {NoWaba}]
  /\ granted \subseteq Wabas /\ subscribed \subseteq Wabas
  /\ token \in {"valid", "narrow", "expired"}
  /\ check \in [op : Operations \cup {"none"},
                pc : {"idle", "exchange", "inspect", "owner", "phones", "subscription",
                      "subscribe", "confirm", "ended"},
                waba : Wabas \cup {NoWaba}, number : 0 .. MaxNumber, page : 0 .. MaxPages,
                cursor : 0 .. MaxNumber, answer : Answers]
  /\ changes \in 0 .. MaxChanges /\ still \in BOOLEAN /\ stayed \subseteq Numbers

Init ==
  /\ home \in [Numbers -> Wabas \cup {NoWaba}]
  /\ granted \in SUBSET Wabas /\ subscribed \in SUBSET Wabas
  /\ token \in {"valid", "narrow", "expired"}
  /\ check = NoCheck /\ changes = 0 /\ still = TRUE /\ stayed = {}

(***************************************************************************)
(* The provider.                                                           *)
(***************************************************************************)
Listed(w) == {n \in Numbers : home[n] = w}

\* Somebody moves a number, grants or revokes an account, lets the token or the webhook lapse.
ProviderChanges ==
  /\ changes < MaxChanges
  /\ changes' = changes + 1 /\ still' = FALSE
  /\ \/ \E n \in Numbers, w \in Wabas \cup {NoWaba} : home' = [home EXCEPT ![n] = w]
        /\ UNCHANGED <<granted, token, subscribed>>
     \/ granted' \in SUBSET Wabas /\ UNCHANGED <<home, token, subscribed>>
     \/ token' \in {"narrow", "expired"} /\ UNCHANGED <<home, granted, subscribed>>
     \/ \E w \in Wabas : subscribed' = subscribed \ {w} /\ UNCHANGED <<home, granted, token>>
  /\ stayed' = {n \in stayed : home'[n] = check.waba}
  /\ UNCHANGED check

(***************************************************************************)
(* One operation: what is asked, in which order.                           *)
(***************************************************************************)
At(pc) == check.pc = pc
Advances(c) == check' = c /\ UNCHANGED <<world, changes, still, stayed>>
\* Mutation: the operation ends with the message, not with its code.
EndsWithMessage(answer) == Advances([check EXCEPT !.pc = "ended", !.answer = "message"])
\* What an error becomes: the operation ends with a code for the status of the connection.
Ends(answer) == Advances([check EXCEPT !.pc = "ended", !.answer = answer])
\* A request with the token of the account; a revoked or expired one is refused.
Accepted == token # "expired" /\ check.waba \in granted

\* The operation begins: a stored connection, a form or the popup, which names nothing.
Begins(op, w, n) ==
  /\ At("idle") \/ At("ended")
  /\ check' = [NoCheck EXCEPT
       !.op = op,
       !.pc = CASE op = "signup" -> "exchange" [] op \in {"phone", "ycloud"} -> "phones"
                [] OTHER -> "inspect",
       !.waba = IF op = "signup" THEN NoWaba ELSE w,
       !.number = IF op = "signup" THEN 0 ELSE n]
  /\ still' = TRUE
  /\ stayed' = IF op = "ycloud" THEN Listed(w) ELSE {}
  /\ UNCHANGED <<world, changes>>

\* A timeout, a lost connection, a limit or an error of the provider ends the operation.
Unanswered ==
  /\ ~ At("idle") /\ ~ At("ended")
  /\ Ends("unavailable")

\* The code of the popup becomes a token, once.
Exchanges ==
  /\ At("exchange")
  /\ Advances([check EXCEPT !.pc = "inspect"])

\* The popup must have granted one account and no more.
OnlyOne(ws) == Cardinality(ws) = 1

\* The token is valid, of this app, with its two scopes, and names the account.
Inspects ==
  /\ At("inspect")
  /\ \/ token # "valid"
        /\ Ends(IF token = "expired" THEN "authentication" ELSE "permissions")
     \/ /\ token = "valid" /\ check.op = "manual"
        /\ IF check.waba \in granted
           THEN Advances([check EXCEPT !.pc = "owner"]) ELSE Ends("permissions")
     \/ /\ token = "valid" /\ check.op = "signup"
        /\ IF OnlyOne(granted)
           THEN \E w \in granted : Advances([check EXCEPT !.pc = "owner", !.waba = w])
           ELSE Ends("ambiguous")
     \/ /\ token = "valid" /\ check.op \in {"test", "reconnect"}
        /\ IF granted = {check.waba}
           THEN Advances([check EXCEPT !.pc = "owner"]) ELSE Ends("permissions")

\* The business that owns the account; the walk over its numbers begins.
ReadsOwner ==
  /\ At("owner")
  /\ IF Accepted
     THEN /\ check' = [check EXCEPT !.pc = "phones"]
          /\ stayed' = Listed(check.waba)
          /\ UNCHANGED <<world, changes, still>>
     ELSE Ends("authentication")

\* Mutation: the first of several numbers is taken.
FirstOf(ns) == ns # {}
\* Two numbers are asked for: exactly one may come, with no page after it.
Unequivocal(ns) == Cardinality(ns) = 1

\* The popup and the stored connection of the popup: the account must have one number.
ReadsOnlyPhone ==
  /\ At("phones") /\ check.op \in {"signup", "test", "reconnect"}
  /\ LET ns == Listed(check.waba) IN
     \/ ~ Accepted /\ Ends("authentication")
     \/ Accepted /\ ~ Unequivocal(ns) /\ Ends("ambiguous")
     \/ /\ Accepted /\ Unequivocal(ns)
        /\ IF check.op = "signup"
           THEN \E n \in ns : Advances([check EXCEPT !.pc = "subscribe", !.number = n])
           ELSE IF check.number \in ns THEN Advances([check EXCEPT !.pc = "subscription"])
           ELSE Ends("changed")

\* Mutation: the cursor is the first number that has not been read.
AfterNext(ns, i) == {n \in ns : n > i + 1}
\* The numbers the provider lists after a cursor.
After(ns, i) == {n \in ns : n > i}
\* The first numbers of ns, as many as a page holds.
PageOf(ns) == {n \in ns : Cardinality({m \in ns : m < n}) < PageSize}
Last(ns) == CHOOSE n \in ns : \A m \in ns : m <= n

\* Mutation: the pages are counted, not continued after the last number read.
CountedPage(ns) ==
  {n \in ns : Cardinality({m \in ns : m < n}) \in
                check.page * PageSize .. (check.page + 1) * PageSize - 1}
\* The numbers after the cursor of the page before.
NextPage(ns) == PageOf(After(ns, check.cursor))

\* The form: the pages of the account until the number appears or the last one is read.
WalksPhones ==
  /\ At("phones") /\ check.op = "manual"
  /\ LET page == NextPage(Listed(check.waba)) IN
     \/ ~ Accepted /\ Ends("authentication")
     \/ Accepted /\ check.number \in page /\ Advances([check EXCEPT !.pc = "subscribe"])
     \/ /\ Accepted /\ check.number \notin page
        /\ IF page # {} /\ After(Listed(check.waba), Last(page)) # {}
              /\ check.page + 1 < MaxPages
           THEN Advances([check EXCEPT !.page = @ + 1, !.cursor = Last(page)])
           ELSE Ends("not_listed")

\* The key of YCloud lists the numbers of its account by page number.
WalksPages ==
  /\ At("phones") /\ check.op = "ycloud"
  /\ LET ns == Listed(check.waba)
         page == {n \in ns : Cardinality({m \in ns : m < n}) \in
                               check.page * PageSize .. (check.page + 1) * PageSize - 1}
     IN \/ ~ Accepted /\ Ends("authentication")
        \/ Accepted /\ check.number \in page /\ Ends("ok")
        \/ /\ Accepted /\ check.number \notin page
           /\ IF (check.page + 1) * PageSize < Cardinality(ns) /\ check.page + 1 < MaxPages
              THEN Advances([check EXCEPT !.page = @ + 1])
              ELSE Ends("not_listed")

\* The stored connection of a form: the number is read by its identifier.
ReadsPhone ==
  /\ At("phones") /\ check.op = "phone"
  /\ Ends(IF token # "expired" /\ home[check.number] \in granted THEN "ok" ELSE "authentication")

\* Mutation: the button that only tests puts the subscription right as well.
AlsoTesting == check.op \in {"test", "reconnect"}
\* Only the button that connects again subscribes the webhook that was lost.
MaySubscribe == check.op = "reconnect"

\* The subscription of the stored connection of the popup.
ReadsSubscription ==
  /\ At("subscription")
  /\ \/ ~ Accepted /\ Ends("authentication")
     \/ Accepted /\ check.waba \in subscribed /\ Ends("ok")
     \/ /\ Accepted /\ check.waba \notin subscribed
        /\ IF MaySubscribe THEN Advances([check EXCEPT !.pc = "subscribe"])
           ELSE Ends("webhook_pending")

\* The webhook is subscribed to the account; the form asks whether it is.
Subscribes ==
  /\ At("subscribe")
  /\ \/ ~ Accepted /\ Ends("authentication")
     \/ /\ Accepted
        /\ subscribed' = subscribed \cup {check.waba}
        /\ check' = IF check.op = "manual" THEN [check EXCEPT !.pc = "confirm"]
                    ELSE [check EXCEPT !.pc = "ended", !.answer = "ok"]
        /\ UNCHANGED <<home, granted, token, changes, still, stayed>>

\* The provider took the subscription, and the answer is lost.
SubscribesUnheard ==
  /\ At("subscribe") /\ Accepted
  /\ subscribed' = subscribed \cup {check.waba}
  /\ check' = [check EXCEPT !.pc = "ended", !.answer = "unavailable"]
  /\ UNCHANGED <<home, granted, token, changes, still, stayed>>

Confirms ==
  /\ At("confirm")
  /\ \/ ~ Accepted /\ Ends("authentication")
     \/ Accepted /\ Ends(IF check.waba \in subscribed THEN "ok" ELSE "webhook_pending")

Next ==
  \/ ProviderChanges
  \/ \E op \in Operations, w \in Wabas, n \in Numbers : Begins(op, w, n)
  \/ Unanswered \/ Exchanges \/ Inspects \/ ReadsOwner
  \/ ReadsOnlyPhone \/ WalksPhones \/ WalksPages \/ ReadsPhone
  \/ ReadsSubscription \/ Subscribes \/ SubscribesUnheard \/ Confirms

Spec == Init /\ [][Next]_vars

(***************************************************************************)
(* Properties.                                                             *)
(***************************************************************************)
Ended == check.pc = "ended"
OfPopup == {"signup", "test", "reconnect"}

\* While nothing changes at the provider, an operation that accepts a connection is right
\* about it: the token is valid and was granted the account, the number is of the account,
\* the only one where the popup chose it, and the webhook receives its messages, except for
\* the number that is only read.
AcceptedIsTrue ==
  Ended /\ check.answer = "ok" /\ still =>
    /\ token # "expired"
    /\ check.op # "phone" => home[check.number] = check.waba /\ check.waba \in granted
    /\ check.op \in OfPopup => Listed(check.waba) = {check.number} /\ granted = {check.waba}
    /\ check.op \in OfPopup \cup {"manual"} => token = "valid" /\ check.waba \in subscribed

\* Within reach of the pages that are read.
InReach(n, ns) == Cardinality({m \in ns : m < n}) < MaxPages * PageSize

\* While nothing changes, an operation that refuses a connection has a reason: what it
\* answers is wrong is wrong.
RefusedIsTrue ==
  Ended /\ still =>
    /\ check.answer = "permissions" =>
         token # "valid" \/ check.waba \notin granted \/ Cardinality(granted) # 1
    /\ check.answer = "authentication" =>
         \/ token = "expired"
         \/ (IF check.op = "phone" THEN home[check.number] ELSE check.waba) \notin granted
    /\ check.answer = "ambiguous" =>
         Cardinality(granted) # 1 \/ Cardinality(Listed(check.waba)) # 1
    /\ check.answer = "not_listed" =>
         check.number \notin {n \in Listed(check.waba) : InReach(n, Listed(check.waba))}
    /\ check.answer = "webhook_pending" => check.waba \notin subscribed

\* A number the form names, that stays in its account while the pages are read and is within
\* reach of them, is found however the other numbers come and go.
WalkFindsWhatStays ==
  Ended /\ check.op = "manual" /\ check.answer = "not_listed" =>
    check.number \notin stayed \/ ~ InReach(check.number, Numbers)

\* The test of a stored connection changes nothing at the provider: only a connection that
\* the user asked for subscribes the webhook to an account.
TestOnlyReadsStep ==
  \A w \in Wabas : w \in subscribed' \ subscribed =>
    check.op \in {"signup", "manual", "reconnect"} /\ check.waba = w
TestOnlyReads == [][TestOnlyReadsStep]_vars
================================================================================

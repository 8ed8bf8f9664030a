------------------------------ MODULE SignupPopup ------------------------------
(***************************************************************************)
(* The popup of Meta in the browser (WhatsappCard of                       *)
(* integrations-center.tsx) and the three routes it calls: start, cancel   *)
(* and complete (api/integrations/whatsapp), which find the attempt of the *)
(* organization by the nonce in a cookie.  The cards of one browser, two   *)
(* tabs or one that was mounted again, share the cookie; requests are      *)
(* handled in any order and their answers may be lost.                     *)
(***************************************************************************)
EXTENDS Naturals, FiniteSets

CONSTANTS
  Cards,        \* cards mounted in this browser
  MaxAttempts,
  MaxClicks     \* the bound on the clicks of every card together

\* What the constants must be, for the instances of this module.
PopupAssumption == {MaxAttempts, MaxClicks} \subseteq Nat /\ IsFiniteSet(Cards)

VARIABLES
  attempt,   \* the row of the organization: id, status, in force
  jar,       \* the cookie: the attempt whose nonce it holds, 0 if there is none
  card,      \* the state of each card; of is the attempt it was told to be ready
  call,      \* the start or complete request of each card
  cancels,   \* cancellations on their way
  clicks,    \* clicks made, for the bound
  running,   \* attempts whose code the server is exchanging
  exchanged  \* history: exchanges with Meta of each attempt

vars == <<attempt, jar, card, call, cancels, clicks, running, exchanged>>

Attempts == 1 .. MaxAttempts
NoCall == [kind |-> "none", cookie |-> 0, answer |-> "none", sets |-> 0]
Unfinished == {"AWAITING_CODE", "PROCESSING"}
Answers == {"none", "ready", "in_progress", "exchanging", "connected", "failed"}

\* Rows, cards and requests keep their types.
TypeOK ==
  /\ attempt \in [id : 0 .. MaxAttempts, live : BOOLEAN,
                  status : Unfinished \cup {"NONE", "SUCCEEDED", "FAILED"}]
  /\ jar \in 0 .. MaxAttempts
  /\ card \in [Cards -> [pc : {"idle", "starting", "loading", "closing", "popup", "completing"},
                         mounted : BOOLEAN, open : BOOLEAN, of : 0 .. MaxAttempts]]
  /\ call \in [Cards -> [kind : {"none", "start", "complete"}, cookie : 0 .. MaxAttempts,
                         answer : Answers, sets : 0 .. MaxAttempts]]
  /\ cancels \subseteq [by : Cards, of : 0 .. MaxAttempts, cookie : 0 .. MaxAttempts,
                        failed : BOOLEAN, handled : BOOLEAN]
  /\ running \subseteq Attempts /\ clicks \in 0 .. MaxClicks
  /\ exchanged \in [Attempts -> Nat]

Init ==
  /\ attempt = [id |-> 0, live |-> FALSE, status |-> "NONE"]
  /\ jar = 0
  /\ card = [c \in Cards |-> [pc |-> "idle", mounted |-> TRUE, open |-> FALSE, of |-> 0]]
  /\ call = [c \in Cards |-> NoCall]
  /\ cancels = {} /\ running = {} /\ clicks = 0
  /\ exchanged = [a \in Attempts |-> 0]

(***************************************************************************)
(* The card.                                                               *)
(***************************************************************************)
At(c, pc) == card[c].pc = pc
Asks(c, kind) == call' = [call EXCEPT ![c] = [NoCall EXCEPT !.kind = kind, !.cookie = jar]]
\* cancelOpenAttempt: with the cookie of this moment, if the card has an attempt open.
Cancelling(c, force) ==
  IF card[c].open \/ force
  THEN cancels \cup {[by |-> c, of |-> card[c].of, cookie |-> jar, failed |-> force, handled |-> FALSE]}
  ELSE cancels
Goes(c, pc, open) == card' = [card EXCEPT ![c].pc = pc, ![c].open = open]
Server == <<attempt, running, exchanged>>
Kept == <<Server, clicks>>

Clicks(c) ==
  /\ At(c, "idle") /\ card[c].mounted
  /\ clicks < MaxClicks /\ clicks' = clicks + 1
  /\ Goes(c, "starting", FALSE) /\ Asks(c, "start")
  /\ UNCHANGED <<Server, jar, cancels>>

\* The answer of start: the cookie is set, and a card that is gone cancels at once.
Started(c) ==
  /\ At(c, "starting") /\ call[c].answer \in {"ready", "in_progress"}
  /\ jar' = IF call[c].sets > 0 THEN call[c].sets ELSE jar
  /\ call' = [call EXCEPT ![c] = NoCall]
  /\ IF call[c].answer = "in_progress"
     THEN Goes(c, "idle", FALSE) /\ UNCHANGED cancels
     ELSE LET of == IF call[c].sets > 0 THEN call[c].sets ELSE call[c].cookie IN
          /\ card' = [card EXCEPT ![c].of = of, ![c].open = card[c].mounted,
                                  ![c].pc = IF card[c].mounted THEN "loading" ELSE "idle"]
          /\ cancels' = IF card[c].mounted THEN cancels
               ELSE cancels \cup {[by |-> c, of |-> of, cookie |-> jar', failed |-> FALSE, handled |-> FALSE]}
  /\ UNCHANGED Kept

\* Mutation: nobody waits for the answer of start that does not come.
NeverUnstarted(c) == FALSE
\* The answer of start is lost, with its cookie.
Unstarted(c) == At(c, "starting")
StartLost(c) ==
  /\ Unstarted(c)
  /\ Goes(c, "idle", FALSE) /\ call' = [call EXCEPT ![c] = NoCall]
  /\ UNCHANGED <<Kept, jar, cancels>>

\* The script of Meta is loaded, or is not within its twelve seconds.
Loads(c) ==
  /\ At(c, "loading")
  /\ IF card[c].mounted THEN Goes(c, "popup", card[c].open) ELSE Goes(c, "idle", FALSE)
  /\ UNCHANGED <<Kept, jar, call, cancels>>
LoadFails(c) ==
  /\ At(c, "loading")
  /\ cancels' = Cancelling(c, FALSE)
  /\ Goes(c, "closing", FALSE)
  /\ UNCHANGED <<Kept, jar, call>>
\* The card waits for that cancellation, answered or lost, before it can be used again.
Closed(c) ==
  /\ At(c, "closing") /\ \A x \in cancels : x.by # c
  /\ Goes(c, "idle", FALSE)
  /\ UNCHANGED <<Kept, jar, call, cancels>>

\* Mutation: the popup has no time limit, and nothing tells that it was closed.
NeverEnds(c) == FALSE
\* The popup is cancelled, fails, ends without a code, or lasts five minutes.
MayEnd(c) == At(c, "popup")
PopupEnds(c) ==
  /\ MayEnd(c)
  /\ cancels' = Cancelling(c, FALSE)
  /\ Goes(c, "idle", FALSE)
  /\ UNCHANGED <<Kept, jar, call>>

\* The popup gives its code, which is handed to the server.
PopupGivesCode(c) ==
  /\ At(c, "popup") /\ card[c].mounted
  /\ Goes(c, "completing", FALSE) /\ Asks(c, "complete")
  /\ UNCHANGED <<Kept, jar, cancels>>

\* The answer of complete; after an error the card cancels, by the cookie of that moment.
Completed(c) ==
  /\ At(c, "completing") /\ call[c].answer \in {"connected", "failed"}
  /\ call' = [call EXCEPT ![c] = NoCall]
  /\ Goes(c, "idle", FALSE)
  /\ jar' = IF call[c].answer = "connected" THEN 0 ELSE jar
  /\ cancels' = IF call[c].answer = "failed" THEN Cancelling(c, TRUE) ELSE cancels
  /\ UNCHANGED Kept
\* The answer of complete is lost, and the server may be in the middle of it.
CompleteLost(c) ==
  /\ At(c, "completing")
  /\ call' = [call EXCEPT ![c] = NoCall]
  /\ Goes(c, "idle", FALSE)
  /\ cancels' = Cancelling(c, TRUE)
  /\ UNCHANGED <<Kept, jar>>

\* The user leaves the page: the popup is let go and an open attempt cancelled.
Unmounts(c) ==
  /\ card[c].mounted
  /\ card' = [card EXCEPT ![c].mounted = FALSE, ![c].open = FALSE,
                          ![c].pc = IF @ = "popup" THEN "idle" ELSE @]
  /\ cancels' = Cancelling(c, FALSE)
  /\ UNCHANGED <<Kept, jar, call>>

(***************************************************************************)
(* The routes.                                                             *)
(***************************************************************************)
\* Mutation: the browser gets a cookie for an attempt that is not the saved one.
NextCookie(id) == id + 2
\* The nonce that start answers is that of the attempt it saves.
CookieOf(id) == id + 1
\* A new attempt, the same one for the browser that opened it, or 409.
HandlesStart(c) ==
  /\ call[c].kind = "start" /\ call[c].answer = "none"
  /\ \/ /\ attempt.live /\ attempt.status = "AWAITING_CODE" /\ call[c].cookie = attempt.id
        /\ call' = [call EXCEPT ![c].answer = "ready"]
        /\ UNCHANGED attempt
     \/ /\ attempt.live /\ attempt.status \in Unfinished
        /\ ~ (attempt.status = "AWAITING_CODE" /\ call[c].cookie = attempt.id)
        /\ call' = [call EXCEPT ![c].answer = "in_progress"]
        /\ UNCHANGED attempt
     \/ /\ ~ (attempt.live /\ attempt.status \in Unfinished)
        /\ attempt.id < MaxAttempts
        /\ attempt' = [id |-> attempt.id + 1, live |-> TRUE, status |-> "AWAITING_CODE"]
        /\ call' = [call EXCEPT ![c].answer = "ready", ![c].sets = CookieOf(attempt.id)]
     \/ /\ ~ (attempt.live /\ attempt.status \in Unfinished)
        /\ attempt.id = MaxAttempts  \* the bound: answered as if another one were in course
        /\ call' = [call EXCEPT ![c].answer = "in_progress"]
        /\ UNCHANGED attempt
  /\ UNCHANGED <<jar, card, cancels, clicks, running, exchanged>>

\* Mutation: a code is taken while another one is exchanged.
AlsoProcessing(c) == attempt.live /\ call[c].cookie = attempt.id /\ attempt.status \in Unfinished
\* The nonce is that of the attempt in force, which has no code yet.
Claimable(c) == attempt.live /\ call[c].cookie = attempt.id /\ attempt.status = "AWAITING_CODE"

HandlesComplete(c) ==
  /\ call[c].kind = "complete" /\ call[c].answer = "none"
  /\ IF call[c].cookie # 0 /\ Claimable(c)
     THEN /\ attempt' = [attempt EXCEPT !.status = "PROCESSING"]
          /\ call' = [call EXCEPT ![c].answer = "exchanging"]
          /\ running' = running \cup {attempt.id}
          /\ exchanged' = [exchanged EXCEPT ![attempt.id] = @ + 1]
     ELSE call' = [call EXCEPT ![c].answer = "failed"] /\ UNCHANGED Server
  /\ UNCHANGED <<jar, card, cancels, clicks>>

\* The exchange of a ends: saved if that attempt still is in course.
Exchanged(a, ok) ==
  /\ a \in running
  /\ running' = running \ {a}
  /\ LET mine == attempt.id = a /\ attempt.status = "PROCESSING" IN
     /\ attempt' = IF mine THEN [attempt EXCEPT !.status = IF ok THEN "SUCCEEDED" ELSE "FAILED"]
                   ELSE attempt
     /\ call' = [c \in Cards |->
          IF call[c].answer = "exchanging" /\ call[c].cookie = a
          THEN [call[c] EXCEPT !.answer = IF ok /\ mine THEN "connected" ELSE "failed"]
          ELSE call[c]]
  /\ UNCHANGED <<jar, card, cancels, clicks, exchanged>>

\* Mutation: a cancellation also closes the attempt whose code is being exchanged.
AnyUnfinished(x) == attempt.status \in Unfinished
\* What a cancellation closes: the attempt of its nonce that waits for a code.
Cancellable(x) == attempt.status = "AWAITING_CODE"

HandlesCancel(x) ==
  /\ ~ x.handled
  /\ attempt' = IF x.cookie # 0 /\ x.cookie = attempt.id /\ Cancellable(x)
                THEN [attempt EXCEPT !.status = "FAILED", !.live = FALSE] ELSE attempt
  /\ cancels' = (cancels \ {x}) \cup {[x EXCEPT !.handled = TRUE]}
  /\ UNCHANGED <<jar, card, call, clicks, running, exchanged>>
\* Its answer drops the cookie, whatever the cookie is by then.
Cancelled(x) ==
  /\ x.handled
  /\ cancels' = cancels \ {x}
  /\ jar' = IF x.cookie = 0 THEN jar ELSE 0
  /\ UNCHANGED <<Kept, card, call>>
CancelLost(x) ==
  /\ cancels' = cancels \ {x}
  /\ UNCHANGED <<Kept, jar, card, call>>

\* Ten minutes have passed.
Expires ==
  /\ attempt.live
  /\ attempt' = [attempt EXCEPT !.live = FALSE]
  /\ UNCHANGED <<jar, card, call, cancels, clicks, running, exchanged>>

OfCard(c) ==
  \/ Clicks(c) \/ Started(c) \/ StartLost(c) \/ Loads(c) \/ LoadFails(c) \/ Closed(c)
  \/ PopupEnds(c) \/ PopupGivesCode(c) \/ Completed(c) \/ CompleteLost(c) \/ Unmounts(c)
  \/ HandlesStart(c) \/ HandlesComplete(c)
Next ==
  \/ \E a \in Attempts, ok \in BOOLEAN : Exchanged(a, ok)
  \/ \E c \in Cards : OfCard(c)
  \/ \E x \in cancels : HandlesCancel(x) \/ Cancelled(x) \/ CancelLost(x)
  \/ Expires
Spec == Init /\ [][Next]_vars

\* A request is answered or times out, the script loads or times out, the popup ends.
Ends(c) == Started(c) \/ StartLost(c) \/ Loads(c) \/ Closed(c) \/ PopupEnds(c)
           \/ Completed(c) \/ CompleteLost(c)
Answered(c) == HandlesStart(c) \/ HandlesComplete(c)
Fair ==
  /\ \A c \in Cards : WF_vars(Ends(c)) /\ WF_vars(Answered(c))
  /\ \A a \in Attempts : WF_vars(\E ok \in BOOLEAN : Exchanged(a, ok))
  /\ WF_vars(\E x \in cancels : Cancelled(x) \/ CancelLost(x))
FairSpec == Spec /\ Fair

(***************************************************************************)
(* Properties.                                                             *)
(***************************************************************************)
\* An attempt is exchanged with Meta at most once, whatever the cards hand in.
OneExchange == \A a \in Attempts : exchanged[a] <= 1

\* A cancellation never touches an attempt whose code is being exchanged: what was claimed is
\* ended by the request that claimed it.
ExchangeUndisturbedStep ==
  attempt.status = "PROCESSING" /\ attempt'.id = attempt.id /\ attempt'.status # "PROCESSING" =>
    attempt.id \in running \ running'
ExchangeUndisturbed == [][ExchangeUndisturbedStep]_vars

\* A card that works on a connection becomes usable again.
BusyEnds == \A c \in Cards : card[c].pc # "idle" ~> card[c].pc = "idle"

\* The cancellation after a failed exchange closes the attempt that failed, not one that another
\* tab started since.
CancelsOwn ==
  [][\A x \in cancels :
       /\ x.failed /\ ~ x.handled /\ [x EXCEPT !.handled = TRUE] \in cancels'
       /\ attempt.status = "AWAITING_CODE" /\ attempt'.status = "FAILED"
       => x.of = attempt.id]_vars
================================================================================

------------------------------- MODULE ThreadView -------------------------------
(***************************************************************************)
(* A conversation on the screens of the team (conversation-thread.tsx and  *)
(* inbox-auto-refresh.tsx): the list each tab shows, the draft being       *)
(* written, and the answers of the server that change them, while          *)
(* customers write and others close the conversation or give it back.      *)
(* The tabs stay visible; the router of Next runs one request of a tab at  *)
(* a time.                                                                 *)
(***************************************************************************)
EXTENDS Naturals, Sequences

CONSTANTS
  Tabs,
  MaxRows,     \* bound of the messages of the conversation
  MaxTexts,    \* bound of the texts that are written
  Limit        \* THREAD_LIMIT

\* What the constants must be, for the instances of this module.
ThreadViewAssumption == MaxRows \in Nat /\ MaxTexts \in Nat /\ Limit \in Nat \ {0}

VARIABLES
  rows,        \* the messages of the conversation, as they were created
  open,        \* the conversation is not closed and the team answers it
  tab,         \* the state of the component in each tab
  written,     \* texts written so far
  erased       \* texts the composer erased after sending them

vars == <<rows, open, tab, written, erased>>

Ids == 1 .. MaxRows
Idle == [kind |-> "none", at |-> "none", row |-> 0, list |-> {}, writable |-> FALSE]

\* Rows and tabs keep their types.
TypeOK ==
  /\ \A i \in 1 .. Len(rows) :
       rows[i] \in [text : 0 .. MaxTexts, status : {"NONE", "PENDING", "SENT", "FAILED"}]
  /\ Len(rows) <= MaxRows /\ open \in BOOLEAN
  /\ tab \in [Tabs -> [shown : SUBSET Ids, draft : 0 .. MaxTexts, writable : BOOLEAN,
                       request : [kind : {"none", "refresh", "send", "retry"},
                                  at : {"none", "called", "stored", "refused", "rendered"},
                                  row : 0 .. MaxRows, list : SUBSET Ids,
                                  writable : BOOLEAN]]]
  /\ written \in 0 .. MaxTexts /\ erased \subseteq 1 .. MaxTexts

Init ==
  /\ rows = << >> /\ open = TRUE /\ written = 0 /\ erased = {}
  /\ tab = [t \in Tabs |-> [shown |-> {}, draft |-> 0, writable |-> TRUE, request |-> Idle]]

\* Mutation: the oldest messages are taken.
Oldest(number) == 1 .. (IF number < Limit THEN number ELSE Limit)
\* Mutation: one message less is taken.
OneLess(number) == {i \in 1 .. number : i + Limit > number + 1}
\* The last messages of the conversation, which the page reads.
Window(number) == {i \in 1 .. number : i + Limit > number}

Request(t) == tab[t].request
Asks(t, kind) ==
  /\ Request(t).kind = "none"
  /\ tab' = [tab EXCEPT ![t].request = [Idle EXCEPT !.kind = kind, !.at = "called"]]

------------------------------------------------------------------------------
\* A message of the customer.
Arrives ==
  /\ Len(rows) < MaxRows
  /\ rows' = Append(rows, [text |-> 0, status |-> "NONE"])
  /\ UNCHANGED <<open, tab, written, erased>>

\* Somebody closes the conversation, reopens it, takes it or gives it back.
Changes == open' = ~open /\ UNCHANGED <<rows, tab, written, erased>>

\* The textarea is disabled while it sends; a draft that was kept may be left as it is.
Writes(t) ==
  /\ tab[t].writable /\ tab[t].draft = 0 /\ Request(t).kind # "send"
  /\ written < MaxTexts
  /\ written' = written + 1
  /\ tab' = [tab EXCEPT ![t].draft = written + 1]
  /\ UNCHANGED <<rows, open, erased>>

\* Every five seconds.
Refreshes(t) == Asks(t, "refresh") /\ UNCHANGED <<rows, open, written, erased>>

\* send.
Sends(t) ==
  /\ tab[t].draft # 0 /\ tab[t].writable
  /\ Asks(t, "send")
  /\ UNCHANGED <<rows, open, written, erased>>

\* A bubble that failed has a button, while the team can answer.
Retryable(t, m) == m \in tab[t].shown /\ rows[m].status = "FAILED" /\ tab[t].writable

\* retryMessage.
Retries(t, m) ==
  /\ Retryable(t, m)
  /\ Request(t).kind = "none"
  /\ tab' = [tab EXCEPT ![t].request = [Idle EXCEPT !.kind = "retry", !.at = "called", !.row = m]]
  /\ UNCHANGED <<rows, open, written, erased>>

\* Mutation: with the status of an event of the automations.
Queued(text) == [text |-> text, status |-> "PROCESSING"]
Attempt(text) == [text |-> text, status |-> "PENDING"]

\* sendHumanMessage and retryWhatsappMessage: refused, or the attempt is saved.
Stores(t) ==
  LET asked == Request(t)
      text == IF asked.kind = "send" THEN tab[t].draft ELSE rows[asked.row].text
  IN /\ asked.kind \in {"send", "retry"} /\ asked.at = "called"
     /\ IF open
        THEN /\ Len(rows) < MaxRows
             /\ rows' = Append(rows, Attempt(text))
             /\ tab' = [tab EXCEPT ![t].request.at = "stored",
                                   ![t].request.row = Len(rows) + 1]
        ELSE /\ tab' = [tab EXCEPT ![t].request.at = "refused"]
             /\ UNCHANGED rows
     /\ UNCHANGED <<open, written, erased>>

\* The provider takes it or not (MessageDelivery).
Ends(m) ==
  /\ m <= Len(rows) /\ rows[m].status = "PENDING"
  /\ \E status \in {"SENT", "FAILED"} : rows' = [rows EXCEPT ![m].status = status]
  /\ UNCHANGED <<open, tab, written, erased>>

\* The page is rendered for a refresh, or with the answer of the action, which revalidates it.
Renders(t) ==
  /\ \/ Request(t).kind = "refresh" /\ Request(t).at = "called"
     \/ Request(t).at = "stored" /\ rows[Request(t).row].status # "PENDING"
  /\ tab' = [tab EXCEPT ![t].request = [@ EXCEPT !.at = "rendered", !.writable = open,
                                                 !.list = Window(Len(rows))]]
  /\ UNCHANGED <<rows, open, written, erased>>

\* Mutation: the text is erased whatever the answer.
EvenIfFailed(t) == Request(t).kind = "send"
\* setInput(""), after an attempt that was accepted.
Accepted(t) == Request(t).kind = "send" /\ rows[Request(t).row].status = "SENT"

\* The list of the page replaces the local one, the message of the action is appended
\* unless it is there, and the composer is erased.
Answered(t) ==
  LET asked == Request(t) IN
  /\ asked.at = "rendered"
  /\ tab' = [tab EXCEPT
       ![t].shown = asked.list \cup (IF asked.kind = "refresh" THEN {} ELSE {asked.row}),
       ![t].writable = asked.writable,
       ![t].draft = IF Accepted(t) THEN 0 ELSE @,
       ![t].request = Idle]
  /\ erased' = IF Accepted(t) THEN erased \cup {tab[t].draft} ELSE erased
  /\ UNCHANGED <<rows, open, written>>

\* Mutation: the composer stays disabled after an error.
KeepsSending(t) == [Request(t) EXCEPT !.at = "refused"]
\* finally: setSending(false), setRetryingMessageId(null).
Released(t) == Idle

\* An error of the server, or an answer that is lost: a toast, and the draft stays.
Fails(t) ==
  /\ Request(t).kind # "none"
  /\ tab' = [tab EXCEPT ![t].request = Released(t)]
  /\ UNCHANGED <<rows, open, written, erased>>

Next ==
  \/ Arrives \/ Changes
  \/ \E m \in Ids : Ends(m)
  \/ \E t \in Tabs : \/ Writes(t) \/ Refreshes(t) \/ Sends(t) \/ Stores(t) \/ Renders(t)
                     \/ Answered(t) \/ Fails(t)
                     \/ \E m \in Ids : Retries(t, m)

Spec == Init /\ [][Next]_vars

\* The timer keeps asking, the provider's call ends, an action that never answers is an
\* error of the network in the end, and not every request of a tab is one.
Fair ==
  /\ \A m \in Ids : WF_vars(Ends(m))
  /\ \A t \in Tabs :
       /\ SF_vars(Refreshes(t)) /\ SF_vars(Renders(t))
       /\ SF_vars(Answered(t))
       /\ WF_vars(Request(t).kind # "refresh" /\ Fails(t))

FairSpec == Spec /\ Fair

------------------------------------------------------------------------------
\* "El texto quedó guardado": what the composer erased, the provider took.
NothingLost == \A text \in erased : \E i \in 1 .. Len(rows) :
                 rows[i].text = text /\ rows[i].status = "SENT"

\* A bubble of the screen goes only when the conversation has Limit newer messages.
NeverHiddenStep ==
  \A t \in Tabs : tab[t].shown \ tab'[t].shown \subseteq 1 .. (Len(rows') - Limit)
NeverHidden == [][NeverHiddenStep]_vars

\* "La bandeja se actualiza automáticamente": every message reaches every tab, or Limit
\* newer ones do.
Followed ==
  \A t \in Tabs, m \in Ids :
    m <= Len(rows) ~> m \in tab[t].shown \/ m + Limit <= Len(rows)
================================================================================

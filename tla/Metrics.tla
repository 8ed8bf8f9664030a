-------------------------------- MODULE Metrics --------------------------------
(***************************************************************************)
(* The figures of the panel and of the metrics page (metrics/range.ts,     *)
(* metrics/queries.ts, dashboard/overview.ts) over conversations that      *)
(* people take, give back, close and reopen.  Days are those of Argentina, *)
(* Offset ticks after the days of UTC; instants are stored in UTC.         *)
(***************************************************************************)
EXTENDS Naturals, FiniteSets

CONSTANTS
  Conversations,
  DayTicks,     \* DAY_MS
  Offset,       \* OFFSET_MS
  MonthDays,
  MaxTime       \* bound of the clock

\* What the constants must be, for the instances of this module.
MetricsAssumption ==
  /\ DayTicks \in Nat \ {0} /\ Offset \in 1 .. DayTicks - 1
  /\ MonthDays \in Nat \ {0} /\ MaxTime \in Nat /\ DayTicks <= MaxTime

VARIABLES
  now,          \* from the second day on
  conversation, \* the rows: status, mode, createdAt, closedAt and humanTakeoverAt (0: null)
  passed        \* when the team started to attend each conversation, for ever

vars == <<now, conversation, passed>>

NoConversation == [status |-> "NONE", mode |-> "AI", created |-> 0, closed |-> 0, takeover |-> 0]

\* Rows keep their types.
TypeOK ==
  /\ now \in DayTicks .. MaxTime
  /\ conversation \in [Conversations -> [status : {"NONE", "OPEN", "PENDING", "CLOSED"},
                                         mode : {"AI", "HUMAN"}, created : 0 .. MaxTime,
                                         closed : 0 .. MaxTime, takeover : 0 .. MaxTime]]
  /\ passed \subseteq Conversations \X (DayTicks .. MaxTime)

Init ==
  /\ now = DayTicks /\ passed = {}
  /\ conversation = [c \in Conversations |-> NoConversation]

Status(c) == conversation[c].status

------------------------------------------------------------------------------
\* A first message of a customer.
Opens(c) ==
  /\ Status(c) = "NONE"
  /\ conversation' = [conversation EXCEPT ![c] = [@ EXCEPT !.status = "OPEN", !.created = now]]
  /\ UNCHANGED <<now, passed>>

\* takeConversation: of the assistant, or of a colleague; and the handoff of the automations.
Takes(c) ==
  /\ Status(c) \notin {"NONE", "CLOSED"}
  /\ conversation' = [conversation EXCEPT ![c] = [@ EXCEPT !.mode = "HUMAN", !.takeover = now]]
  /\ passed' = IF conversation[c].mode = "AI" THEN passed \cup {<<c, now>>} ELSE passed
  /\ UNCHANGED now

\* returnConversationToAI.
GivesBack(c) ==
  /\ conversation[c].mode = "HUMAN"
  /\ conversation' = [conversation EXCEPT ![c] = [@ EXCEPT !.mode = "AI", !.takeover = 0]]
  /\ UNCHANGED <<now, passed>>

\* Mutation: the date stays when the conversation is reopened.
ClosedOnce(c, status) == IF status = "CLOSED" THEN now ELSE conversation[c].closed
ClosedAt(c, status) == IF status = "CLOSED" THEN now ELSE 0

\* Mutation: "CLOSED" with the name of the filter.
Filters == {"OPEN", "PENDING", "closed"}
Assigned == {"OPEN", "PENDING", "CLOSED"}

\* setConversationStatus, whoever changed it since it was read; closeTestConversation.
SetsStatus(c, status) ==
  /\ Status(c) # "NONE"
  /\ conversation' = [conversation EXCEPT ![c] =
       [@ EXCEPT !.status = status, !.closed = ClosedAt(c, status)]]
  /\ UNCHANGED <<now, passed>>

Tick == now < MaxTime /\ now' = now + 1 /\ UNCHANGED <<conversation, passed>>

Next ==
  \/ Tick
  \/ \E c \in Conversations : \/ Opens(c) \/ Takes(c) \/ GivesBack(c)
                              \/ \E status \in Assigned : SetsStatus(c, status)

Spec == Init /\ [][Next]_vars

------------------------------------------------------------------------------
\* Mutation: the day of the stored instant.
UtcDay(t) == t \div DayTicks
\* date_trunc('day', ...) in METRICS_TIMEZONE.
DayOf(t) == (t - Offset) \div DayTicks

Days == 0 .. MaxTime \div DayTicks

\* Mutation: the midnight of UTC.
UtcMidnight(t) == DayOf(t) * DayTicks
\* localMidnightUtc.
LocalMidnight(t) == DayOf(t) * DayTicks + Offset

\* resolveMetricsRange: the instants of "hoy" and of two days that were chosen.
Today == LocalMidnight(now) .. now - 1
\* Mutation: the last day is left out.
UpTo(first, final) == first * DayTicks + Offset .. final * DayTicks + Offset - 1
Custom(first, final) == first * DayTicks + Offset .. (final + 1) * DayTicks + Offset - 1

\* The queries: conversations received, their number by day, and those handed to people.
Received(range) == {c \in Conversations : Status(c) # "NONE" /\ conversation[c].created \in range}
OfDay(range, day) == {c \in Received(range) : DayOf(conversation[c].created) = day}
Handoffs(range) == {c \in Conversations : conversation[c].takeover # 0
                                       /\ conversation[c].takeover \in range}
\* avg_resolution takes the rows with a date of closing.
Resolved == {c \in Conversations : conversation[c].closed # 0}

\* nextPeriodReset, and the day of the label that shows it.
NextReset == (now \div (DayTicks * MonthDays) + 1) * DayTicks * MonthDays
ShownReset == DayOf(NextReset)

\* The days of the chart are the days that are asked for: a range of whole days holds the
\* conversations that the query groups under them, and no other.
DayIsItsRange ==
  \A first, final \in Days : first <= final =>
    Received(Custom(first, final)) = UNION {OfDay(0 .. MaxTime, day) : day \in first .. final}

\* "Hoy" is one day of the chart, and all of it so far.
TodayIsOneDay ==
  Received(Today) = {c \in OfDay(0 .. MaxTime, DayOf(now)) : conversation[c].created < now}

\* "Las conversaciones abiertas no se consideran resueltas", however often they were reopened.
ResolvedAreClosed == Resolved = {c \in Conversations : Status(c) = "CLOSED"}

\* "Conversaciones que pasaron a atención humana dentro del período."
HandoffsOfPeriod ==
  \A day \in Days : Handoffs(Custom(day, day)) =
    {c \in Conversations : \E t \in Custom(day, day) : <<c, t>> \in passed}

\* "Se reinician el día 1": the label of the reset names a first day of the month.
ResetOnFirst == ShownReset % MonthDays = 0
================================================================================

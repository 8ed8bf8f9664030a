----------------------------- MODULE Availability -----------------------------
(***************************************************************************)
(* The slots that are offered and confirmed (appointments/availability.ts) *)
(* and the dates the assistant asks about (agent/appointment-tools.ts).    *)
(* Time is counted in minutes of a short day, so that the zone can change  *)
(* its offset once, forwards or backwards, within a few days.  The plan is *)
(* there, and the calendar is connected and selected.                      *)
(***************************************************************************)
EXTENDS Integers, FiniteSets

CONSTANTS
  Day,          \* minutes of a day
  Duration,     \* of an appointment
  Horizon,      \* the last instant that is looked at
  Clock,        \* instants at which somebody asks
  Schedules,    \* weekly schedules: the ranges of each weekday
  MaxRangeDays, \* the widest window that can be asked for
  MaxSlots      \* the longest answer

\* What the constants must be, for the instances of this module.
AvailabilityAssumption ==
  /\ Day \in Nat \ {0} /\ Duration \in 1 .. Day /\ Horizon \in Nat /\ Clock \subseteq Nat
  /\ MaxRangeDays \in Nat \ {0} /\ MaxSlots \in Nat \ {0}

VARIABLES
  settings,     \* the row of the settings of the organization
  zone,         \* when its time zone changes its offset, and by how much
  agenda,       \* busy intervals of the calendar
  now,
  query,        \* the window asked for
  answer        \* the slots, or a refusal

vars == <<settings, zone, agenda, now, query, answer>>

Instants == 0 .. Horizon
Interval == {i \in [start : Instants, end : Instants] : i.start < i.end}
Refused == [ok |-> FALSE, slots |-> {}]
Found(slots) == [ok |-> TRUE, slots |-> slots]
Smallest(S) == CHOOSE x \in S : \A y \in S : x <= y
Largest(S) == CHOOSE x \in S : \A y \in S : y <= x

------------------------------------------------------------------------------
\* What the settings must be before reservations are enabled: some day has
\* ranges, those of a day do not overlap, and the notice fits the advance.
Complete(s) ==
  /\ \E d \in DOMAIN s.schedule : s.schedule[d] # {}
  /\ \A d \in DOMAIN s.schedule : \A r1, r2 \in s.schedule[d] :
       r1.start < r1.end /\ (r1 = r2 \/ r1.end <= r2.start \/ r2.end <= r1.start)
  /\ s.notice <= s.advance * Day

Init ==
  /\ settings \in {s \in [buffer : {0, 1}, notice : {0, 2}, advance : {1, 2},
                          schedule : Schedules] : Complete(s)}
  /\ zone \in [at : {Day, Day + 3}, by : {-1, 0, 1}]
  /\ agenda \in {{}} \cup {{i} : i \in {j \in Interval : j.end - j.start = 2}}
  /\ now \in Clock
  /\ query = [of |-> "nothing", from |-> 0, to |-> 0]
  /\ answer = Refused

\* zonedParts: what the clock of the zone shows, its date and its minute.
Local(t) == IF t < zone.at THEN t ELSE t + zone.by
DateOf(t) == Local(t) \div Day
MinuteOf(t) == Local(t) % Day
Ranges(t) == settings.schedule[DateOf(t) % 2]

\* overlapsBusy, with the rest before and after.
Overlaps(t, busy) ==
  \E i \in busy : /\ t < i.end + settings.buffer
                  /\ t + Duration + settings.buffer > i.start

\* The tests a candidate passes.  Mutation: how long it lasts on the clock is
\* not looked at.
FitsStart(t, busy) ==
  /\ DateOf(t) = DateOf(t + Duration)
  /\ \E r \in Ranges(t) :
       /\ MinuteOf(t) >= r.start /\ MinuteOf(t + Duration) <= r.end
       /\ (MinuteOf(t) - r.start) % (Duration + settings.buffer) = 0
  /\ ~Overlaps(t, busy)
Fits(t, busy) ==
  /\ DateOf(t) = DateOf(t + Duration)
  /\ MinuteOf(t + Duration) - MinuteOf(t) = Duration
  /\ \E r \in Ranges(t) :
       /\ MinuteOf(t) >= r.start /\ MinuteOf(t + Duration) <= r.end
       /\ (MinuteOf(t) - r.start) % (Duration + settings.buffer) = 0
  /\ ~Overlaps(t, busy)

\* Mutation: a slot has to start before the end of the window, not to end.
StartsBy(t, upper) == t < upper
EndsBy(t, upper) == t + Duration <= upper

\* Mutation: the same time of any date.
SameTime(u, t) == MinuteOf(u) = MinuteOf(t)
SameLocal(u, t) == Local(u) = Local(t)

\* calculateAvailableSlots: the candidates from the first on, minute by minute,
\* each local time once, until the answer is full.  Mutation: the grid of the
\* candidates starts at the lower bound.
Slots(from, to, busy) ==
  LET lower == Largest({from, now + settings.notice, now})
      upper == Smallest({to, now + settings.advance * Day})
      step[t \in lower - 1 .. upper] ==
        IF t < lower THEN {}
        ELSE LET before == step[t - 1] IN
             IF /\ EndsBy(t, upper) /\ Fits(t, busy)
                /\ \A u \in before : ~SameLocal(u, t)
                /\ Cardinality(before) < MaxSlots
             THEN before \cup {t} ELSE before
  IN IF lower >= upper THEN {} ELSE step[upper]

\* FreeBusy answers with the part of each interval inside the window.
FreeBusy(min, max) ==
  {[start |-> Largest({i.start, min}), end |-> Smallest({i.end, max})] :
     i \in {j \in agenda : j.start < max /\ j.end > min}}

\* The rest around the window that FreeBusy is asked for.  Mutation: none.
NoMargin == 0
Margin == settings.buffer

\* checkAppointmentAvailability.
Available(from, to) ==
  LET maximum == now + settings.advance * Day
      min == Largest({from, now + settings.notice})
      max == Smallest({to, maximum})
  IN IF from >= to \/ to - from > MaxRangeDays * Day \/ from > maximum \/ to > maximum + 1
     THEN Refused
     ELSE IF min >= max THEN Found({})
     ELSE Found(Slots(from, to, FreeBusy(min - Margin, max + Margin)))

\* checkSlot of a reservation: the window is the slot itself.
Bookable(t) == t \in Available(t, t + Duration).slots

------------------------------------------------------------------------------
\* A window is asked for.
Asks(from, to) ==
  /\ query.of = "nothing"
  /\ query' = [of |-> "window", from |-> from, to |-> to]
  /\ answer' = Available(from, to)
  /\ UNCHANGED <<settings, zone, agenda, now>>

\* findSlots of the assistant: one day more on either side of the dates, and
\* only the slots of those dates.
AsksDates(date, days) ==
  LET found == Available((date - 1) * Day, (date + days + 1) * Day) IN
  /\ query.of = "nothing"
  /\ query' = [of |-> "dates", from |-> date * Day, to |-> (date + days) * Day]
  /\ answer' = [found EXCEPT !.slots = {t \in @ : DateOf(t) \in date .. date + days - 1}]
  /\ UNCHANGED <<settings, zone, agenda, now>>

Next ==
  \/ \E from, to \in Instants \ {0} : Asks(from, to)
  \/ \E date \in 1 .. Horizon \div Day, days \in 1 .. 2 : AsksDates(date, days)

Spec == Init /\ [][Next]_vars

------------------------------------------------------------------------------
\* A refusal offers nothing, and what is offered are instants from now on.
TypeOK ==
  /\ query.of \in {"nothing", "window", "dates"} /\ query.from \in Nat /\ query.to \in Nat
  /\ answer.ok \in BOOLEAN /\ (~answer.ok => answer.slots = {})
  /\ answer.slots \subseteq {t \in Nat : t >= now + settings.notice}

\* Whatever the change of offset does to the day, a slot that is offered lasts
\* what it should on the clock of the zone, inside one range of its date, far
\* enough from everything in the calendar, and no two are the same local time.
OffersHonest ==
  \A t \in answer.slots :
    /\ Local(t + Duration) = Local(t) + Duration
    /\ \E r \in Ranges(t) : r.start <= MinuteOf(t) /\ MinuteOf(t) + Duration <= r.end
    /\ ~Overlaps(t, agenda)
    /\ \A u \in answer.slots \ {t} : Local(u) # Local(t)

\* A slot that is offered in a wide window can be booked at once: the narrow
\* window of the check computes the same grid (checkSlot).
OffersBookable == \A t \in answer.slots : Bookable(t)

\* Nothing is hidden: what can be booked in the window is offered, unless its
\* local time is offered already or the answer is full.
NothingHidden ==
  query.of = "window" /\ answer.ok =>
    \A t \in Instants :
      query.from <= t /\ t + Duration <= query.to /\ Bookable(t)
      => \/ t \in answer.slots
         \/ \E u \in answer.slots : Local(u) = Local(t)
         \/ Cardinality(answer.slots) = MaxSlots

\* What the comment of findSlots says: the assistant finds the real slots of
\* the local dates it asks for.
DatesFindSlots ==
  query.of = "dates" =>
    \A t \in Instants :
      Local(t) >= query.from /\ Local(t) < query.to /\ Bookable(t)
      => \/ t \in answer.slots
         \/ \E u \in answer.slots : Local(u) = Local(t)
         \/ Cardinality(answer.slots) = MaxSlots
==============================================================================

----------------------------- MODULE TrialReminders -----------------------------
(***************************************************************************)
(* The daily job that writes to the owners of organizations on trial       *)
(* (billing/trial-reminders.ts), with what else moves their rows: the      *)
(* evaluation of the entitlement, which expires a finished trial           *)
(* (billing/entitlement.ts), and a payment.  A notice is reserved under a  *)
(* unique key and then mailed.                                             *)
(***************************************************************************)
EXTENDS Integers, FiniteSets

CONSTANTS
  Orgs,
  Jobs,         \* runs of the job that may overlap
  Day,          \* units of time in a day
  Offsets,      \* the times of a day at which the platform starts the job
  Ends          \* the possible ends of a trial; the clock stops two days after the last

\* What the constants must be, for the instances of this module: a trial, which lasts five
\* days, starts before its first notice.
RemindersAssumption ==
  /\ Day \in Nat \ {0} /\ Offsets \subseteq 0 .. Day - 1 /\ Offsets # {}
  /\ Ends \subseteq Nat /\ \A e \in Ends : 3 * Day <= e

VARIABLES
  now,
  row,          \* the status of each subscription
  end,          \* trialEndsAt
  reserved,     \* the milestones with a BillingEvent of each organization
  mailed,       \* history: mails of each milestone that went out
  job,          \* the local state of a run
  ran           \* the job of this day has run to its end

vars == <<now, row, end, reserved, mailed, job, ran>>

Milestones == {3, 1, 0}
MaxTime == CHOOSE t \in {e + 2 * Day : e \in Ends} : \A e \in Ends : e + 2 * Day <= t
Free == [pc |-> "idle", left |-> {}, of |-> {}, milestone |-> 0]

\* Rows, notices and runs keep their types.
TypeOK ==
  /\ now \in 0 .. MaxTime
  /\ row \in [Orgs -> {"TRIALING", "EXPIRED", "ACTIVE"}]
  /\ end \in [Orgs -> Ends]
  /\ reserved \in [Orgs -> SUBSET Milestones]
  /\ mailed \in [Orgs -> [Milestones -> Nat]]
  /\ job \in [Jobs -> [pc : {"idle", "next", "mail"}, left : SUBSET Orgs, of : SUBSET Orgs,
                       milestone : Milestones]]
  /\ ran \in BOOLEAN

Init ==
  /\ now = 0
  /\ row = [o \in Orgs |-> "TRIALING"]
  /\ end \in [Orgs -> Ends]
  /\ reserved = [o \in Orgs |-> {}]
  /\ mailed = [o \in Orgs |-> [m \in Milestones |-> 0]]
  /\ job = [j \in Jobs |-> Free]
  /\ ran = FALSE

\* Time passes between runs, and the last time of a day to start the job does not pass
\* without one.
LastStart == CHOOSE t \in Offsets : \A u \in Offsets : u <= t
Tick ==
  /\ now < MaxTime
  /\ \A j \in Jobs : job[j].pc = "idle"
  /\ now % Day = LastStart => ran
  /\ now' = now + 1
  /\ ran' = (ran /\ now % Day # Day - 1)
  /\ UNCHANGED <<row, end, reserved, mailed, job>>

(***************************************************************************)
(* sendDueTrialReminders.                                                  *)
(***************************************************************************)
\* Mutation: the trials that end within two days.
DueSoon(o) == row[o] = "TRIALING" /\ now - 2 * Day <= end[o] /\ end[o] <= now + 2 * Day
Due(o) == row[o] = "TRIALING" /\ now - 2 * Day <= end[o] /\ end[o] <= now + 4 * Day

\* daysUntilTrialEnd, rounded up.
DaysLeft(o) == IF end[o] <= now THEN 0 ELSE (end[o] - now + Day - 1) \div Day

Starts(j) ==
  /\ job[j].pc = "idle"
  /\ now % Day \in Offsets
  /\ job' = [job EXCEPT ![j] = [Free EXCEPT !.pc = "next", !.left = {o \in Orgs : Due(o)}]]
  /\ UNCHANGED <<now, row, end, reserved, mailed, ran>>

\* Mutation: the notice is looked for by another key.
Unreserved(o, m) == TRUE
FreeKey(o, m) == m \notin reserved[o]

\* No milestone today, or its notice was already reserved.
Passes(j, o) ==
  /\ job[j].pc = "next"
  /\ o \in job[j].left
  /\ DaysLeft(o) \in Milestones => ~ FreeKey(o, DaysLeft(o))
  /\ job' = [job EXCEPT ![j].left = @ \ {o}]
  /\ UNCHANGED <<now, row, end, reserved, mailed, ran>>

\* Mutation: reserved as the mail of the start.
Welcome(m) == 5
Key(m) == m

Reserves(j, o) ==
  LET m == DaysLeft(o) IN
  /\ job[j].pc = "next"
  /\ o \in job[j].left
  /\ m \in Milestones
  /\ FreeKey(o, m)
  /\ reserved' = [reserved EXCEPT ![o] = @ \cup {Key(m)}]
  /\ job' = [job EXCEPT ![j] = [pc |-> "mail", left |-> @.left \ {o}, of |-> {o}, milestone |-> m]]
  /\ UNCHANGED <<now, row, end, mailed, ran>>

\* The mail goes out, or it fails (or there is no owner to write to) and is not tried again.
Mails(j, o, sent) ==
  /\ job[j].pc = "mail"
  /\ o \in job[j].of
  /\ mailed' = IF sent THEN [mailed EXCEPT ![o][job[j].milestone] = @ + 1] ELSE mailed
  /\ job' = [job EXCEPT ![j] = [Free EXCEPT !.pc = "next", !.left = job[j].left]]
  /\ UNCHANGED <<now, row, end, reserved, ran>>

Finishes(j) ==
  /\ job[j].pc = "next"
  /\ job[j].left = {}
  /\ job' = [job EXCEPT ![j] = Free]
  /\ ran' = TRUE
  /\ UNCHANGED <<now, row, end, reserved, mailed>>

\* The function is cut: maxDuration, or the process.
Dies(j) ==
  /\ job[j].pc # "idle"
  /\ job' = [job EXCEPT ![j] = Free]
  /\ UNCHANGED <<now, row, end, reserved, mailed, ran>>

(***************************************************************************)
(* The rest of the application.                                            *)
(***************************************************************************)
\* getOrganizationEntitlement, which any page and any automation calls.
Expires(o) ==
  /\ row[o] = "TRIALING" /\ end[o] <= now
  /\ row' = [row EXCEPT ![o] = "EXPIRED"]
  /\ UNCHANGED <<now, end, reserved, mailed, job, ran>>

Pays(o) ==
  /\ row[o] # "ACTIVE"
  /\ row' = [row EXCEPT ![o] = "ACTIVE"]
  /\ UNCHANGED <<now, end, reserved, mailed, job, ran>>

Next ==
  \/ Tick
  \/ \E j \in Jobs : \/ Starts(j) \/ Finishes(j) \/ Dies(j)
                     \/ \E o \in Orgs : \/ Passes(j, o) \/ Reserves(j, o)
                                        \/ \E sent \in BOOLEAN : Mails(j, o, sent)
  \/ \E o \in Orgs : Expires(o) \/ Pays(o)

Spec == Init /\ [][Next]_vars

(***************************************************************************)
(* Properties.                                                             *)
(***************************************************************************)
\* "el segundo create choca contra el índice y no se manda el correo de nuevo".
OnceEach == \A o \in Orgs, m \in Milestones : mailed[o][m] <= 1

\* "A 2 días no se avisa: el hito de 3 ya salió": when the trial of an organization that
\* has not paid is over, its notices of three days and one were reserved.
NoticesBeforeEnd == \A o \in Orgs :
  row[o] # "ACTIVE" /\ end[o] < now => {3, 1} \subseteq reserved[o]

\* "3 días, 1 día y vencida": two days after the end of a trial that was not paid, the
\* notice of its end was reserved.
EndNoticed == \A o \in Orgs :
  row[o] # "ACTIVE" /\ end[o] + 2 * Day <= now => 0 \in reserved[o]
=================================================================================

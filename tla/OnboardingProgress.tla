--------------------------- MODULE OnboardingProgress ---------------------------
(***************************************************************************)
(* The guided configuration of an organization: the progress computed from *)
(* what the database holds (organizations/onboarding-progress.ts), the     *)
(* redirection of its pages (onboarding-context.ts) and the actions that   *)
(* skip a step and finish (actions/onboarding.ts).  The data of a step is  *)
(* a flag, which the rest of the application may clear.                    *)
(***************************************************************************)
EXTENDS Naturals, FiniteSets

CONSTANT Requests     \* requests that may be running at once

VARIABLES
  data,         \* the steps whose data exists
  row,          \* OrganizationOnboarding; an organization older than it has none
  request       \* the local state of a request

vars == <<data, row, request>>

\* ONBOARDING_STEPS, by position: 1 negocio, 2 informacion, 3 horarios, 4 catalogo,
\* 5 integraciones, 6 prueba, 7 finalizar.
Steps == 1 .. 7
Finish == 7
Optional == {5, 6}
Required == Steps \ Optional

Free == [pc |-> "idle", step |-> 1, skipped |-> {}]
Started == [exists |-> TRUE, completed |-> FALSE, skipped |-> {}, last |-> 2]
\* The steps whose data the tables of the organization hold.
Signals == SUBSET (2 .. 6)
NoRow == [exists |-> FALSE, completed |-> FALSE, skipped |-> {}, last |-> 2]

\* The flags, the row and the requests keep their types.
TypeOK ==
  /\ data \in Signals
  /\ row \in [exists : BOOLEAN, completed : BOOLEAN, skipped : SUBSET Optional, last : Steps]
  /\ request \in [Requests -> [pc : {"idle", "skip", "finish"}, step : Steps,
                               skipped : SUBSET Optional]]

Init ==
  /\ data \in {{}, 2 .. 4}
  /\ row \in {Started, NoRow}
  /\ request = [r \in Requests |-> Free]

\* ensureOnboardingRow: an organization without the row is taken as finished.
Record == IF row.exists THEN row
          ELSE [exists |-> TRUE, completed |-> TRUE, skipped |-> {}, last |-> Finish]

(***************************************************************************)
(* buildOnboardingState.                                                   *)
(***************************************************************************)
Done(step) == \/ step = 1
              \/ step = Finish /\ Record.completed
              \/ step \in data

Pending(step) == ~ Done(step) /\ ~ (step \in Optional /\ step \in Record.skipped)

\* Mutation: every pending step locks those after it.
LockedByAny(step) == \E s \in Steps : s < step /\ Pending(s)
\* A required step pending locks the steps after it.
Locked(step) == \E s \in Required : s < step /\ Pending(s)

\* Mutation: a step that was left out keeps the end closed.
EveryDone == \A s \in Steps \ {Finish} : Done(s)
CanFinish == \A s \in Required \ {Finish} : Done(s)

NextStep == IF Record.completed THEN Finish
            ELSE LET open == {s \in Steps : Pending(s) /\ ~ Locked(s)} IN
                 IF open = {} THEN Finish ELSE CHOOSE s \in open : \A t \in open : s <= t

\* The page of a step sends the visitor elsewhere: redirectIfStepLocked, the test of the
\* last page, and the first page of an organization that exists.
Redirects(step) ==
  \/ step = 1
  \/ Locked(step)
  \/ step = Finish /\ ~ CanFinish /\ ~ Record.completed

(***************************************************************************)
(* The pages and the actions.                                              *)
(***************************************************************************)
\* A page that is shown remembers its step; the context of any page ensures the row.
Visits(step) ==
  /\ row' = IF Redirects(step) \/ Record.completed THEN Record
            ELSE [Record EXCEPT !.last = step]
  /\ UNCHANGED <<data, request>>

\* Mutation: any step may be left out.
AnyStep == Steps
Skippable == Optional

ReadsSkipped(r, step) ==
  /\ request[r].pc = "idle"
  /\ step \in Skippable
  /\ row' = Record
  /\ request' = [request EXCEPT ![r] = [pc |-> "skip", step |-> step, skipped |-> Record.skipped]]
  /\ UNCHANGED data

\* Mutation: the step alone.
OnlyStep(r) == {request[r].step}
WithStep(r) == request[r].skipped \cup {request[r].step}

WritesSkipped(r) ==
  /\ request[r].pc = "skip"
  /\ row' = IF request[r].step \in request[r].skipped THEN row
            ELSE [row EXCEPT !.skipped = WithStep(r)]
  /\ request' = [request EXCEPT ![r] = Free]
  /\ UNCHANGED data

ReadsFinish(r) ==
  /\ request[r].pc = "idle"
  /\ ~ Record.completed /\ CanFinish
  /\ request' = [request EXCEPT ![r] = [Free EXCEPT !.pc = "finish"]]
  /\ UNCHANGED <<data, row>>

WritesFinish(r) ==
  /\ request[r].pc = "finish"
  /\ row' = IF row.completed THEN row ELSE [row EXCEPT !.completed = TRUE, !.last = Finish]
  /\ request' = [request EXCEPT ![r] = Free]
  /\ UNCHANGED data

\* The forms of the steps and of the dashboard save and clear what a step counts; the use
\* of the agent is only added.
Saves(step) ==
  /\ step \in (2 .. 6) \ data
  /\ data' = data \cup {step}
  /\ UNCHANGED <<row, request>>

Clears(step) ==
  /\ step \in data \ {6}
  /\ data' = data \ {step}
  /\ UNCHANGED <<row, request>>

Next ==
  \/ \E step \in Steps : Visits(step) \/ Saves(step) \/ Clears(step)
  \/ \E r \in Requests : \/ \E step \in Steps : ReadsSkipped(r, step)
                         \/ WritesSkipped(r) \/ ReadsFinish(r) \/ WritesFinish(r)

Spec == Init /\ [][Next]_vars

(***************************************************************************)
(* Properties.                                                             *)
(***************************************************************************)
\* "redirige al que corresponde": the step a page redirects to is shown.
RedirectEnds == \A step \in Steps : Redirects(step) => ~ Redirects(NextStep)

\* While the configuration is not finished, the page redirected to is shown.
RedirectEndsOpen == ~ Record.completed => RedirectEnds

\* "los pasos opcionales no frenan la finalización": the last page is open exactly when
\* the required steps are done.
FinishAgrees == Locked(Finish) <=> ~ CanFinish

\* "si falta un paso obligatorio se rechaza": the configuration is finished only when its
\* required steps are done.
FinishedReady == [][(row.exists /\ ~ row.completed /\ row'.completed) => CanFinish]_vars

\* "Marca un paso OPCIONAL como omitido": a step that was left out stays so.
SkipsKeptStep == row.skipped \subseteq row'.skipped
SkipsKept == [][SkipsKeptStep]_vars
=================================================================================

--------------------------- MODULE AutomationProofs ---------------------------
(***************************************************************************)
(* What is proved of the automation, for every value of the constants.     *)
(*   - Every row, process and counter keeps its type (TypeInv).            *)
(*   - A follow-up is sent at most once, succeeds only if it was sent, and *)
(*     the whole refines FollowUpOnce (SendInv).                           *)
(*   - One that was cancelled before its claim is not sent (AuditInv).     *)
(*   - An event being processed always has its current run, the two end    *)
(*     together with the same outcome, and a final outcome is never        *)
(*     rewritten (RunInv).                                                 *)
(*   - A handoff alerts each recipient at most once, is reported SUCCEEDED *)
(*     only if it alerted all of them, and is not put back in the queue    *)
(*     while it does (AlertInv).                                           *)
(* Most steps are quiet: they keep the invariant by one lemma.  The others *)
(* are treated one by one.                                                 *)
(***************************************************************************)
EXTENDS CancellationAudit, TLAPS

------------------------------------------------------------------------------
(* Type correctness.  Each step is first described by what it keeps of the    *)
(* rows (RowsKeep, RunsKeep, MessagesKeep and one definition per process); the *)
(* proofs about the sends and the refinement cite these descriptions instead   *)
(* of the actions.                                                             *)

\* What a row keeps in every step that neither claims it nor reserves its
\* message, and, if the step does not report its success, its status.
RowMoves(old, new) ==
  /\ new \in EventRow
  /\ Numbered(new)
  /\ new.status = "ABSENT" <=> old.status = "ABSENT"
  /\ new.claimed = old.claimed
  /\ new.msg \in {0, old.msg}
RowKeeps(old, new) ==
  RowMoves(old, new) /\ (new.status = "SUCCEEDED" => old.status = "SUCCEEDED")
RowsMove(rs) == /\ rs \in [Events -> EventRow]
                /\ \A e \in Events : RowMoves(event[e], rs[e])
RowsKeep(rs) == /\ rs \in [Events -> EventRow]
                /\ \A e \in Events : RowKeeps(event[e], rs[e])

RowsKeepFollowUps == \A e \in FollowUps : RowKeeps(event[e], event'[e])

\* What the alert action leaves as it is: every status, and the follow-ups.
RowsAlert(rs) ==
  /\ rs \in [Events -> EventRow]
  /\ \A e \in Events :
       /\ Numbered(rs[e])
       /\ rs[e].status = event[e].status
  /\ \A e \in FollowUps : rs[e] = event[e]

\* A message stays with its follow-up and is not sent by the step.
MessagesKeep(ms) ==
  /\ ms \in [Messages -> MessageRow]
  /\ \A m \in Messages :
       /\ ms[m].ev = message[m].ev
       /\ message[m].status # "NONE" => ms[m].status # "NONE"
       /\ ms[m].status = "SENT" => message[m].status = "SENT"

\* A run never moves to another event nor disappears.
RunsKeep(rs) == \A r \in Runs : run[r].status # "NONE" =>
                  rs[r].status # "NONE" /\ rs[r].ev = run[r].ev

\* Follow-ups and handoffs are disjoint events; 0 names no row.
LEMMA EventSets ==
  /\ FollowUps \subseteq Events /\ Handoffs \subseteq Events
  /\ FollowUps \cap Handoffs = {}
  /\ 0 \notin Events /\ 0 \notin Runs /\ 0 \notin Messages
  /\ Runs \subseteq 0 .. Renewed
BY BoundsAssumption DEF Events, FollowUps, Handoffs, Runs, Messages, Renewed

\* What the operators on a row return is a row (cancelRow, retry, reprogramming,
\* decideAfterDispatch).
LEMMA RowTypes ==
  ASSUME NEW row \in EventRow
  PROVE  /\ CancelRow(row) \in EventRow
         /\ PendingRow \in EventRow /\ AbsentRow \in EventRow
         /\ [row EXCEPT !.mark = TRUE] \in EventRow
         /\ RetryRow(row) \in EventRow
         /\ row.attempts # 0 => ReprogrammedRow(row) \in EventRow
         /\ \A b \in BOOLEAN : FailedDispatchRow(row, b) \in EventRow
<1>0. 0 \in 0 .. Renewed
  BY BoundsAssumption DEF Renewed
<1>1. AbsentRow \in EventRow
  BY <1>0 DEF EventRow, EventStatus, AbsentRow
<1>2. PendingRow \in EventRow
  BY <1>1 DEF EventRow, EventStatus, PendingRow
<1>3. CancelRow(row) \in EventRow
  BY <1>0 DEF EventRow, EventStatus, CancelRow
<1>4. [row EXCEPT !.mark = TRUE] \in EventRow
  BY DEF EventRow
<1>5. RetryRow(row) \in EventRow
  BY <1>0 DEF EventRow, EventStatus, RetryRow
<1>6. ASSUME row.attempts # 0 PROVE ReprogrammedRow(row) \in EventRow
  <2>1. row.attempts - 1 \in Nat
    BY <1>6 DEF EventRow
  <2>2. 0 \in {0} \cup Messages /\ "PENDING" \in EventStatus
    BY DEF EventStatus
  <2> QED BY <1>0, <2>1, <2>2 DEF EventRow, ReprogrammedRow
<1>7. ASSUME NEW b \in BOOLEAN PROVE FailedDispatchRow(row, b) \in EventRow
  <2> DEFINE status == IF ~b THEN "FAILED"
                       ELSE IF Exhausted(row) THEN "DEAD_LETTER" ELSE "PENDING"
  <2>1. status \in EventStatus
    BY DEF EventStatus
  <2>2. FailedDispatchRow(row, b) = [row EXCEPT !.status = status, !.lock = 0,
                                                !.stale = FALSE]
    BY DEF FailedDispatchRow
  <2> HIDE DEF status
  <2> QED BY <1>0, <2>1, <2>2 DEF EventRow
<1> QED BY <1>1, <1>2, <1>3, <1>4, <1>5, <1>6, <1>7

\* Ending one STARTED run leaves every run with its event.
LEMMA ClosingOne ==
  ASSUME run \in [Runs -> RunRow], NEW r \in Runs,
         NEW outcome \in {"SUCCEEDED", "FAILED"}
  PROVE  /\ CloseRun(r, outcome) \in [Runs -> RunRow]
         /\ RunsKeep(CloseRun(r, outcome))
BY DEF CloseRun, RunRow, RunsKeep

\* So does ending all the STARTED runs of an attempt.
LEMMA ClosingAll ==
  ASSUME run \in [Runs -> RunRow], NEW e, NEW attempt,
         NEW outcome \in {"SUCCEEDED", "FAILED"}
  PROVE  /\ CloseRuns(e, attempt, outcome) \in [Runs -> RunRow]
         /\ RunsKeep(CloseRuns(e, attempt, outcome))
BY DEF CloseRuns, RunRow, RunsKeep

\* Discarding a reserved message never makes one sent.
LEMMA Discarding ==
  ASSUME message \in [Messages -> MessageRow], NEW m \in {0} \cup Messages
  PROVE  MessagesKeep(message) /\ MessagesKeep(DiscardMessage(m))
BY DEF DiscardMessage, MessageRow, MessagesKeep

\* Cancelling, marking, retrying, rescheduling and failing a dispatch keep what
\* the safety of the sends depends on.
LEMMA RowsKept ==
  ASSUME NEW row \in EventRow, row.status # "ABSENT",
         Numbered(row)
  PROVE  /\ RowKeeps(row, row)
         /\ RowKeeps(row, CancelRow(row))
         /\ RowKeeps(row, [row EXCEPT !.mark = TRUE])
         /\ RowKeeps(row, RetryRow(row))
         /\ row.attempts # 0 => RowKeeps(row, ReprogrammedRow(row))
         /\ \A b \in BOOLEAN : RowKeeps(row, FailedDispatchRow(row, b))
<1>1. RowKeeps(row, row)
  BY DEF RowKeeps, RowMoves
<1>2. RowKeeps(row, CancelRow(row))
  BY RowTypes DEF RowKeeps, RowMoves, CancelRow, EventRow, Numbered
<1>3. RowKeeps(row, [row EXCEPT !.mark = TRUE])
  BY RowTypes DEF RowKeeps, RowMoves, EventRow, Numbered
<1>4. RowKeeps(row, RetryRow(row))
  <2>1. /\ RetryRow(row).status = "PENDING" /\ RetryRow(row).attempts = 0
        /\ RetryRow(row).claimed = row.claimed /\ RetryRow(row).msg = row.msg
    BY DEF RetryRow, EventRow
  <2>2. Numbered(RetryRow(row))
    BY <2>1, BoundsAssumption DEF Numbered
  <2> QED BY <2>1, <2>2, RowTypes DEF RowKeeps, RowMoves
<1>5. ASSUME row.attempts # 0 PROVE RowKeeps(row, ReprogrammedRow(row))
  <2>1. /\ ReprogrammedRow(row).status = "PENDING"
        /\ ReprogrammedRow(row).attempts = row.attempts - 1
        /\ ReprogrammedRow(row).claimed = row.claimed /\ ReprogrammedRow(row).msg \in {0, row.msg}
    BY DEF ReprogrammedRow, EventRow
  <2>2. Numbered(ReprogrammedRow(row))
    BY <2>1, BoundsAssumption DEF Numbered, EventRow
  <2> QED BY <1>5, <2>1, <2>2, RowTypes DEF RowKeeps, RowMoves
<1>6. ASSUME NEW b \in BOOLEAN PROVE RowKeeps(row, FailedDispatchRow(row, b))
  <2>1. FailedDispatchRow(row, b) \in EventRow
    BY RowTypes
  <2>2. Numbered(FailedDispatchRow(row, b))
    BY BoundsAssumption DEF Numbered, FailedDispatchRow, Exhausted, EventRow
  <2> QED BY <2>1, <2>2 DEF RowKeeps, RowMoves, FailedDispatchRow, EventRow
<1> QED BY <1>1, <1>2, <1>3, <1>4, <1>5, <1>6

\* Replacing one row by one it keeps keeps them all.
LEMMA OneKept ==
  ASSUME event \in [Events -> EventRow], Counted, NEW e \in Events, NEW row,
         RowKeeps(event[e], row)
  PROVE  RowsKeep([event EXCEPT ![e] = row])
BY DEF RowsKeep, RowKeeps, RowMoves, Counted

\* The same when the step may report a success.
LEMMA OneMoved ==
  ASSUME event \in [Events -> EventRow], Counted, NEW e \in Events, NEW row,
         RowMoves(event[e], row)
  PROVE  RowsMove([event EXCEPT ![e] = row])
BY DEF RowsMove, RowMoves, Counted

\* Keeping is the stronger of the two.
LEMMA KeptMoves ==
  ASSUME NEW rs, RowsKeep(rs)
  PROVE  RowsMove(rs)
BY DEF RowsMove, RowsKeep, RowKeeps

\* Both statements of cancelPendingFollowUpsTx keep every row.
LEMMA CancellationKeeps ==
  ASSUME event \in [Events -> EventRow], Counted
  PROVE  /\ RowsKeep(CancelPending(event)) /\ RowsKeep(MarkProcessing(event))
         /\ RowsKeep(CancelFollowUps(event))
<1>1. RowsKeep(CancelPending(event))
  <2>1. ASSUME NEW e \in Events
        PROVE  RowKeeps(event[e], CancelPending(event)[e])
    <3>1. CASE event[e].status = "PENDING" /\ e \in FollowUps
      <4>1. CancelPending(event)[e] = CancelRow(event[e])
        BY <3>1 DEF CancelPending
      <4>2. RowKeeps(event[e], CancelRow(event[e]))
        BY <3>1, RowsKept DEF Counted
      <4> QED BY <4>1, <4>2
    <3>2. CASE ~(event[e].status = "PENDING" /\ e \in FollowUps)
      BY <3>2 DEF CancelPending, RowKeeps, RowMoves, Counted
    <3> QED BY <3>1, <3>2
  <2>2. \A e \in Events : CancelPending(event)[e] \in EventRow
    BY <2>1 DEF RowKeeps, RowMoves
  <2> QED BY <2>1, <2>2 DEF RowsKeep, CancelPending
<1>2. ASSUME NEW rs, RowsKeep(rs) PROVE RowsKeep(MarkProcessing(rs))
  <2>1. ASSUME NEW e \in Events
        PROVE  RowKeeps(event[e], MarkProcessing(rs)[e])
    <3>1. RowKeeps(event[e], rs[e])
      BY <1>2 DEF RowsKeep
    <3>2. CASE MarkProcessing(rs)[e] = [rs[e] EXCEPT !.mark = TRUE]
      <4>1. [rs[e] EXCEPT !.mark = TRUE] \in EventRow
        BY <3>1, RowTypes DEF RowKeeps, RowMoves
      <4>2. /\ [rs[e] EXCEPT !.mark = TRUE].status = rs[e].status
            /\ [rs[e] EXCEPT !.mark = TRUE].attempts = rs[e].attempts
            /\ [rs[e] EXCEPT !.mark = TRUE].claimed = rs[e].claimed
            /\ [rs[e] EXCEPT !.mark = TRUE].msg = rs[e].msg
        BY <3>1 DEF RowKeeps, RowMoves, EventRow
      <4>3. Numbered(rs[e]) /\ rs[e].status = [rs[e] EXCEPT !.mark = TRUE].status
        BY <3>1, <4>2 DEF RowKeeps, RowMoves
      <4>4. Numbered([rs[e] EXCEPT !.mark = TRUE])
        BY <4>2, <4>3 DEF Numbered
      <4> QED BY <3>1, <3>2, <4>1, <4>2, <4>4 DEF RowKeeps, RowMoves
    <3>3. CASE MarkProcessing(rs)[e] = rs[e]
      BY <3>1, <3>3
    <3> QED BY <3>2, <3>3 DEF MarkProcessing
  <2>2. \A e \in Events : MarkProcessing(rs)[e] \in EventRow
    BY <2>1 DEF RowKeeps, RowMoves
  <2> QED BY <2>1, <2>2 DEF RowsKeep, MarkProcessing
<1>3. RowsKeep(event)
  BY DEF RowsKeep, RowKeeps, RowMoves, Counted
<1> QED BY <1>1, <1>2, <1>3 DEF CancelFollowUps

\* The initial rows have their types.
LEMMA InitType == Init => TypeInv
<1> SUFFICES ASSUME Init PROVE TypeInv
  OBVIOUS
<1> USE DEF Init
<1>1. StoreTypeOK
  <2>1. AbsentRow \in EventRow /\ PendingRow \in EventRow
    <3>1. AbsentRow \in EventRow
      BY BoundsAssumption DEF EventRow, EventStatus, AbsentRow, Renewed
    <3> QED BY <3>1 DEF EventRow, EventStatus, PendingRow
  <2> QED BY <2>1 DEF StoreInit, StoreTypeOK, RunRow, MessageRow, DeliveryStatus
<1>2. /\ QueueTypeOK /\ ActionTypeOK /\ CallbackTypeOK /\ GateTypeOK
      /\ DispatchersKnow /\ HandlersKnow /\ CallbacksKnow
  BY DEF QueueInit, QueueTypeOK, DispatcherState, DispatcherIdle, ActionInit,
     ActionTypeOK, HandlerState, HandlerIdle, CallbackInit, CallbackTypeOK,
     CallbackState, CallbackIdle, GateInit, GateTypeOK, GateKinds,
     DispatchersKnow, HandlersKnow, CallbacksKnow
<1>3. AlertTypeOK /\ AlertersKnow
  BY DEF AlertInit, AlertTypeOK, AlerterState, AlerterIdle, NoOutcome, Outcome,
     AlertersKnow
<1>4. Counted /\ RunsKnown
  BY BoundsAssumption DEF StoreInit, Counted, Numbered, RunsKnown, PendingRow, AbsentRow
<1> QED BY <1>1, <1>2, <1>3, <1>4 DEF TypeInv, TypeOK

\* A process that does not move knows what it knew.
LEMMA UnmovedProcesses ==
  ASSUME TypeInv
  PROVE  /\ dispatcher' = dispatcher => QueueTypeOK' /\ DispatchersKnow'
         /\ handler' = handler => ActionTypeOK' /\ HandlersKnow'
         /\ alerter' = alerter => AlertTypeOK' /\ AlertersKnow'
         /\ (callback' = callback /\ RunsKeep(run')) =>
              CallbackTypeOK' /\ CallbacksKnow'
         /\ gate' = gate => GateTypeOK'
<1> USE DEF TypeInv, TypeOK
<1>1. dispatcher' = dispatcher => QueueTypeOK' /\ DispatchersKnow'
  BY DEF QueueTypeOK, DispatchersKnow
<1>2. handler' = handler => ActionTypeOK' /\ HandlersKnow'
  BY DEF ActionTypeOK, HandlersKnow
<1>3. alerter' = alerter => AlertTypeOK' /\ AlertersKnow'
  BY DEF AlertTypeOK, AlertersKnow
<1>4. (callback' = callback /\ RunsKeep(run')) =>
         CallbackTypeOK' /\ CallbacksKnow'
  BY DEF CallbackTypeOK, CallbacksKnow, RunsKeep
<1>5. gate' = gate => GateTypeOK'
  BY DEF GateTypeOK
<1> QED BY <1>1, <1>2, <1>3, <1>4, <1>5

\* Rows that moved have their types.
LEMMA RowsType ==
  ASSUME NEW rs, RowsMove(rs)
  PROVE  /\ rs \in [Events -> EventRow]
         /\ \A e \in Events : Numbered(rs[e])
BY DEF RowsMove, RowMoves

\* Doing nothing, or ending runs, keeps the runs known.
LEMMA SameRuns ==
  ASSUME TypeInv
  PROVE  /\ RunsKeep(run) /\ RowsKeep(event) /\ MessagesKeep(message)
         /\ run' = run => RunsKnown'
         /\ \A r \in Runs, outcome \in {"SUCCEEDED", "FAILED"} :
              run' = CloseRun(r, outcome) => RunsKnown'
         /\ \A e, attempt : \A outcome \in {"SUCCEEDED", "FAILED"} :
              run' = CloseRuns(e, attempt, outcome) => RunsKnown'
BY DEF TypeInv, TypeOK, RunsKnown, RunsKeep, CloseRun, CloseRuns, StoreTypeOK, RunRow,
   MessagesKeep, Counted, RowsKeep, RowKeeps, RowMoves

\* A step of a dispatcher keeps the rows and knows its own.
Kept == /\ RowsKeep(event') /\ RunsKeep(run')
        /\ UNCHANGED <<message, sends>>
QueueKeeps == /\ Kept /\ QueueTypeOK' /\ DispatchersKnow'
              /\ run' \in [Runs -> RunRow] /\ RunsKnown'
              /\ received' \subseteq Runs
              /\ UNCHANGED <<delivery, world, history>>

\* The preflight only postpones a row.
LEMMA PreflightKeeps ==
  ASSUME TypeInv, NEW d \in Dispatchers, NEW e \in Events, Preflight(d, e)
  PROVE  QueueKeeps
<1> USE DEF TypeInv, TypeOK
<1>1. RowsKeep(event')
  <2>1. CASE event' = [event EXCEPT ![e].due = FALSE]
    <3>1. /\ event[e] \in EventRow /\ Numbered(event[e])
          /\ event[e].status = "PENDING"
      BY DEF StoreTypeOK, Preflight, Counted
    <3>2. RowKeeps(event[e], [event[e] EXCEPT !.due = FALSE])
      BY <3>1 DEF RowKeeps, RowMoves, EventRow, Numbered
    <3>3. event' = [event EXCEPT ![e] = [event[e] EXCEPT !.due = FALSE]]
      BY <2>1
    <3> QED BY <3>2, <3>3, OneKept DEF StoreTypeOK
  <2>2. CASE event' = event
    BY <2>2, SameRuns
  <2> QED BY <2>1, <2>2 DEF Preflight
<1>2. QueueTypeOK' /\ DispatchersKnow'
  BY DEF Preflight, QueueTypeOK, DispatcherState, DispatchersKnow
<1>3. UNCHANGED <<run, message, delivery, received, world, history, sends>>
  BY DEF Preflight, history, world
<1> QED BY <1>1, <1>2, <1>3, SameRuns DEF Kept, QueueKeeps, StoreTypeOK

\* The preflight's cancellation and the claim that claims nothing.
LEMMA CancelsKeep ==
  ASSUME TypeInv, NEW d \in Dispatchers, PreflightCancel(d) \/ ClaimNothing(d)
  PROVE  QueueKeeps
<1> USE DEF TypeInv, TypeOK
<1> DEFINE e == dispatcher[d].ev
<1>0. e \in Events /\ event[e] \in EventRow /\ Numbered(event[e])
  BY DEF DispatchersKnow, PreflightCancel, ClaimNothing, StoreTypeOK, Counted
<1>1. RowsKeep(event')
  <2>1. CASE event[e].status = "PENDING" /\ event' = [event EXCEPT ![e] = CancelRow(@)]
    <3>1. RowKeeps(event[e], CancelRow(event[e]))
      BY <1>0, <2>1, RowsKept
    <3> QED BY <1>0, <2>1, <3>1, OneKept DEF StoreTypeOK
  <2>2. CASE event' = event
    BY <2>2, SameRuns
  <2> QED BY <2>1, <2>2 DEF PreflightCancel, ClaimNothing
<1>2. QueueTypeOK' /\ DispatchersKnow'
  BY DEF PreflightCancel, ClaimNothing, QueueTypeOK, DispatcherState,
     DispatcherIdle, DispatchersKnow
<1>3. UNCHANGED <<run, message, delivery, received, world, history, sends>>
  BY DEF PreflightCancel, ClaimNothing, history, world
<1> QED BY <1>1, <1>2, <1>3, SameRuns DEF Kept, QueueKeeps, StoreTypeOK

\* The claim transaction creates a run of the event it claims.
LEMMA ClaimKeeps ==
  ASSUME TypeInv, NEW d \in Dispatchers, NEW r \in Runs, ClaimEvent(d, r)
  PROVE  QueueKeeps
<1> USE DEF TypeInv, TypeOK, ClaimEvent, ClaimFor
<1> DEFINE e == dispatcher[d].ev
<1>0. e \in Events /\ event[e] \in EventRow /\ r \in 0 .. Renewed
  BY EventSets DEF DispatchersKnow, StoreTypeOK
<1>1. RowsKeep(event')
  <2>1. event[e].attempts + 1 \in Nat /\ event[e].attempts + 1 # 0
    BY <1>0 DEF EventRow
  <2>2. "PROCESSING" \in EventStatus
    BY DEF EventStatus
  <2>3. RowKeeps(event[e], ClaimedRow(event[e], r))
    <3>1. Numbered(event[e]) /\ event[e].status = "PENDING"
      BY <1>0 DEF Counted
    <3>2. /\ ClaimedRow(event[e], r).status = "PROCESSING"
          /\ ClaimedRow(event[e], r).attempts = event[e].attempts + 1
      BY <1>0 DEF ClaimedRow, EventRow
    <3>3. Numbered(ClaimedRow(event[e], r))
      BY <1>0, <2>1, <3>1, <3>2, BoundsAssumption DEF Numbered, EventRow
    <3> QED BY <1>0, <2>1, <2>2, <3>3 DEF EventRow, ClaimedRow, RowKeeps, RowMoves
  <2> QED BY <1>0, <2>3, OneKept DEF StoreTypeOK
<1>2. QueueTypeOK' /\ DispatchersKnow'
  BY <1>0 DEF QueueTypeOK, DispatcherState, DispatchersKnow
<1>3. UNCHANGED <<message, delivery, received, world, history, sends>>
  BY DEF history, world
<1>4. run' \in [Runs -> RunRow] /\ RunsKnown' /\ RunsKeep(run')
  <2>1. event[e].attempts + 1 \in Nat
    BY <1>0 DEF EventRow
  <2> QED BY <1>0, <2>1 DEF StoreTypeOK, RunRow, RunsKnown, RunsKeep, FreshRun
<1> QED BY <1>1, <1>2, <1>3, <1>4 DEF Kept, QueueKeeps, StoreTypeOK

\* The webhook call, the record transaction and a cut-off dispatcher.
LEMMA DispatchKeeps ==
  ASSUME TypeInv, NEW d \in Dispatchers,
         Dispatch(d) \/ Record(d) \/ DispatcherStops(d)
  PROVE  QueueKeeps
<1> USE DEF TypeInv, TypeOK
<1> DEFINE e == dispatcher[d].ev
           r == dispatcher[d].run
<1>0. /\ e \in Events /\ event[e] \in EventRow
      /\ ~DispatcherStops(d) => r \in Runs
  BY DEF DispatchersKnow, StoreTypeOK, Dispatch, Record, DispatcherStops
<1>1. QueueTypeOK' /\ DispatchersKnow'
  BY <1>0 DEF Dispatch, Record, DispatcherStops, QueueTypeOK, DispatcherState,
     DispatcherIdle, DispatchersKnow
<1>2. received' \subseteq Runs
  BY <1>0 DEF Dispatch, Record, DispatcherStops, StoreTypeOK, store
<1>3. UNCHANGED <<message, delivery, world, history, sends>>
  BY DEF Dispatch, Record, DispatcherStops, rows, history, world, store
<1>4. CASE UNCHANGED <<event, run>>
  BY <1>1, <1>2, <1>3, <1>4, SameRuns DEF Kept, QueueKeeps, StoreTypeOK
<1>5. ASSUME NEW b \in BOOLEAN, Owns(d), ~DispatcherStops(d),
             event' = [event EXCEPT ![e] = FailedDispatchRow(@, b)],
             run' = CloseRun(r, "FAILED")
      PROVE  QueueKeeps
  <2>1. RowKeeps(event[e], FailedDispatchRow(event[e], b))
    BY <1>0, <1>5, RowsKept DEF Owns, Counted
  <2>2. RowsKeep(event')
    BY <1>0, <1>5, <2>1, OneKept DEF StoreTypeOK
  <2>3. run' \in [Runs -> RunRow] /\ RunsKeep(run') /\ RunsKnown'
    BY <1>0, <1>5, ClosingOne, SameRuns DEF StoreTypeOK
  <2> QED BY <1>1, <1>2, <1>3, <2>2, <2>3 DEF Kept, QueueKeeps
<1> QED BY <1>4, <1>5 DEF Dispatch, Record, DispatcherStops, rows, store

\* A step on one event, outside any process.
EventKeeps == /\ RowsMove(event') /\ RunsKeep(run') /\ MessagesKeep(message')
              /\ run' \in [Runs -> RunRow] /\ RunsKnown'
              /\ UNCHANGED <<delivery, received, world, history, dispatcher>>

\* The administrator's retry and cancel, and the passing of time.
LEMMA AdministrationKeeps ==
  ASSUME TypeInv, NEW e \in Events,
         RetryEvent(e) \/ CancelEvent(e) \/ BecomeDue(e) \/ BecomeStale(e)
  PROVE  EventKeeps /\ RowsKeep(event') /\ UNCHANGED message
<1> USE DEF TypeInv, TypeOK
<1>0. event[e] \in EventRow /\ Numbered(event[e])
  BY DEF StoreTypeOK, Counted
<1>1. ASSUME NEW row, RowKeeps(event[e], row), event' = [event EXCEPT ![e] = row]
      PROVE  RowsKeep(event')
  BY <1>1, OneKept DEF StoreTypeOK
<1>2. CASE RetryEvent(e)
  <2>1. RowKeeps(event[e], RetryRow(event[e]))
    BY <1>0, <1>2, RowsKept DEF RetryEvent
  <2> QED BY <1>1, <1>2, <2>1, SameRuns, KeptMoves
          DEF RetryEvent, EventKeeps, StoreTypeOK
<1>3. CASE CancelEvent(e)
  <2>1. RowKeeps(event[e], CancelRow(event[e]))
    BY <1>0, <1>3, RowsKept DEF CancelEvent
  <2> QED BY <1>1, <1>3, <2>1, SameRuns, KeptMoves
          DEF CancelEvent, EventKeeps, StoreTypeOK
<1>4. CASE BecomeDue(e)
  <2>1. RowKeeps(event[e], [event[e] EXCEPT !.due = TRUE])
    BY <1>0, <1>4 DEF BecomeDue, RowKeeps, RowMoves, EventRow, Numbered
  <2>2. event' = [event EXCEPT ![e] = [event[e] EXCEPT !.due = TRUE]]
    BY <1>4 DEF BecomeDue
  <2> QED BY <1>1, <1>4, <2>1, <2>2, SameRuns, KeptMoves
          DEF BecomeDue, EventKeeps, StoreTypeOK
<1>5. CASE BecomeStale(e)
  <2>1. RowKeeps(event[e], [event[e] EXCEPT !.stale = TRUE])
    BY <1>0, <1>5 DEF BecomeStale, RowKeeps, RowMoves, EventRow, Numbered
  <2>2. event' = [event EXCEPT ![e] = [event[e] EXCEPT !.stale = TRUE]]
    BY <1>5 DEF BecomeStale
  <2> QED BY <1>1, <1>5, <2>1, <2>2, SameRuns, KeptMoves
          DEF BecomeStale, EventKeeps, StoreTypeOK
<1> QED BY <1>2, <1>3, <1>4, <1>5

\* reclaimStaleProcessing reports a follow-up's success only if its message
\* was sent.
LEMMA RecoveryKeeps ==
  ASSUME TypeInv, NEW e \in Events, ReclaimStale(e)
  PROVE  /\ EventKeeps
         /\ \A f \in FollowUps : event'[f].status = "SUCCEEDED" =>
              event[f].status = "SUCCEEDED" \/ ActionSent(f)
<1> USE DEF TypeInv, TypeOK
<1> DEFINE row == RecoveredRow(e)
<1>0. /\ event[e] \in EventRow /\ 0 \in 0 .. Renewed
      /\ event[e].status = "PROCESSING"
  BY BoundsAssumption DEF StoreTypeOK, ReclaimStale, Recoverable, Renewed
<1>1. /\ StaleStatus(e) \in {"CANCELLED", "SUCCEEDED", "FAILED", "DEAD_LETTER",
                             "PENDING"}
      /\ (StaleStatus(e) = "SUCCEEDED" /\ e \in FollowUps) => ActionSent(e)
  <2>1. (StaleAction(e) = "sent" /\ e \in FollowUps) => ActionSent(e)
    BY EventSets DEF StaleAction
  <2> QED BY <2>1 DEF StaleStatus
<1>2. RowMoves(event[e], row) /\ row.status = StaleStatus(e)
  <2>1. StaleStatus(e) \in EventStatus
    BY <1>1 DEF EventStatus
  <2>2. row \in EventRow
    BY <1>0, <2>1 DEF EventRow, RecoveredRow
  <2>3. /\ row.status = StaleStatus(e)
        /\ row.claimed = event[e].claimed /\ row.msg = event[e].msg
    BY <1>0 DEF EventRow, RecoveredRow
  <2>4. row.attempts = event[e].attempts /\ Numbered(event[e])
    BY <1>0 DEF EventRow, RecoveredRow, Counted
  <2>5. StaleStatus(e) = "PENDING" => ~Exhausted(event[e])
    BY DEF StaleStatus
  <2>6. Numbered(row)
    BY <1>0, <1>1, <2>3, <2>4, <2>5, BoundsAssumption DEF Numbered, Exhausted, EventRow
  <2> QED BY <1>0, <1>1, <2>2, <2>3, <2>6 DEF RowMoves
<1>3. event' = [event EXCEPT ![e] = row]
  BY DEF ReclaimStale
<1>4. RowsMove(event')
  BY <1>2, <1>3, OneMoved DEF StoreTypeOK
<1>5. run' \in [Runs -> RunRow] /\ RunsKeep(run') /\ RunsKnown'
  <2>1. PICK outcome \in {"SUCCEEDED", "FAILED"} :
          run' = CloseRuns(e, event[e].attempts, outcome)
    BY DEF ReclaimStale
  <2> QED BY <2>1, ClosingAll, SameRuns DEF StoreTypeOK
<1>6. MessagesKeep(message')
  BY <1>0, Discarding DEF ReclaimStale, EventRow, StoreTypeOK
<1>7. ASSUME NEW f \in FollowUps, event'[f].status = "SUCCEEDED"
      PROVE  event[f].status = "SUCCEEDED" \/ ActionSent(f)
  <2>1. CASE f = e
    BY <1>1, <1>2, <1>3, <1>7, <2>1 DEF StoreTypeOK
  <2>2. CASE f # e
    BY <1>3, <1>7, <2>2, EventSets DEF StoreTypeOK
  <2> QED BY <2>1, <2>2
<1> QED BY <1>4, <1>5, <1>6, <1>7 DEF EventKeeps, ReclaimStale

\* A step of a follow-up request.
ActionKeeps == /\ event' \in [Events -> EventRow] /\ Counted'
               /\ run' \in [Runs -> RunRow] /\ RunsKnown' /\ RunsKeep(run')
               /\ message' \in [Messages -> MessageRow]
               /\ sends' \in [FollowUps -> Nat]
               /\ ActionTypeOK' /\ HandlersKnow'
               /\ UNCHANGED <<delivery, received, world, alerts>>

\* The reservation of a message.
LEMMA ReserveKeeps ==
  ASSUME TypeInv, NEW h \in Handlers, NEW r \in Runs, Reserve(h, r)
  PROVE  ActionKeeps
<1> USE DEF TypeInv, TypeOK
<1> DEFINE e == run[r].ev
<1>1. /\ e \in FollowUps /\ e \in Events /\ event[e] \in EventRow
  BY EventSets DEF Reserve, StoreTypeOK
<1>2. event' \in [Events -> EventRow] /\ Counted'
  <2>1. CASE event' = event
    BY <2>1 DEF StoreTypeOK, Counted
  <2>2. ASSUME NEW m \in Messages, event' = [event EXCEPT ![e].msg = m]
        PROVE  event' \in [Events -> EventRow] /\ Counted'
    BY <1>1, <2>2 DEF StoreTypeOK, Counted, Numbered, EventRow
  <2> QED BY <2>1, <2>2 DEF Reserve
<1>3. message' \in [Messages -> MessageRow]
  <2>1. ASSUME NEW m \in Messages,
               message' = [message EXCEPT ![m] =
                 [ev |-> e, claimed |-> FALSE, status |-> "PENDING"]]
        PROVE  message' \in [Messages -> MessageRow]
    BY <1>1, <2>1 DEF StoreTypeOK, MessageRow
  <2>2. CASE message' = message
    BY <2>2 DEF StoreTypeOK
  <2> QED BY <2>1, <2>2 DEF Reserve
<1>4. ActionTypeOK' /\ HandlersKnow'
  <2>1. ASSUME NEW pc \in {"invalidate", "reprogram"},
               handler' = [handler EXCEPT ![h] =
                 [pc |-> pc, ev |-> e, run |-> r, msg |-> 0, att |-> 0]]
        PROVE  ActionTypeOK' /\ HandlersKnow'
    BY <1>1, <2>1 DEF ActionTypeOK, HandlerState, HandlersKnow, Reserving
  <2>2. ASSUME NEW m \in Messages,
               handler' = [handler EXCEPT ![h] =
                 [pc |-> "reserved", ev |-> e, run |-> r, msg |-> m, att |-> 0]]
        PROVE  ActionTypeOK' /\ HandlersKnow'
    BY <1>1, <2>2 DEF ActionTypeOK, HandlerState, HandlersKnow, Reserving
  <2>3. event[e].msg # 0 => event[e].msg \in Messages
    BY <1>1 DEF EventRow
  <2> QED BY <2>1, <2>2, <2>3 DEF Reserve
<1> QED BY <1>2, <1>3, <1>4, SameRuns
        DEF ActionKeeps, Reserve, Others, history, StoreTypeOK

\* The reads of the two-statement transactions.
LEMMA ReadKeeps ==
  ASSUME TypeInv, NEW h \in Handlers, InvalidateRead(h) \/ ReprogramRead(h)
  PROVE  ActionKeeps
<1> USE DEF TypeInv, TypeOK
<1>1. /\ handler[h].ev \in FollowUps /\ handler[h].run \in Runs
      /\ handler[h] \in HandlerState
      /\ event[handler[h].ev] \in EventRow
  BY EventSets DEF InvalidateRead, ReprogramRead, ReadProcessing, HandlersKnow,
     ActionTypeOK, StoreTypeOK
<1>2. ActionTypeOK' /\ HandlersKnow'
  <2>1. CASE Finish(h)
    BY <2>1 DEF Finish, HandlerIdle, ActionTypeOK, HandlerState, HandlersKnow
  <2>2. ASSUME NEW to \in {"invalidating", "reprogramming"},
               handler' = [handler EXCEPT ![h] =
                 [@ EXCEPT !.pc = to, !.msg = event[handler[h].ev].msg,
                           !.att = event[handler[h].ev].attempts]]
        PROVE  ActionTypeOK' /\ HandlersKnow'
    BY <1>1, <2>2 DEF ActionTypeOK, HandlerState, HandlersKnow, EventRow,
       Reserving
  <2> QED BY <2>1, <2>2 DEF InvalidateRead, ReprogramRead, ReadProcessing
<1>3. UNCHANGED store
  BY DEF InvalidateRead, ReprogramRead, ReadProcessing
<1> QED BY <1>2, <1>3, SameRuns
        DEF ActionKeeps, store, world, StoreTypeOK, Counted

\* A request that ends forgets everything.
LEMMA FinishKeeps ==
  ASSUME TypeInv, NEW h \in Handlers, Finish(h)
  PROVE  ActionTypeOK' /\ HandlersKnow'
BY DEF TypeInv, TypeOK, Finish, HandlerIdle, ActionTypeOK, HandlerState,
   HandlersKnow

\* The writes of the two-statement transactions keep every row, whatever was
\* changed since the reads.
LEMMA WriteKeeps ==
  ASSUME TypeInv, NEW h \in Handlers, InvalidateWrite(h) \/ ReprogramWrite(h)
  PROVE  /\ ActionKeeps /\ RowsKeep(event') /\ MessagesKeep(message')
         /\ UNCHANGED sends /\ Finish(h)
<1> USE DEF TypeInv, TypeOK
<1> DEFINE e == handler[h].ev
<1>1. /\ e \in FollowUps /\ e \in Events /\ handler[h].run \in Runs
      /\ handler[h].msg \in {0} \cup Messages
      /\ event[e] \in EventRow
  BY EventSets DEF InvalidateWrite, ReprogramWrite, WriteProcessing,
     HandlersKnow, ActionTypeOK, HandlerState, StoreTypeOK
<1>2. PICK row \in {CancelRow(event[e]), ReprogrammedRow(event[e])} :
        \/ /\ event[e].status = "PROCESSING"
           /\ event' = [event EXCEPT ![e] = row]
           /\ message' = DiscardMessage(handler[h].msg)
           /\ run' = CloseRun(handler[h].run, "SUCCEEDED")
        \/ UNCHANGED <<event, message, run>>
  BY DEF InvalidateWrite, ReprogramWrite, WriteProcessing
<1>3. RowsKeep(event')
  <2>1. CASE event[e].status = "PROCESSING" /\ event' = [event EXCEPT ![e] = row]
    <3>1. RowKeeps(event[e], row)
      <4>1. Numbered(event[e]) /\ event[e].attempts # 0
        BY <1>1, <2>1 DEF Counted, Numbered
      <4> QED BY <1>1, <1>2, <2>1, <4>1, RowsKept
    <3> QED BY <1>1, <2>1, <3>1, OneKept DEF StoreTypeOK
  <2>2. CASE event' = event
    BY <2>2, SameRuns
  <2> QED BY <1>2, <2>1, <2>2
<1>4. run' \in [Runs -> RunRow] /\ RunsKnown' /\ RunsKeep(run')
  BY <1>1, <1>2, ClosingOne, SameRuns DEF StoreTypeOK
<1>5. MessagesKeep(message')
  BY <1>1, <1>2, Discarding DEF StoreTypeOK
<1>6. UNCHANGED <<delivery, received, world, sends, alerts>> /\ Finish(h)
  BY DEF InvalidateWrite, ReprogramWrite, WriteProcessing, Others, history
<1>7. event' \in [Events -> EventRow] /\ Counted'
  BY <1>3, KeptMoves, RowsType DEF Counted
<1> QED BY <1>3, <1>4, <1>5, <1>6, <1>7, FinishKeeps
        DEF ActionKeeps, MessagesKeep, StoreTypeOK

\* A request that goes on keeps its event, run and message.
LEMMA GoToKeeps ==
  ASSUME TypeInv, NEW h \in Handlers, handler[h].pc # "idle",
         NEW pc \in {"invalidate", "reprogram", "deliver", "sending",
                     "accepted", "refused", "schedule", "completing"},
         pc \in Reserving => handler[h].pc \in Reserving,
         GoTo(h, pc)
  PROVE  ActionTypeOK' /\ HandlersKnow'
BY DEF TypeInv, TypeOK, GoTo, ActionTypeOK, HandlerState, HandlersKnow

\* The second claim, the delivery, the provider's answer and its persistence.
LEMMA DeliveryKeeps ==
  ASSUME TypeInv, NEW h \in Handlers,
         ClaimDelivery(h) \/ Deliver(h) \/ ProviderAnswers(h) \/ Persist(h)
  PROVE  ActionKeeps
<1> USE DEF TypeInv, TypeOK
<1> DEFINE e == handler[h].ev
           m == handler[h].msg
<1>1. /\ handler[h].pc \in Reserving
      /\ e \in FollowUps /\ e \in Events /\ handler[h].run \in Runs
      /\ m \in Messages
      /\ event[e] \in EventRow /\ message[m] \in MessageRow
  BY EventSets DEF ClaimDelivery, Deliver, ProviderAnswers, Persist, Reserving,
     HandlersKnow, StoreTypeOK
<1>2. ActionTypeOK' /\ HandlersKnow'
  <2>1. Finish(h) \/ \E pc \in {"invalidate", "reprogram", "deliver", "sending",
          "accepted", "refused", "schedule", "completing"} : GoTo(h, pc)
    BY DEF ClaimDelivery, Deliver, ProviderAnswers, Persist
  <2> QED BY <1>1, <2>1, GoToKeeps, FinishKeeps DEF Reserving
<1>3. event' \in [Events -> EventRow] /\ Counted'
  <2>1. CASE event' = event
    BY <2>1 DEF StoreTypeOK, Counted
  <2>2. CASE event' = [event EXCEPT ![e].claimed = TRUE]
    <3> DEFINE row == [event[e] EXCEPT !.claimed = TRUE]
    <3>1. /\ row \in EventRow /\ row.status = event[e].status
          /\ row.attempts = event[e].attempts
      BY <1>1 DEF EventRow
    <3>2. Numbered(row)
      BY <1>1, <3>1 DEF Counted, Numbered
    <3>3. event' = [event EXCEPT ![e] = row]
      BY <2>2
    <3> HIDE DEF row
    <3> QED BY <1>1, <3>1, <3>2, <3>3 DEF StoreTypeOK, Counted
  <2> QED BY <2>1, <2>2
          DEF ClaimDelivery, Deliver, ProviderAnswers, Persist, rows
<1>4. message' \in [Messages -> MessageRow]
  <2>1. DiscardMessage(m) \in [Messages -> MessageRow]
    BY <1>1, Discarding DEF StoreTypeOK, MessagesKeep
  <2>2. CASE message' = [message EXCEPT ![m].claimed = TRUE]
    BY <1>1, <2>2 DEF StoreTypeOK, MessageRow
  <2>3. ASSUME NEW status \in {"SENT", "FAILED"},
               message' = [message EXCEPT ![m].status = status]
        PROVE  message' \in [Messages -> MessageRow]
    BY <1>1, <2>3 DEF StoreTypeOK, MessageRow
  <2>4. CASE message' = message
    BY <2>4 DEF StoreTypeOK
  <2> QED BY <2>1, <2>2, <2>3, <2>4
          DEF ClaimDelivery, Deliver, ProviderAnswers, Persist, rows
<1>5. sends' \in [FollowUps -> Nat]
  <2>1. sends[e] + 1 \in Nat
    BY <1>1 DEF StoreTypeOK
  <2>2. sends' \in {sends, [sends EXCEPT ![e] = sends[e] + 1]}
    BY DEF ClaimDelivery, Deliver, ProviderAnswers, Persist, history
  <2> QED BY <1>1, <2>1, <2>2 DEF StoreTypeOK
<1>6. UNCHANGED <<run, delivery, received, world, alerts>>
  BY DEF ClaimDelivery, Deliver, ProviderAnswers, Persist, Others, history, rows
<1> QED BY <1>2, <1>3, <1>4, <1>5, <1>6, SameRuns DEF ActionKeeps, StoreTypeOK

\* The follow-up scheduled next, and the closing update.
LEMMA ScheduleKeeps ==
  ASSUME TypeInv, NEW h \in Handlers,
         Schedule(h) \/ Complete(h) \/ HandlerStops(h)
  PROVE  ActionKeeps
<1> USE DEF TypeInv, TypeOK
<1> DEFINE e == handler[h].ev
<1>1. e \in Events /\ event[e] \in EventRow
  BY EventSets DEF Schedule, Complete, HandlerStops, HandlersKnow, StoreTypeOK
<1>2. ActionTypeOK' /\ HandlersKnow'
  BY GoToKeeps, FinishKeeps DEF Schedule, Complete, HandlerStops, Reserving
<1>3. event' \in [Events -> EventRow] /\ Counted'
  <2>1. CASE event' = event
    BY <2>1 DEF StoreTypeOK, Counted
  <2>2. CASE event' = [event EXCEPT ![e].completed = TRUE]
    <3> DEFINE row == [event[e] EXCEPT !.completed = TRUE]
    <3>1. /\ row \in EventRow /\ row.status = event[e].status
          /\ row.attempts = event[e].attempts
      BY <1>1 DEF EventRow
    <3>2. Numbered(row)
      BY <1>1, <3>1 DEF Counted, Numbered
    <3>3. event' = [event EXCEPT ![e] = row]
      BY <2>2
    <3> HIDE DEF row
    <3> QED BY <1>1, <3>1, <3>2, <3>3 DEF StoreTypeOK, Counted
  <2>3. CASE event' = [CancelFollowUps(event) EXCEPT ![e + 1] = PendingRow]
    <3>1. /\ CancelFollowUps(event) \in [Events -> EventRow]
          /\ \A f \in Events : Numbered(CancelFollowUps(event)[f])
      BY CancellationKeeps, KeptMoves, RowsType DEF StoreTypeOK
    <3>2. PendingRow \in EventRow /\ Numbered(PendingRow)
      <4>1. PendingRow \in EventRow
        BY <1>1, RowTypes
      <4>2. PendingRow.attempts = 0 /\ PendingRow.status = "PENDING"
        BY DEF PendingRow, AbsentRow
      <4> QED BY <4>1, <4>2, BoundsAssumption DEF Numbered
    <3> QED BY <2>3, <3>1, <3>2 DEF Counted
  <2> QED BY <2>1, <2>2, <2>3 DEF Schedule, Complete, HandlerStops, store
<1>4. UNCHANGED <<run, message, sends, delivery, received, world, alerts>>
  BY DEF Schedule, Complete, HandlerStops, Others, history, store, world
<1> QED BY <1>2, <1>3, <1>4, SameRuns DEF ActionKeeps, StoreTypeOK

\* Every step of a follow-up request.
LEMMA ActionStepKeeps ==
  ASSUME TypeInv, NEW h \in Handlers, ActionStep(h)
  PROVE  ActionKeeps
BY ReserveKeeps, ReadKeeps, WriteKeeps, DeliveryKeeps, ScheduleKeeps
   DEF ActionStep

\* A callback of n8n.
CallbackKeeps == /\ RowsMove(event') /\ RunsKeep(run')
                 /\ run' \in [Runs -> RunRow] /\ RunsKnown'
                 /\ CallbackTypeOK' /\ CallbacksKnow'
                 /\ UNCHANGED <<message, delivery, received, world, history>>

\* Every step of a callback.
LEMMA CallbackStepKeeps ==
  ASSUME TypeInv, NEW c \in Callbacks, CallbackStep(c)
  PROVE  CallbackKeeps
<1> USE DEF TypeInv, TypeOK
<1>1. ASSUME NEW r \in Runs, NEW ok \in BOOLEAN, ReadCallback(c, r, ok)
      PROVE  CallbackKeeps
  <2>1. run' \in [Runs -> RunRow] /\ RunsKnown' /\ RunsKeep(run')
    BY <1>1, ClosingOne, SameRuns DEF ReadCallback, StoreTypeOK
  <2>2. CallbackTypeOK' /\ CallbacksKnow'
    <3>1. CASE callback' = callback
      BY <2>1, <3>1, UnmovedProcesses
    <3>2. CASE /\ callback' = [callback EXCEPT ![c] =
                                 [pc |-> "apply", run |-> r, ok |-> ok]]
               /\ run' = run
      BY <1>1, <3>2 DEF ReadCallback, CallbackTypeOK, CallbackState,
         CallbacksKnow
    <3> QED BY <1>1, <3>1, <3>2 DEF ReadCallback
  <2> QED BY <1>1, <2>1, <2>2, SameRuns, KeptMoves DEF ReadCallback, CallbackKeeps
<1>2. CASE ApplyCallback(c)
  <2> DEFINE r == callback[c].run
             e == run[r].ev
             outcome == IF callback[c].ok THEN "SUCCEEDED" ELSE "FAILED"
             row == [event[e] EXCEPT !.status = outcome, !.lock = 0,
                                     !.stale = FALSE]
  <2>1. /\ r \in Runs /\ e \in Events /\ event[e] \in EventRow
        /\ 0 \in 0 .. Renewed
        /\ outcome \in {"SUCCEEDED", "FAILED"}
    BY <1>2, BoundsAssumption
       DEF ApplyCallback, CallbacksKnow, RunsKnown, StoreTypeOK, Renewed
  <2>2. \/ /\ event' = [event EXCEPT ![e] = row]
           /\ event[e].status = "PROCESSING"
           /\ run' = CloseRun(r, outcome)
        \/ UNCHANGED <<event, run>>
    BY <1>2 DEF ApplyCallback, Matches, EventMatches
  <2>3. RowsMove(event')
    <3>1. CASE event' = [event EXCEPT ![e] = row] /\ event[e].status = "PROCESSING"
      <4>1. outcome \in EventStatus
        BY <2>1 DEF EventStatus
      <4>2. row \in EventRow
        BY <2>1, <4>1 DEF EventRow
      <4>3. RowMoves(event[e], row)
        <5>1. /\ row.status = outcome /\ row.attempts = event[e].attempts
              /\ row.claimed = event[e].claimed /\ row.msg = event[e].msg
          BY <2>1 DEF EventRow
        <5>2. Numbered(event[e]) /\ event[e].status # "ABSENT" /\ outcome # "ABSENT"
          BY <2>1, <3>1 DEF Counted
        <5>3. Numbered(row)
          BY <2>1, <5>1, <5>2 DEF Numbered
        <5> QED BY <2>1, <4>2, <5>1, <5>2, <5>3 DEF RowMoves
      <4> QED BY <2>1, <3>1, <4>3, OneMoved DEF StoreTypeOK
    <3>2. CASE event' = event
      BY <3>2, SameRuns, KeptMoves
    <3> QED BY <2>2, <3>1, <3>2
  <2>4. run' \in [Runs -> RunRow] /\ RunsKnown' /\ RunsKeep(run')
    BY <2>1, <2>2, ClosingOne, SameRuns DEF StoreTypeOK
  <2>5. CallbackTypeOK' /\ CallbacksKnow'
    BY <1>2, <2>4 DEF ApplyCallback, CallbackIdle, CallbackTypeOK,
       CallbackState, CallbacksKnow, RunsKeep
  <2> QED BY <1>2, <2>3, <2>4, <2>5 DEF ApplyCallback, CallbackKeeps
<1>3. CASE CallbackStops(c)
  <2>1. CallbackTypeOK' /\ CallbacksKnow'
    BY <1>3 DEF CallbackStops, CallbackIdle, CallbackTypeOK, CallbackState,
       CallbacksKnow, store
  <2> QED BY <1>3, <2>1, SameRuns, KeptMoves
          DEF CallbackStops, CallbackKeeps, store, world, history, StoreTypeOK
<1> QED BY <1>1, <1>2, <1>3 DEF CallbackStep

\* A step of the alert action: it never moves a follow-up.
AlertKeeps == /\ RowsAlert(event')
              /\ delivery' \in [Handoffs -> [Recipients -> DeliveryStatus]]
              /\ alerts' \in [Handoffs -> [Recipients -> Nat]]
              /\ AlertTypeOK' /\ AlertersKnow'
              /\ UNCHANGED <<run, message, received, world, sends>>

\* Every step of the alert action leaves the follow-ups alone.
LEMMA AlertStepKeeps ==
  ASSUME TypeInv, NEW a \in Alerters, AlerterStep(a)
  PROVE  AlertKeeps
<1> USE DEF TypeInv, TypeOK
<1>1. ASSUME NEW e \in Handoffs, ClaimAlert(a, e)
      PROVE  AlertKeeps
  <2> DEFINE row == [event[e] EXCEPT !.claimed = TRUE, !.lock = Renewed,
                                     !.stale = FALSE]
  <2>1. e \in Events /\ event[e] \in EventRow /\ Renewed \in 0 .. Renewed
    BY EventSets, BoundsAssumption DEF StoreTypeOK, Renewed
  <2>2. row \in EventRow /\ row.status = event[e].status
        /\ row.attempts = event[e].attempts
    BY <2>1 DEF EventRow
  <2>3. event' = [event EXCEPT ![e] = row]
    BY <1>1 DEF ClaimAlert
  <2>4. RowsAlert(event')
    <3>1. Numbered(row)
      BY <2>1, <2>2 DEF Counted, Numbered
    <3> HIDE DEF row
    <3> QED BY <1>1, <2>1, <2>2, <2>3, <3>1, EventSets DEF RowsAlert, StoreTypeOK, Counted
  <2>5. delivery' \in [Handoffs -> [Recipients -> DeliveryStatus]]
    BY <1>1 DEF ClaimAlert, StoreTypeOK, DeliveryStatus
  <2>6. AlertTypeOK' /\ AlertersKnow'
    BY <1>1 DEF ClaimAlert, AlertTypeOK, AlerterState, NoOutcome, Outcome,
       AlertersKnow
  <2> QED BY <1>1, <2>4, <2>5, <2>6
          DEF ClaimAlert, AlertKeeps, history, StoreTypeOK
<1>2. ASSUME CredentialsFail(a) \/ PersistAlerts(a)
      PROVE  AlertKeeps
  <2> DEFINE e == alerter[a].ev
  <2>1. /\ e \in Handoffs /\ e \in Events /\ event[e] \in EventRow
        /\ alerter[a].outcome \in [Recipients -> Outcome]
    BY <1>2, EventSets DEF CredentialsFail, PersistAlerts, AlertersKnow,
       AlertTypeOK, AlerterState, StoreTypeOK
  <2>2. PICK outcome \in [Recipients -> Outcome] : Persisting(e, outcome)
    <3>1. [x \in Recipients |-> "FAILED"] \in [Recipients -> Outcome]
      BY DEF Outcome
    <3> QED BY <1>2, <2>1, <3>1 DEF CredentialsFail, PersistAlerts
  <2>3. RowsAlert(event')
    <3>1. PICK b \in BOOLEAN : event' = [event EXCEPT ![e].completed = b]
      BY <2>1, <2>2 DEF Persisting, EventRow
    <3> DEFINE row == [event[e] EXCEPT !.completed = b]
    <3>2. /\ row \in EventRow /\ row.status = event[e].status
          /\ row.attempts = event[e].attempts
      BY <2>1 DEF EventRow, StoreTypeOK
    <3>3. Numbered(row)
      BY <2>1, <3>2 DEF Counted, Numbered
    <3>4. event' = [event EXCEPT ![e] = row]
      BY <3>1
    <3> HIDE DEF row
    <3> QED BY <2>1, <3>2, <3>3, <3>4, EventSets DEF RowsAlert, StoreTypeOK, Counted
  <2>4. delivery' \in [Handoffs -> [Recipients -> DeliveryStatus]]
    <3> DEFINE ledger == [x \in Recipients |->
          IF delivery[e][x] = "PROCESSING" THEN outcome[x] ELSE delivery[e][x]]
    <3>1. ledger \in [Recipients -> DeliveryStatus]
      BY <2>1, <2>2 DEF StoreTypeOK, DeliveryStatus, Outcome
    <3>2. delivery' = [delivery EXCEPT ![e] = ledger]
      BY <2>2 DEF Persisting
    <3> QED BY <2>1, <3>1, <3>2 DEF StoreTypeOK
  <2>5. AlertTypeOK' /\ AlertersKnow'
    <3>1. alerter' = [alerter EXCEPT ![a] = AlerterIdle]
      BY <1>2 DEF CredentialsFail, PersistAlerts
    <3> QED BY <3>1 DEF AlertTypeOK, AlerterState, AlerterIdle, NoOutcome,
            Outcome, AlertersKnow
  <2> QED BY <1>2, <2>3, <2>4, <2>5
          DEF CredentialsFail, PersistAlerts, AlertKeeps, history, StoreTypeOK
<1>3. ASSUME NEW x \in Recipients, SendAlert(a, x)
      PROVE  AlertKeeps
  <2> DEFINE e == alerter[a].ev
  <2>1. e \in Handoffs /\ alerter[a] \in AlerterState
    BY <1>3 DEF SendAlert, AlertersKnow, AlertTypeOK
  <2>2. alerts' \in [Handoffs -> [Recipients -> Nat]]
    <3>1. alerts[e][x] + 1 \in Nat
      BY <2>1 DEF StoreTypeOK
    <3>2. CASE alerts' = [alerts EXCEPT ![e][x] = alerts[e][x] + 1]
      <4> DEFINE counts == [alerts[e] EXCEPT ![x] = alerts[e][x] + 1]
      <4>1. counts \in [Recipients -> Nat]
        BY <2>1, <3>1 DEF StoreTypeOK
      <4>2. alerts' = [alerts EXCEPT ![e] = counts]
        BY <3>2
      <4> QED BY <2>1, <4>1, <4>2 DEF StoreTypeOK
    <3>3. CASE alerts' = alerts
      BY <3>3 DEF StoreTypeOK
    <3> QED BY <1>3, <3>2, <3>3 DEF SendAlert
  <2>3. AlertTypeOK' /\ AlertersKnow'
    <3>1. PICK status \in {"SENT", "FAILED"} :
            alerter' = [alerter EXCEPT ![a] =
              [@ EXCEPT !.pc = "sending", !.outcome[x] = status]]
      BY <1>3 DEF SendAlert
    <3> QED BY <2>1, <3>1 DEF AlertTypeOK, AlerterState, Outcome, AlertersKnow
  <2>4. RowsAlert(event)
    BY DEF RowsAlert, StoreTypeOK, Counted
  <2> QED BY <1>3, <2>2, <2>3, <2>4 DEF SendAlert, AlertKeeps, rows, StoreTypeOK
<1>4. CASE AlerterStops(a)
  <2>1. AlertTypeOK' /\ AlertersKnow'
    BY <1>4 DEF AlerterStops, AlertTypeOK, AlerterState, AlerterIdle, NoOutcome,
       Outcome, AlertersKnow
  <2>2. RowsAlert(event)
    BY DEF RowsAlert, StoreTypeOK, Counted
  <2> QED BY <1>4, <2>1, <2>2
          DEF AlerterStops, AlertKeeps, store, world, StoreTypeOK
<1> QED BY <1>1, <1>2, <1>3, <1>4 DEF AlerterStep

\* So does the request that finds every alert sent.
LEMMA AlreadySentKeeps ==
  ASSUME TypeInv, NEW e \in Handoffs, AlreadySent(e)
  PROVE  AlertKeeps
<1> USE DEF TypeInv, TypeOK
<1>1. e \in Events /\ event[e] \in EventRow
  BY EventSets DEF StoreTypeOK
<1>2. RowsAlert(event')
  <2> DEFINE row == [event[e] EXCEPT !.completed = TRUE]
  <2>1. /\ row \in EventRow /\ row.status = event[e].status
        /\ row.attempts = event[e].attempts
    BY <1>1 DEF EventRow
  <2>2. Numbered(row)
    BY <1>1, <2>1 DEF Counted, Numbered
  <2>3. event' = [event EXCEPT ![e] = row]
    BY DEF AlreadySent
  <2> HIDE DEF row
  <2> QED BY <1>1, <2>1, <2>2, <2>3, EventSets DEF RowsAlert, StoreTypeOK, Counted
<1> QED BY <1>2, UnmovedProcesses
        DEF AlreadySent, AlertKeeps, history, StoreTypeOK

\* The conversation.
ConversationKeeps == /\ event' \in [Events -> EventRow] /\ Counted'
                     /\ RowsKeepFollowUps
                     /\ MessagesKeep(message') /\ GateTypeOK'
                     /\ replied' \in BOOLEAN /\ closed' \in BOOLEAN
                     /\ human' \in BOOLEAN /\ window' \in BOOLEAN
                     /\ UNCHANGED <<run, delivery, received, history>>

\* Every step of the conversation keeps the follow-ups' rows.
LEMMA ConversationStepKeeps ==
  ASSUME TypeInv, ConversationStep
  PROVE  ConversationKeeps
<1> USE DEF TypeInv, TypeOK
<1>1. ASSUME RowsKeep(event')
      PROVE  event' \in [Events -> EventRow] /\ Counted' /\ RowsKeepFollowUps
  BY <1>1, KeptMoves, RowsType, EventSets
     DEF Counted, RowsKeep, RowsKeepFollowUps
<1>2. ASSUME NEW g \in GateKinds, GateBegin(g)
      PROVE  ConversationKeeps
  <2>1. RowsKeep(event')
    BY <1>2, CancellationKeeps DEF GateBegin, StoreTypeOK
  <2> QED BY <1>1, <1>2, <2>1, SameRuns
          DEF GateBegin, ConversationKeeps, GateTypeOK, GateKinds, Unmoved,
              world, StoreTypeOK
<1>3. CASE GateCommit
  <2>1. RowsKeep(MarkProcessing(event))
    BY CancellationKeeps DEF StoreTypeOK
  <2>2. event' \in [Events -> EventRow] /\ Counted' /\ RowsKeepFollowUps
    <3>1. CASE event' = MarkProcessing(event)
      BY <1>1, <2>1, <3>1
    <3>2. ASSUME NEW e \in Handoffs,
                 NEW row \in {[PendingRow EXCEPT !.due = TRUE],
                              CancelRow(PendingRow)},
                 event' = [MarkProcessing(event) EXCEPT ![e] = row]
          PROVE  event' \in [Events -> EventRow] /\ Counted' /\ RowsKeepFollowUps
      <4>1. row \in EventRow /\ row.status # "PROCESSING"
        <5>1. PendingRow \in EventRow
          BY <3>2, EventSets, RowTypes DEF StoreTypeOK
        <5>2. CASE row = [PendingRow EXCEPT !.due = TRUE]
          BY <5>1, <5>2 DEF EventRow, PendingRow, AbsentRow
        <5>3. CASE row = CancelRow(PendingRow)
          BY <5>1, <5>3, RowTypes DEF CancelRow, EventRow
        <5> QED BY <5>2, <5>3
      <4>2. /\ MarkProcessing(event) \in [Events -> EventRow]
            /\ \A f \in Events : Numbered(MarkProcessing(event)[f])
        BY <2>1, KeptMoves, RowsType
      <4>3. \A f \in FollowUps : event'[f] = MarkProcessing(event)[f]
        BY <3>2, <4>2, EventSets
      <4>4. Numbered(row)
        <5>1. row.attempts = 0
          BY <3>2 DEF PendingRow, AbsentRow, CancelRow
        <5> QED BY <4>1, <5>1, BoundsAssumption DEF Numbered
      <4>5. event' \in [Events -> EventRow] /\ Counted'
        BY <3>2, <4>1, <4>2, <4>4 DEF Counted
      <4> QED BY <2>1, <4>3, <4>5, EventSets DEF RowsKeep, RowsKeepFollowUps
    <3> QED BY <1>3, <3>1, <3>2 DEF GateCommit
  <2>3. /\ closed' \in BOOLEAN /\ human' \in BOOLEAN
        /\ UNCHANGED <<replied, window, run, message, delivery, received, history>>
    BY <1>3 DEF GateCommit, Unmoved
  <2>4. GateTypeOK'
    BY <1>3 DEF GateCommit, GateTypeOK, GateKinds
  <2> QED BY <2>2, <2>3, <2>4, SameRuns DEF ConversationKeeps, StoreTypeOK
<1>4. CASE CustomerReply
  <2>1. RowsKeep(event')
    BY <1>4, CancellationKeeps DEF CustomerReply, StoreTypeOK
  <2> QED BY <1>1, <1>4, <2>1, SameRuns
          DEF CustomerReply, ConversationKeeps, GateTypeOK, Unmoved, StoreTypeOK
<1>5. ASSUME NEW m \in Messages, StatusFailed(m)
      PROVE  ConversationKeeps
  <2>1. MessagesKeep(message')
    BY <1>5 DEF StatusFailed, MessagesKeep, StoreTypeOK, MessageRow
  <2>2. RowsKeep(event')
    BY <1>5, SameRuns DEF StatusFailed
  <2> QED BY <1>1, <1>5, <2>1, <2>2
          DEF StatusFailed, ConversationKeeps, GateTypeOK, world, StoreTypeOK
<1>6. CASE Reopen \/ ReturnToAI \/ HoursPass
  <2>1. RowsKeep(event')
    BY <1>6, SameRuns DEF Reopen, ReturnToAI, HoursPass
  <2> QED BY <1>1, <1>6, <2>1, SameRuns
          DEF Reopen, ReturnToAI, HoursPass, ConversationKeeps, GateTypeOK,
              Unmoved, StoreTypeOK
<1> QED BY <1>2, <1>3, <1>4, <1>5, <1>6 DEF ConversationStep

\* The invariant on types is inductive.
LEMMA StepType == TypeInv /\ [Next]_vars => TypeInv'
<1> SUFFICES ASSUME TypeInv, [Next]_vars PROVE TypeInv'
  OBVIOUS
<1>0. /\ message \in [Messages -> MessageRow] /\ sends \in [FollowUps -> Nat]
      /\ run \in [Runs -> RunRow] /\ event \in [Events -> EventRow]
      /\ received \subseteq Runs
      /\ delivery \in [Handoffs -> [Recipients -> DeliveryStatus]]
      /\ alerts \in [Handoffs -> [Recipients -> Nat]]
      /\ replied \in BOOLEAN /\ closed \in BOOLEAN
      /\ human \in BOOLEAN /\ window \in BOOLEAN
      /\ Counted /\ RunsKnown
  BY DEF TypeInv, TypeOK, StoreTypeOK
<1>1. ASSUME NEW d \in Dispatchers, DispatcherStep(d),
             UNCHANGED <<handler, alerter, callback, gate>>
      PROVE  TypeInv'
  <2>1. QueueKeeps
    BY <1>1, PreflightKeeps, CancelsKeep, ClaimKeeps, DispatchKeeps
       DEF DispatcherStep
  <2>2. event' \in [Events -> EventRow] /\ Counted'
    BY <2>1, KeptMoves, RowsType DEF QueueKeeps, Kept, Counted
  <2>3. StoreTypeOK'
    BY <1>0, <2>1, <2>2 DEF QueueKeeps, Kept, StoreTypeOK, world, history
  <2> QED BY <1>1, <2>1, <2>2, <2>3, UnmovedProcesses
          DEF QueueKeeps, Kept, TypeInv, TypeOK
<1>2. ASSUME NEW e \in Events, EventStep(e),
             UNCHANGED <<handler, alerter, callback, gate>>
      PROVE  TypeInv'
  <2>1. EventKeeps
    BY <1>2, AdministrationKeeps, RecoveryKeeps DEF EventStep
  <2>2. event' \in [Events -> EventRow] /\ Counted'
    BY <2>1, RowsType DEF EventKeeps, Counted
  <2>3. StoreTypeOK'
    BY <1>0, <2>1, <2>2
       DEF EventKeeps, MessagesKeep, StoreTypeOK, world, history
  <2> QED BY <1>2, <2>1, <2>2, <2>3, UnmovedProcesses
          DEF EventKeeps, TypeInv, TypeOK
<1>3. ASSUME NEW h \in Handlers, ActionStep(h),
             UNCHANGED <<dispatcher, alerter, callback, gate>>
      PROVE  TypeInv'
  <2>1. ActionKeeps
    BY <1>3, ActionStepKeeps
  <2>2. StoreTypeOK'
    BY <1>0, <2>1 DEF ActionKeeps, StoreTypeOK, world
  <2> QED BY <1>3, <2>1, <2>2, UnmovedProcesses DEF ActionKeeps, TypeInv, TypeOK
<1>4. ASSUME AlertKeeps, UNCHANGED <<dispatcher, handler, callback, gate>>
      PROVE  TypeInv'
  <2>1. event' \in [Events -> EventRow] /\ Counted'
    BY <1>4 DEF AlertKeeps, RowsAlert, Counted
  <2>2. RunsKeep(run') /\ RunsKnown'
    BY <1>4, SameRuns DEF AlertKeeps
  <2>3. StoreTypeOK'
    BY <1>0, <1>4, <2>1 DEF AlertKeeps, StoreTypeOK, world
  <2> QED BY <1>4, <2>1, <2>2, <2>3, UnmovedProcesses
          DEF AlertKeeps, TypeInv, TypeOK
<1>5. ASSUME NEW c \in Callbacks, CallbackStep(c),
             UNCHANGED <<dispatcher, handler, alerter, gate>>
      PROVE  TypeInv'
  <2>1. CallbackKeeps
    BY <1>5, CallbackStepKeeps
  <2>2. event' \in [Events -> EventRow] /\ Counted'
    BY <2>1, RowsType DEF CallbackKeeps, Counted
  <2>3. StoreTypeOK'
    BY <1>0, <2>1, <2>2 DEF CallbackKeeps, StoreTypeOK, world, history
  <2> QED BY <1>5, <2>1, <2>2, <2>3, UnmovedProcesses
          DEF CallbackKeeps, TypeInv, TypeOK
<1>6. ASSUME ConversationStep, UNCHANGED <<dispatcher, handler, alerter, callback>>
      PROVE  TypeInv'
  <2>1. ConversationKeeps
    BY <1>6, ConversationStepKeeps
  <2>2. RunsKeep(run') /\ RunsKnown'
    BY <2>1, SameRuns DEF ConversationKeeps
  <2>3. StoreTypeOK'
    BY <1>0, <2>1 DEF ConversationKeeps, MessagesKeep, StoreTypeOK, history
  <2> QED BY <1>6, <2>1, <2>2, <2>3, UnmovedProcesses
          DEF ConversationKeeps, TypeInv, TypeOK
<1>7. CASE UNCHANGED vars
  <2>1. StoreTypeOK' /\ Counted'
    BY <1>0, <1>7 DEF vars, store, StoreTypeOK, Counted
  <2>2. RunsKeep(run') /\ RunsKnown'
    BY <1>7, SameRuns DEF vars, store
  <2> QED BY <1>7, <2>1, <2>2, UnmovedProcesses DEF vars, TypeInv, TypeOK
<1> QED BY <1>1, <1>2, <1>3, <1>4, <1>5, <1>6, <1>7, AlertStepKeeps,
           AlreadySentKeeps DEF Next

\* Every row keeps its type and every process works on rows that exist,
\* whatever the number of events, attempts, processes and recipients.
THEOREM TypeCorrect == Spec => []TypeOK
<1>1. TypeInv => TypeOK
  BY DEF TypeInv
<1> QED BY <1>1, InitType, StepType, PTL DEF Spec

\* No event is tried more often than maxAttempts between two decisions of an
\* administrator, for any number of dispatchers and requests: each attempt given
\* back by a rescheduling was taken by the claim of the same lease
\* (decideAfterDispatch, decideStaleProcessing, reprogramProcessingEvent).
THEOREM AttemptsWithinBudget == Spec => []AttemptsBudget
<1>1. TypeInv => AttemptsBudget
  BY DEF TypeInv, Counted, Numbered, AttemptsBudget
<1> QED BY <1>1, InitType, StepType, PTL DEF Spec

------------------------------------------------------------------------------

\* A step that neither claims, reserves, schedules nor sends.
QuietRows ==
  /\ \A e \in FollowUps :
       /\ RowMoves(event[e], event'[e])
       /\ event'[e].status = "SUCCEEDED" =>
            event[e].status = "SUCCEEDED" \/ sends[e] # 0
  /\ MessagesKeep(message') /\ RunsKeep(run') /\ sends' = sends
QuietHandlers == \A h \in Handlers :
  /\ handler'[h].pc \in Sending => handler[h].pc \in Sending
  /\ handler'[h].pc = "accepted" => handler[h].pc = "accepted"
  /\ handler'[h].pc \in Reserving =>
       /\ handler[h].pc \in Reserving
       /\ handler'[h].ev = handler[h].ev /\ handler'[h].msg = handler[h].msg
QuietCallbacks == \A c \in Callbacks :
  (callback'[c].pc = "apply" /\ callback'[c].ok) =>
     /\ callback[c].pc = "apply" /\ callback[c].ok
     /\ callback'[c].run = callback[c].run

\* A step that neither claims, reserves, schedules nor sends keeps SendInv.
LEMMA QuietStep ==
  ASSUME TypeInv, TypeInv', SendInv, QuietRows, QuietHandlers, QuietCallbacks
  PROVE  SendInv'
<1> USE DEF SendInv, QuietRows
<1>0. Sending \subseteq Reserving /\ "accepted" \in Reserving
      /\ "idle" \notin Reserving
  BY DEF Sending, Reserving
<1>1. ClaimedFirst'
  BY DEF ClaimedFirst, RowMoves
<1>2. SenderAlone'
  <2>1. ASSUME NEW h \in Handlers, handler'[h].pc \in Sending
        PROVE  /\ handler[h].pc \in Sending
               /\ handler'[h].ev = handler[h].ev /\ handler[h].ev \in FollowUps
    BY <1>0, <2>1 DEF QuietHandlers, TypeInv, HandlersKnow
  <2> QED BY <2>1 DEF SenderAlone, RowMoves
<1>3. HandlersOwn'
  <2>1. ASSUME NEW h \in Handlers, handler'[h].pc \in Reserving
        PROVE  /\ handler[h].pc \in Reserving /\ handler[h].msg \in Messages
               /\ handler'[h].ev = handler[h].ev
               /\ handler'[h].msg = handler[h].msg
    BY <1>0, <2>1 DEF QuietHandlers, TypeInv, HandlersKnow
  <2> QED BY <2>1 DEF HandlersOwn, MessagesKeep
<1>4. MessageOwned'
  <2>1. ASSUME NEW e \in FollowUps, event'[e].msg # 0
        PROVE  event'[e].msg = event[e].msg /\ event[e].msg \in Messages
    BY <2>1, EventSets DEF RowMoves, TypeInv, TypeOK, StoreTypeOK, EventRow
  <2> QED BY <2>1 DEF MessageOwned, MessagesKeep
<1>5. SendsKnown'
  <2>1. \A h \in Handlers : handler'[h].pc = "accepted" =>
          sends'[handler'[h].ev] # 0
    BY <1>0 DEF QuietHandlers, SendsKnown
  <2>2. \A m \in Messages : message'[m].status = "SENT" =>
          message'[m].ev \in FollowUps /\ sends'[message'[m].ev] # 0
    BY DEF MessagesKeep, SendsKnown
  <2>3. ASSUME NEW c \in Callbacks, callback'[c].pc = "apply", callback'[c].ok,
               run'[callback'[c].run].ev \in FollowUps
        PROVE  sends'[run'[callback'[c].run].ev] # 0
    BY <2>3 DEF QuietCallbacks, RunsKeep, TypeInv, CallbacksKnow, SendsKnown
  <2> QED BY <2>1, <2>2, <2>3 DEF SendsKnown
<1>6. AtMostOneSend' /\ SucceededWasSent'
  <2>1. \A e \in FollowUps : sends[e] \in Nat /\ sends[e] <= 1
    BY DEF AtMostOneSend, TypeInv, TypeOK, StoreTypeOK
  <2>2. \A e \in FollowUps : event'[e].status = "SUCCEEDED" => sends[e] # 0
    BY DEF SucceededWasSent
  <2> QED BY <2>1, <2>2 DEF AtMostOneSend, SucceededWasSent
<1> QED BY <1>1, <1>2, <1>3, <1>4, <1>5, <1>6

\* Steps that keep the rows of the follow-ups are quiet.
LEMMA KeptIsQuiet ==
  ASSUME TypeInv, RowsKeepFollowUps, MessagesKeep(message'), RunsKeep(run'),
         sends' = sends
  PROVE  QuietRows
BY DEF RowsKeepFollowUps, RowKeeps, QuietRows

\* A follow-up whose message is SENT was sent: what the callback and the
\* recovery look at.
LEMMA SentWasSent ==
  ASSUME TypeInv, SendInv, NEW e \in FollowUps, ActionSent(e)
  PROVE  sends[e] # 0
BY EventSets DEF SendInv, SendsKnown, MessageOwned, ActionSent, TypeInv, TypeOK,
   StoreTypeOK, EventRow

\* A request that ends, gives up or goes on after the provider's answer.
LEMMA QuietHandlerSteps ==
  ASSUME TypeInv, NEW h \in Handlers, NEW pc,
         \/ Finish(h)
         \/ pc \notin Reserving /\ GoTo(h, pc)
         \/ /\ GoTo(h, pc) /\ pc # "accepted"
            /\ handler[h].pc \in Reserving
            /\ pc \in Sending => handler[h].pc \in Sending
  PROVE  QuietHandlers
<1>1. "idle" \notin Reserving /\ Sending \subseteq Reserving
      /\ "accepted" \in Reserving
  BY DEF Reserving, Sending
<1> QED BY <1>1 DEF TypeInv, TypeOK, ActionTypeOK, HandlerState, HandlerIdle,
           Finish, GoTo, QuietHandlers

\* A reservation takes a message nobody has, or resumes one of the same event.
LEMMA ReserveSends ==
  ASSUME TypeInv, TypeInv', SendInv, NEW h \in Handlers, NEW r \in Runs,
         Reserve(h, r), UNCHANGED callback
  PROVE  SendInv'
<1> USE DEF SendInv
<1> DEFINE e == run[r].ev
<1>0. /\ e \in FollowUps /\ e \in Events /\ event[e] \in EventRow
      /\ handler \in [Handlers -> HandlerState]
      /\ event \in [Events -> EventRow] /\ message \in [Messages -> MessageRow]
      /\ FollowUps \subseteq Events /\ 0 \notin Messages
      /\ "invalidate" \notin Reserving /\ "reprogram" \notin Reserving
      /\ "reserved" \notin Sending /\ Sending \subseteq Reserving
  BY EventSets DEF Reserve, TypeInv, TypeOK, StoreTypeOK, ActionTypeOK,
     Reserving, Sending
<1>1. ASSUME NEW pc \in {"invalidate", "reprogram"}, UNCHANGED <<event, message>>,
             handler' = [handler EXCEPT ![h] =
               [pc |-> pc, ev |-> e, run |-> r, msg |-> 0, att |-> 0]]
      PROVE  SendInv'
  <2>1. QuietHandlers
    BY <1>0, <1>1 DEF QuietHandlers
  <2>2. QuietRows
    BY <1>1, SameRuns, EventSets, KeptIsQuiet
       DEF Reserve, history, RowsKeep, RowsKeepFollowUps
  <2> QED BY <2>1, <2>2, QuietStep DEF QuietCallbacks
<1>2. ASSUME NEW m \in Messages, message[m].status # "NONE", message[m].ev = e,
             UNCHANGED <<event, message>>,
             handler' = [handler EXCEPT ![h] =
               [pc |-> "reserved", ev |-> e, run |-> r, msg |-> m, att |-> 0]]
      PROVE  SendInv'
  <2>1. UNCHANGED <<run, sends>>
    BY DEF Reserve, history
  <2>2. ClaimedFirst' /\ MessageOwned' /\ AtMostOneSend' /\ SucceededWasSent'
    BY <1>2, <2>1
       DEF ClaimedFirst, MessageOwned, AtMostOneSend, SucceededWasSent
  <2>3. SenderAlone' /\ HandlersOwn' /\ SendsKnown'
    BY <1>0, <1>2, <2>1 DEF SenderAlone, HandlersOwn, SendsKnown
  <2> QED BY <2>2, <2>3
<1>3. ASSUME NEW m \in Messages, message[m].status = "NONE",
             message' = [message EXCEPT ![m] =
               [ev |-> e, claimed |-> FALSE, status |-> "PENDING"]],
             event' = [event EXCEPT ![e].msg = m],
             handler' = [handler EXCEPT ![h] =
               [pc |-> "reserved", ev |-> e, run |-> r, msg |-> m, att |-> 0]]
      PROVE  SendInv'
  <2>1. UNCHANGED <<run, sends>>
    BY DEF Reserve, history
  <2>2. \A f \in FollowUps : /\ event'[f].claimed = event[f].claimed
                             /\ event'[f].status = event[f].status
                             /\ event'[f].msg = IF f = e THEN m ELSE event[f].msg
    BY <1>0, <1>3 DEF EventRow
  <2>3. \A n \in Messages : /\ n # m => message'[n] = message[n]
                            /\ message'[m].ev = e /\ message'[m].status = "PENDING"
    BY <1>0, <1>3
  <2>4. ClaimedFirst' /\ AtMostOneSend' /\ SucceededWasSent'
    BY <2>1, <2>2 DEF ClaimedFirst, AtMostOneSend, SucceededWasSent
  <2>5. MessageOwned'
    <3>1. ASSUME NEW f \in FollowUps, event[f].msg # 0
          PROVE  event[f].msg \in Messages /\ event[f].msg # m
      BY <1>0, <1>3, <3>1 DEF EventRow, MessageOwned
    <3> QED BY <1>0, <2>2, <2>3, <3>1 DEF MessageOwned
  <2>6. HandlersOwn'
    <3>1. ASSUME NEW g \in Handlers, handler[g].pc \in Reserving
          PROVE  handler[g].msg \in Messages /\ handler[g].msg # m
      BY <1>3, <3>1 DEF HandlersOwn, TypeInv, HandlersKnow, Reserving
    <3> QED BY <1>0, <1>3, <2>3, <3>1 DEF HandlersOwn
  <2>7. SenderAlone'
    <3>1. ASSUME NEW g \in Handlers, handler'[g].pc \in Sending
          PROVE  /\ handler'[g] = handler[g] /\ handler[g].pc \in Sending
                 /\ handler[g].ev \in FollowUps
      BY <1>0, <1>3, <3>1 DEF TypeInv, HandlersKnow, Sending
    <3> QED BY <2>1, <2>2, <3>1 DEF SenderAlone
  <2>8. SendsKnown'
    BY <1>0, <1>3, <2>1, <2>3 DEF SendsKnown
  <2> QED BY <2>4, <2>5, <2>6, <2>7, <2>8
<1>4. event[e].msg # 0 => /\ event[e].msg \in Messages
                          /\ message[event[e].msg].ev = e
                          /\ message[event[e].msg].status # "NONE"
  BY <1>0 DEF EventRow, MessageOwned
<1> QED BY <1>1, <1>2, <1>3, <1>4 DEF Reserve, FreshMessage

\* The claim: whoever delivers is alone because the claim found the event
\* unclaimed, and every earlier deliverer needed it claimed.
LEMMA ClaimDeliverySends ==
  ASSUME TypeInv, TypeInv', SendInv, NEW h \in Handlers, ClaimDelivery(h),
         UNCHANGED callback
  PROVE  SendInv'
<1> USE DEF SendInv
<1> DEFINE e == handler[h].ev
<1>0. /\ e \in FollowUps /\ e \in Events
      /\ handler \in [Handlers -> HandlerState]
      /\ event \in [Events -> EventRow]
      /\ FollowUps \subseteq Events
      /\ handler[h].pc = "reserved" /\ "reserved" \in Reserving
  BY EventSets DEF ClaimDelivery, TypeInv, TypeOK, StoreTypeOK, ActionTypeOK,
     HandlersKnow, Reserving
<1>1. UNCHANGED <<run, message, sends>>
  BY DEF ClaimDelivery, history
<1>2. ASSUME UNCHANGED event,
             Finish(h) \/ GoTo(h, "invalidate") \/ GoTo(h, "reprogram")
      PROVE  SendInv'
  <2>1. QuietHandlers
    BY <1>2, QuietHandlerSteps DEF Reserving
  <2>2. QuietRows
    BY <1>1, <1>2, SameRuns, EventSets, KeptIsQuiet
       DEF RowsKeep, RowsKeepFollowUps
  <2> QED BY <2>1, <2>2, QuietStep DEF QuietCallbacks
<1>3. ASSUME ~event[e].claimed, event' = [event EXCEPT ![e].claimed = TRUE],
             GoTo(h, "deliver")
      PROVE  SendInv'
  <2>1. \A f \in FollowUps :
          /\ event'[f].claimed = (event[f].claimed \/ f = e)
          /\ event'[f].status = event[f].status
          /\ event'[f].msg = event[f].msg
    BY <1>0, <1>3 DEF EventRow
  <2>2. \A g \in Handlers :
          /\ handler'[g].pc = IF g = h THEN "deliver" ELSE handler[g].pc
          /\ handler'[g].ev = handler[g].ev /\ handler'[g].msg = handler[g].msg
    BY <1>0, <1>3 DEF GoTo, HandlerState
  <2>3. ClaimedFirst'
    <3>1. event[e].status # "ABSENT"
      <4>1. event' # event
        BY <1>0, <1>3, <2>1
      <4> QED BY <4>1 DEF ClaimDelivery, Executable
    <3> QED BY <1>0, <1>1, <2>1, <3>1 DEF ClaimedFirst
  <2>4. MessageOwned' /\ AtMostOneSend' /\ SucceededWasSent'
    BY <1>1, <2>1 DEF MessageOwned, AtMostOneSend, SucceededWasSent
  <2>5. HandlersOwn'
    BY <1>0, <1>1, <2>2 DEF HandlersOwn, Reserving
  <2>6. SenderAlone'
    <3>1. \A g \in Handlers : (g # h /\ handler[g].pc \in Sending) =>
             handler[g].ev \in FollowUps /\ handler[g].ev # e
      BY <1>3 DEF SenderAlone, TypeInv, HandlersKnow, Sending
    <3>2. sends[e] = 0
      BY <1>0, <1>3 DEF ClaimedFirst
    <3>3. \A g \in Handlers : handler'[g].pc \in Sending =>
             event'[handler'[g].ev].claimed /\ sends'[handler'[g].ev] = 0
      <4>1. event'[e].claimed /\ sends'[e] = 0
        BY <1>0, <1>1, <1>3, <3>2 DEF EventRow
      <4>2. ASSUME NEW g \in Handlers, g # h, handler[g].pc \in Sending
            PROVE  /\ event'[handler[g].ev].claimed
                   /\ sends'[handler[g].ev] = 0
        <5>1. handler[g].ev \in FollowUps /\ handler[g].ev # e
          BY <3>1, <4>2
        <5>2. event'[handler[g].ev] = event[handler[g].ev]
          BY <1>0, <1>3, <5>1
        <5> QED BY <1>1, <4>2, <5>2 DEF SenderAlone
      <4> QED BY <2>2, <4>1, <4>2
    <3>4. \A f, g \in Handlers :
            (/\ f # g /\ handler'[f].pc \in Sending
             /\ handler'[g].pc \in Sending) => handler'[f].ev # handler'[g].ev
      BY <2>2, <3>1 DEF SenderAlone
    <3> QED BY <3>3, <3>4 DEF SenderAlone
  <2>7. SendsKnown'
    BY <1>1, <2>2 DEF SendsKnown
  <2> QED BY <2>3, <2>4, <2>5, <2>6, <2>7
<1> QED BY <1>2, <1>3 DEF ClaimDelivery, Executable

\* The send: it counts from 0 to 1 because the sender was alone.
LEMMA ProviderSends ==
  ASSUME TypeInv, TypeInv', SendInv, NEW h \in Handlers, ProviderAnswers(h),
         UNCHANGED callback
  PROVE  SendInv'
<1> USE DEF SendInv
<1> DEFINE e == handler[h].ev
<1>0. /\ e \in FollowUps /\ handler \in [Handlers -> HandlerState]
      /\ sends \in [FollowUps -> Nat]
      /\ handler[h].pc = "sending" /\ "sending" \in Reserving
      /\ "sending" \in Sending
  BY DEF ProviderAnswers, TypeInv, TypeOK, StoreTypeOK, ActionTypeOK,
     HandlersKnow, Reserving, Sending
<1>1. UNCHANGED <<event, run, message>>
  BY DEF ProviderAnswers, rows
<1>2. PICK pc \in {"accepted", "refused"} :
        GoTo(h, pc) /\ (pc = "accepted" => sends' # sends)
  <2>1. CASE UNCHANGED sends /\ GoTo(h, "refused")
    BY <2>1
  <2>2. CASE sends' = [sends EXCEPT ![e] = @ + 1]
    BY <1>0, <2>2 DEF ProviderAnswers
  <2> QED BY <2>1, <2>2 DEF ProviderAnswers
<1>3. \A g \in Handlers :
        /\ handler'[g].pc = IF g = h THEN pc ELSE handler[g].pc
        /\ handler'[g].ev = handler[g].ev /\ handler'[g].msg = handler[g].msg
  BY <1>0, <1>2 DEF GoTo, HandlerState
<1>4. sends[e] = 0 /\ event[e].claimed
  BY <1>0 DEF SenderAlone
<1>5. /\ sends'[e] \in {0, 1} /\ (pc = "accepted" => sends'[e] = 1)
      /\ \A f \in FollowUps : f # e => sends'[f] = sends[f]
  BY <1>0, <1>2, <1>4 DEF ProviderAnswers
<1>6. ClaimedFirst' /\ MessageOwned' /\ AtMostOneSend'
  BY <1>1, <1>4, <1>5 DEF ClaimedFirst, MessageOwned, AtMostOneSend
<1>7. SucceededWasSent'
  BY <1>1, <1>4, <1>5 DEF SucceededWasSent
<1>8. SenderAlone'
  <2>1. \A g \in Handlers : (g # h /\ handler[g].pc \in Sending) =>
           handler[g].ev \in FollowUps /\ handler[g].ev # e
    BY <1>0 DEF SenderAlone, TypeInv, HandlersKnow, Sending
  <2>2. "accepted" \notin Sending /\ "refused" \notin Sending
    BY DEF Sending
  <2> QED BY <1>1, <1>2, <1>3, <1>5, <2>1, <2>2 DEF SenderAlone
<1>9. HandlersOwn'
  BY <1>0, <1>1, <1>3 DEF HandlersOwn
<1>10. SendsKnown'
  <2>1. \A g \in Handlers : handler'[g].pc = "accepted" => sends'[handler'[g].ev] # 0
    <3>1. \A g \in Handlers : handler[g].pc = "accepted" => handler[g].ev \in FollowUps
      BY DEF TypeInv, HandlersKnow
    <3> QED BY <1>3, <1>4, <1>5, <3>1 DEF SendsKnown
  <2> QED BY <1>1, <1>4, <1>5, <2>1 DEF SendsKnown
<1> QED BY <1>6, <1>7, <1>8, <1>9, <1>10

\* A message is SENT only by the request that got the provider's answer.
LEMMA PersistSends ==
  ASSUME TypeInv, TypeInv', SendInv, NEW h \in Handlers, Persist(h),
         UNCHANGED callback
  PROVE  SendInv'
<1> USE DEF SendInv
<1> DEFINE e == handler[h].ev
           m == handler[h].msg
<1>0. /\ e \in FollowUps /\ m \in Messages
      /\ handler \in [Handlers -> HandlerState]
      /\ message \in [Messages -> MessageRow]
      /\ handler[h].pc \in Reserving /\ UNCHANGED <<event, run, sends>>
      /\ "schedule" \in Reserving /\ "completing" \in Reserving
      /\ "schedule" \notin Sending /\ "completing" \notin Sending
  BY DEF Persist, TypeInv, TypeOK, StoreTypeOK, ActionTypeOK, HandlersKnow,
     Reserving, Sending, history
<1>1. QuietHandlers
  BY <1>0, QuietHandlerSteps DEF Persist
<1>2. CASE handler[h].pc = "refused"
  <2>1. MessagesKeep(message')
    BY <1>0, <1>2 DEF Persist, MessagesKeep, MessageRow
  <2>2. QuietRows
    BY <1>0, <2>1, SameRuns, EventSets, KeptIsQuiet
       DEF RowsKeep, RowsKeepFollowUps
  <2> QED BY <1>1, <2>2, QuietStep DEF QuietCallbacks
<1>3. CASE handler[h].pc = "accepted"
  <2>1. /\ message' = [message EXCEPT ![m].status = "SENT"]
        /\ GoTo(h, "schedule")
    BY <1>3 DEF Persist
  <2>2. /\ sends[e] # 0 /\ message[m].ev = e
    BY <1>0, <1>3 DEF SendsKnown, HandlersOwn
  <2>3. \A n \in Messages :
          /\ message'[n].ev = message[n].ev
          /\ message'[n].status = IF n = m THEN "SENT" ELSE message[n].status
    BY <1>0, <2>1 DEF MessageRow
  <2>4. ClaimedFirst' /\ AtMostOneSend' /\ SucceededWasSent'
    BY <1>0 DEF ClaimedFirst, AtMostOneSend, SucceededWasSent
  <2>5. MessageOwned'
    BY <1>0, <2>3, EventSets DEF MessageOwned, TypeInv, TypeOK, StoreTypeOK,
       EventRow
  <2>6. HandlersOwn'
    BY <1>0, <1>1, <2>3 DEF QuietHandlers, HandlersOwn, TypeInv, HandlersKnow,
       Reserving
  <2>7. SenderAlone'
    BY <1>0, <1>1 DEF QuietHandlers, SenderAlone, Sending, Reserving
  <2>8. SendsKnown'
    BY <1>0, <1>1, <2>2, <2>3 DEF QuietHandlers, SendsKnown, Reserving
  <2> QED BY <2>4, <2>5, <2>6, <2>7, <2>8
<1> QED BY <1>2, <1>3 DEF Persist

\* The follow-up scheduled next was never claimed nor sent.
LEMMA ScheduleSends ==
  ASSUME TypeInv, TypeInv', SendInv, NEW h \in Handlers, Schedule(h),
         UNCHANGED callback
  PROVE  SendInv'
<1> USE DEF SendInv
<1> DEFINE e == handler[h].ev
<1>0. /\ e \in FollowUps
      /\ UNCHANGED <<run, message, sends>> /\ GoTo(h, "completing")
      /\ handler[h].pc \in Reserving
  BY DEF Schedule, TypeInv, HandlersKnow, Others, history, Reserving
<1>1. QuietHandlers
  BY <1>0, QuietHandlerSteps DEF Sending
<1>2. QuietCallbacks
  BY DEF QuietCallbacks
<1>3. CASE UNCHANGED event
  <2>1. QuietRows
    BY <1>0, <1>3, SameRuns, EventSets, KeptIsQuiet
       DEF RowsKeep, RowsKeepFollowUps
  <2> QED BY <1>1, <1>2, <2>1, QuietStep
<1>4. CASE /\ e + 1 \in FollowUps /\ event[e + 1].status = "ABSENT"
           /\ event' = [CancelFollowUps(event) EXCEPT ![e + 1] = PendingRow]
  <2> DEFINE rs == CancelFollowUps(event)
  <2>1. RowsKeep(rs)
    BY CancellationKeeps DEF TypeInv, TypeOK, StoreTypeOK
  <2>2. \A f \in FollowUps : /\ f \in Events /\ RowKeeps(event[f], rs[f])
                             /\ f # e + 1 => event'[f] = rs[f]
                             /\ event'[e + 1] = PendingRow
    BY <1>4, <2>1, EventSets DEF RowsKeep
  <2>3. /\ PendingRow.status = "PENDING" /\ PendingRow.msg = 0
        /\ PendingRow.claimed = FALSE
    BY DEF PendingRow, AbsentRow
  <2>4. \A f \in FollowUps :
          /\ event'[f].claimed = event[f].claimed
          /\ event'[f].status = "ABSENT" => event[f].status = "ABSENT"
          /\ event'[f].status = "SUCCEEDED" => event[f].status = "SUCCEEDED"
          /\ event'[f].msg \in {0, event[f].msg}
    <3>1. event[e + 1].claimed = FALSE
      BY <1>4, EventSets DEF ClaimedFirst, TypeInv, TypeOK, StoreTypeOK, EventRow
    <3> SUFFICES ASSUME NEW f \in FollowUps
                 PROVE  /\ event'[f].claimed = event[f].claimed
                        /\ event'[f].status = "ABSENT" => event[f].status = "ABSENT"
                        /\ event'[f].status = "SUCCEEDED" => event[f].status = "SUCCEEDED"
                        /\ event'[f].msg \in {0, event[f].msg}
      OBVIOUS
    <3>2. CASE f = e + 1
      BY <1>4, <2>2, <2>3, <3>1, <3>2
    <3>3. CASE f # e + 1
      <4>1. RowKeeps(event[f], event'[f])
        BY <2>2, <3>3
      <4> QED BY <4>1 DEF RowKeeps, RowMoves
    <3> QED BY <3>2, <3>3
  <2> HIDE DEF rs
  <2>5. ClaimedFirst' /\ AtMostOneSend' /\ SucceededWasSent'
    BY <1>0, <2>4 DEF ClaimedFirst, AtMostOneSend, SucceededWasSent
  <2>6. MessageOwned'
    BY <1>0, <2>4 DEF MessageOwned
  <2>7. HandlersOwn'
    BY <1>0, <1>1 DEF QuietHandlers, HandlersOwn
  <2>8. SenderAlone'
    <3>1. \A g \in Handlers : handler'[g].pc \in Sending =>
            /\ handler[g].pc \in Sending /\ handler'[g].ev = handler[g].ev
            /\ handler[g].ev \in FollowUps
      BY <1>1 DEF QuietHandlers, TypeInv, HandlersKnow, Sending, Reserving
    <3> QED BY <1>0, <2>4, <3>1 DEF SenderAlone
  <2>9. SendsKnown'
    BY <1>0, <1>1 DEF QuietHandlers, SendsKnown, Reserving
  <2> QED BY <2>5, <2>6, <2>7, <2>8, <2>9
<1> QED BY <1>3, <1>4 DEF Schedule

\* A callback accepts a success only after the message was sent, and a send is
\* never undone before it is applied.
LEMMA CallbackSends ==
  ASSUME TypeInv, TypeInv', SendInv, NEW c \in Callbacks, CallbackStep(c),
         UNCHANGED handler
  PROVE  SendInv'
<1> USE DEF SendInv
<1>0. CallbackKeeps /\ callback \in [Callbacks -> CallbackState]
  BY CallbackStepKeeps DEF TypeInv, TypeOK, CallbackTypeOK
<1>1. /\ UNCHANGED <<message, sends>> /\ MessagesKeep(message')
      /\ RunsKeep(run') /\ RowsMove(event')
  BY <1>0, SameRuns DEF CallbackKeeps, history
<1>2. QuietHandlers
  BY DEF QuietHandlers
<1>3. ASSUME NEW r \in Runs, NEW ok \in BOOLEAN, ReadCallback(c, r, ok)
      PROVE  SendInv'
  <2>1. UNCHANGED event
    BY <1>3 DEF ReadCallback
  <2>2. QuietRows
    BY <1>1, <2>1, SameRuns, EventSets, KeptIsQuiet
       DEF RowsKeep, RowsKeepFollowUps
  <2>3. CASE UNCHANGED callback
    BY <1>2, <2>2, <2>3, QuietStep DEF QuietCallbacks
  <2>4. CASE /\ ok => CanAcceptSuccess(run[r].ev)
             /\ callback' = [callback EXCEPT ![c] =
                               [pc |-> "apply", run |-> r, ok |-> ok]]
             /\ UNCHANGED run
    <3>1. ASSUME ok, run[r].ev \in FollowUps
          PROVE  sends[run[r].ev] # 0
      BY <2>4, <3>1, SentWasSent DEF CanAcceptSuccess
    <3>2. \A g \in Callbacks : callback'[g] = IF g = c
            THEN [pc |-> "apply", run |-> r, ok |-> ok] ELSE callback[g]
      BY <1>0, <2>4
    <3>3. SendsKnown'
      BY <1>1, <2>4, <3>1, <3>2 DEF SendsKnown
    <3>4. ClaimedFirst' /\ AtMostOneSend' /\ SucceededWasSent' /\ MessageOwned'
      BY <1>1, <2>1
         DEF ClaimedFirst, AtMostOneSend, SucceededWasSent, MessageOwned
    <3>5. HandlersOwn' /\ SenderAlone'
      BY <1>1, <2>1 DEF HandlersOwn, SenderAlone
    <3> QED BY <3>3, <3>4, <3>5
  <2> QED BY <1>3, <2>3, <2>4 DEF ReadCallback
<1>4. CASE ApplyCallback(c) \/ CallbackStops(c)
  <2>1. QuietCallbacks
    BY <1>0, <1>4 DEF ApplyCallback, CallbackStops, CallbackIdle, QuietCallbacks
  <2>2. QuietRows
    <3>1. ASSUME NEW f \in FollowUps, event'[f].status = "SUCCEEDED"
          PROVE  event[f].status = "SUCCEEDED" \/ sends[f] # 0
      <4>1. CASE UNCHANGED event
        BY <3>1, <4>1
      <4>2. CASE ApplyCallback(c) /\ event' # event
        <5> DEFINE r == callback[c].run
                   e == run[r].ev
                   outcome == IF callback[c].ok THEN "SUCCEEDED" ELSE "FAILED"
        <5>1. /\ e \in Events /\ event[e] \in EventRow /\ r \in Runs
              /\ event \in [Events -> EventRow] /\ f \in Events
              /\ callback[c].pc = "apply"
          BY <4>2, EventSets DEF ApplyCallback, TypeInv, TypeOK, StoreTypeOK,
             CallbacksKnow, RunsKnown
        <5>2. event' = [event EXCEPT ![e] =
                [@ EXCEPT !.status = outcome, !.lock = 0, !.stale = FALSE]]
          BY <4>2 DEF ApplyCallback
        <5>3. CASE f # e
          BY <3>1, <5>1, <5>2, <5>3
        <5>4. CASE f = e
          <6>1. callback[c].ok
            BY <3>1, <5>1, <5>2, <5>4 DEF EventRow
          <6> QED BY <5>1, <5>4, <6>1 DEF SendsKnown
        <5> QED BY <5>3, <5>4
      <4> QED BY <1>4, <4>1, <4>2 DEF CallbackStops, store
    <3> QED BY <1>1, <3>1, EventSets DEF QuietRows, RowsMove
  <2> QED BY <1>2, <2>1, <2>2, QuietStep
<1> QED BY <1>3, <1>4 DEF CallbackStep

\* SendInv is inductive, given the types.
LEMMA StepSends == TypeInv /\ TypeInv' /\ SendInv /\ [Next]_vars => SendInv'
<1> SUFFICES ASSUME TypeInv, TypeInv', SendInv, [Next]_vars PROVE SendInv'
  OBVIOUS
<1>0. /\ UNCHANGED handler => QuietHandlers
      /\ UNCHANGED callback => QuietCallbacks
  BY DEF QuietHandlers, QuietCallbacks
<1>1. ASSUME NEW d \in Dispatchers, DispatcherStep(d),
             UNCHANGED <<handler, callback>>
      PROVE  SendInv'
  <2>1. QueueKeeps
    BY <1>1, PreflightKeeps, CancelsKeep, ClaimKeeps, DispatchKeeps
       DEF DispatcherStep
  <2>2. QuietRows
    BY <2>1, SameRuns, EventSets, KeptIsQuiet
       DEF QueueKeeps, Kept, RowsKeep, RowsKeepFollowUps
  <2> QED BY <1>0, <1>1, <2>2, QuietStep
<1>2. ASSUME NEW e \in Events, EventStep(e), UNCHANGED <<handler, callback>>
      PROVE  SendInv'
  <2>1. CASE ReclaimStale(e)
    <3>1. EventKeeps
      BY <2>1, RecoveryKeeps
    <3>2. \A f \in FollowUps : event'[f].status = "SUCCEEDED" =>
            event[f].status = "SUCCEEDED" \/ sends[f] # 0
      BY <2>1, RecoveryKeeps, SentWasSent
    <3>3. QuietRows
      BY <3>1, <3>2, EventSets DEF EventKeeps, RowsMove, QuietRows, history
    <3> QED BY <1>0, <1>2, <3>3, QuietStep
  <2>2. CASE RetryEvent(e) \/ CancelEvent(e) \/ BecomeDue(e) \/ BecomeStale(e)
    <3>1. EventKeeps /\ RowsKeep(event')
      BY <2>2, AdministrationKeeps
    <3>2. QuietRows
      BY <3>1, EventSets, KeptIsQuiet
         DEF EventKeeps, RowsKeep, RowsKeepFollowUps, history
    <3> QED BY <1>0, <1>2, <3>2, QuietStep
  <2> QED BY <1>2, <2>1, <2>2 DEF EventStep
<1>3. ASSUME NEW h \in Handlers, ActionStep(h), UNCHANGED callback
      PROVE  SendInv'
  <2>1. ASSUME InvalidateRead(h) \/ ReprogramRead(h) \/ HandlerStops(h)
        PROVE  SendInv'
    <3>1. UNCHANGED <<event, run, message, sends>>
      BY <2>1 DEF InvalidateRead, ReprogramRead, ReadProcessing, HandlerStops,
         store
    <3>2. QuietRows
      BY <3>1, SameRuns, EventSets, KeptIsQuiet
         DEF RowsKeep, RowsKeepFollowUps
    <3>3. QuietHandlers
      <4>1. CASE Finish(h)
        BY <4>1, QuietHandlerSteps
      <4>2. ASSUME NEW to \in {"invalidating", "reprogramming"},
                   handler' = [handler EXCEPT ![h] =
                     [@ EXCEPT !.pc = to, !.msg = event[handler[h].ev].msg,
                               !.att = event[handler[h].ev].attempts]]
            PROVE  QuietHandlers
        BY <4>2 DEF QuietHandlers, TypeInv, TypeOK, ActionTypeOK, HandlerState,
           Reserving, Sending
      <4> QED BY <2>1, <4>1, <4>2 DEF InvalidateRead, ReprogramRead,
              ReadProcessing, HandlerStops
    <3> QED BY <1>0, <1>3, <3>2, <3>3, QuietStep
  <2>2. ASSUME InvalidateWrite(h) \/ ReprogramWrite(h)
        PROVE  SendInv'
    <3>1. /\ ActionKeeps /\ RowsKeep(event') /\ MessagesKeep(message')
          /\ UNCHANGED sends /\ Finish(h)
      BY <2>2, WriteKeeps
    <3>2. QuietHandlers
      BY <3>1, QuietHandlerSteps
    <3>3. QuietRows
      BY <3>1, EventSets, KeptIsQuiet DEF ActionKeeps, RowsKeep, RowsKeepFollowUps
    <3> QED BY <1>0, <1>3, <3>2, <3>3, QuietStep
  <2>3. ASSUME Deliver(h) PROVE SendInv'
    <3>1. /\ handler[h].pc = "deliver" /\ handler[h].msg \in Messages
          /\ message \in [Messages -> MessageRow]
          /\ "deliver" \in Reserving /\ "deliver" \in Sending
      BY <2>3 DEF Deliver, TypeInv, TypeOK, StoreTypeOK, HandlersKnow,
         Reserving, Sending
    <3>2. QuietHandlers
      BY <2>3, <3>1, QuietHandlerSteps DEF Deliver
    <3>3. MessagesKeep(message')
      <4>1. CASE message' = [message EXCEPT ![handler[h].msg].claimed = TRUE]
        BY <3>1, <4>1 DEF MessagesKeep, MessageRow
      <4> QED BY <2>3, <3>1, <4>1, Discarding DEF Deliver
    <3>4. QuietRows
      BY <2>3, <3>3, SameRuns, EventSets, KeptIsQuiet
         DEF Deliver, history, RowsKeep, RowsKeepFollowUps
    <3> QED BY <1>0, <1>3, <3>2, <3>4, QuietStep
  <2>4. ASSUME Complete(h) PROVE SendInv'
    <3>1. QuietHandlers
      BY <2>4, QuietHandlerSteps DEF Complete
    <3>2. RowsKeepFollowUps
      <4>1. CASE UNCHANGED event
        BY <4>1, SameRuns, EventSets DEF RowsKeep, RowsKeepFollowUps
      <4>2. CASE event' = [event EXCEPT ![handler[h].ev].completed = TRUE]
        BY <4>2, EventSets DEF TypeInv, TypeOK, StoreTypeOK, EventRow, Counted, Numbered,
           RowsKeepFollowUps, RowKeeps, RowMoves
      <4> QED BY <2>4, <4>1, <4>2 DEF Complete
    <3>3. QuietRows
      BY <2>4, <3>2, SameRuns, KeptIsQuiet DEF Complete, history
    <3> QED BY <1>0, <1>3, <3>1, <3>3, QuietStep
  <2> QED BY <1>3, <2>1, <2>2, <2>3, <2>4, ReserveSends, ClaimDeliverySends,
             ProviderSends, PersistSends, ScheduleSends DEF ActionStep
<1>4. ASSUME AlertKeeps, UNCHANGED <<handler, callback>>
      PROVE  SendInv'
  <2>1. QuietRows
    BY <1>4, SameRuns, EventSets, KeptIsQuiet
       DEF AlertKeeps, RowsAlert, RowsKeep, RowsKeepFollowUps
  <2> QED BY <1>0, <1>4, <2>1, QuietStep
<1>5. ASSUME ConversationStep, UNCHANGED <<handler, callback>>
      PROVE  SendInv'
  <2>1. ConversationKeeps
    BY <1>5, ConversationStepKeeps
  <2>2. QuietRows
    BY <2>1, SameRuns, KeptIsQuiet DEF ConversationKeeps, history
  <2> QED BY <1>0, <1>5, <2>2, QuietStep
<1>6. CASE UNCHANGED vars
  <2>1. QuietRows
    BY <1>6, SameRuns, EventSets, KeptIsQuiet
       DEF vars, store, RowsKeep, RowsKeepFollowUps
  <2> QED BY <1>0, <1>6, <2>1, QuietStep DEF vars
<1> QED BY <1>1, <1>2, <1>3, <1>4, <1>5, <1>6, CallbackSends, AlertStepKeeps,
           AlreadySentKeeps DEF Next

\* Nothing was sent at first.
LEMMA InitSends == Init => SendInv
BY EventSets, BoundsAssumption
   DEF Init, StoreInit, ActionInit, HandlerIdle, CallbackInit, CallbackIdle,
   SendInv, ClaimedFirst, SenderAlone, HandlersOwn, MessageOwned, SendsKnown,
   AtMostOneSend, SucceededWasSent, PendingRow, AbsentRow, Sending, Reserving

\* The conjunction the other theorems follow from is an invariant.
LEMMA Inductive == Spec => [](TypeInv /\ SendInv)
BY InitType, InitSends, StepType, StepSends, PTL DEF Spec

\* Whatever is duplicated, delayed or cut off, a request that reached the
\* provider was the only one to claim its follow-up, and what messages and
\* callbacks know of its send is true.
THEOREM SendInvariant == Spec => []SendInv
BY Inductive, PTL

\* The provider accepts at most one message of a follow-up, for any number of
\* dispatchers, duplicated requests, callbacks, retries and crashes.
THEOREM SendsAtMostOnce == Spec => []AtMostOneSend
<1>1. TypeInv /\ SendInv => AtMostOneSend
  BY DEF SendInv
<1> QED BY <1>1, Inductive, PTL

\* A follow-up is shown as SUCCEEDED only if its message was sent.
THEOREM SuccessWasSent == Spec => []SucceededWasSent
<1>1. TypeInv /\ SendInv => SucceededWasSent
  BY DEF SendInv
<1> QED BY <1>1, Inductive, PTL

------------------------------------------------------------------------------
(* The automation subsystem implements FollowUpOnce: the second claim is its *)
(* Commit, the provider's answer its Hand, the scheduling of the next        *)
(* follow-up its Plan, the customer's reply its Answer; the rest stutters.   *)

SamePhases == \A e \in FollowUps :
  /\ event'[e].claimed = event[e].claimed
  /\ event'[e].status = "ABSENT" <=> event[e].status = "ABSENT"
  /\ sends'[e] = sends[e]
Phases == [e \in FollowUps |-> PhaseOf(e)]
OnceStep == Once!OnceNext \/ UNCHANGED <<Phases, replied>>

\* A step that neither claims, schedules nor sends is a stutter or the
\* customer's answer.
LEMMA PhasesSame ==
  ASSUME SamePhases, replied' = replied \/ replied' = TRUE
  PROVE  OnceStep
<1>1. \A e \in FollowUps : PhaseOf(e)' = PhaseOf(e)
  BY DEF SamePhases, PhaseOf
<1>2. Phases' = Phases
  BY <1>1 DEF Phases, FollowUps
<1> QED BY <1>2 DEF OnceStep, Once!OnceNext, Once!Answer, Phases

\* A step that moves one follow-up along is one of FollowUpOnce.
LEMMA OnePhaseMoves ==
  ASSUME NEW e \in FollowUps, PhaseOf(e)' # PhaseOf(e), UNCHANGED replied,
         \A f \in FollowUps : f # e => PhaseOf(f)' = PhaseOf(f),
         \/ PhaseOf(e) = "waiting" /\ PhaseOf(e)' = "committed" /\ ~replied
         \/ PhaseOf(e) = "committed" /\ PhaseOf(e)' = "handed"
         \/ /\ PhaseOf(e) = "unscheduled" /\ PhaseOf(e)' = "waiting"
            /\ ~replied /\ e - 1 \in FollowUps /\ PhaseOf(e - 1) = "handed"
  PROVE  OnceStep
<1>1. Phases' = [Phases EXCEPT ![e] = PhaseOf(e)']
  BY DEF Phases, FollowUps
<1>2. Phases[e] = PhaseOf(e) /\ e \in Once!Numbers
  BY DEF Phases, FollowUps, Once!Numbers
<1>3. e - 1 \in FollowUps => Phases[e - 1] = PhaseOf(e - 1)
  BY DEF Phases
<1> QED BY <1>1, <1>2, <1>3 DEF OnceStep, Once!OnceNext, Once!Plan, Once!Commit,
           Once!Hand, Once!Move, Phases

\* The second claim commits a follow-up and the provider's answer hands it
\* over.
LEMMA DeliveryRefines ==
  ASSUME TypeInv, SendInv, NEW h \in Handlers,
         ClaimDelivery(h) \/ ProviderAnswers(h)
  PROVE  OnceStep
<1> USE DEF SendInv
<1> PICK e \in FollowUps : e = handler[h].ev
  BY DEF ClaimDelivery, ProviderAnswers, TypeInv, HandlersKnow
<1>0. /\ e \in Events /\ event \in [Events -> EventRow]
      /\ sends \in [FollowUps -> Nat] /\ UNCHANGED replied
  BY EventSets DEF ClaimDelivery, ProviderAnswers, TypeInv, TypeOK, StoreTypeOK,
     Others, world
<1>1. CASE UNCHANGED <<event, sends>>
  BY <1>0, <1>1, PhasesSame DEF SamePhases
<1>2. ASSUME Executable(h), Eligible(e), UNCHANGED sends,
             event' = [event EXCEPT ![e].claimed = TRUE]
      PROVE  OnceStep
  <2>1. /\ ~event[e].claimed /\ event[e].status = "PROCESSING" /\ ~replied
        /\ sends[e] = 0
    BY <1>0, <1>2 DEF Executable, Eligible, ClaimedFirst
  <2>2. /\ event'[e].claimed /\ event'[e].status = "PROCESSING" /\ sends'[e] = 0
        /\ \A f \in FollowUps : f # e =>
             event'[f] = event[f] /\ sends'[f] = sends[f]
    BY <1>0, <1>2, <2>1 DEF EventRow
  <2>3. PhaseOf(e) = "waiting" /\ PhaseOf(e)' = "committed"
    BY <1>0, <2>1, <2>2 DEF PhaseOf
  <2>4. \A f \in FollowUps : f # e => PhaseOf(f)' = PhaseOf(f)
    BY <2>2 DEF PhaseOf
  <2> QED BY <1>0, <2>1, <2>3, <2>4, OnePhaseMoves
<1>3. ASSUME ProviderAnswers(h), sends' = [sends EXCEPT ![e] = @ + 1]
      PROVE  OnceStep
  <2>1. event[e].claimed /\ sends[e] = 0 /\ UNCHANGED event
    BY <1>3 DEF ProviderAnswers, SenderAlone, Sending, rows
  <2>2. /\ sends'[e] = 1
        /\ \A f \in FollowUps : f # e => sends'[f] = sends[f]
    BY <1>0, <1>3, <2>1
  <2>3. PhaseOf(e) = "committed" /\ PhaseOf(e)' = "handed"
    BY <2>1, <2>2 DEF PhaseOf
  <2>4. \A f \in FollowUps : f # e => PhaseOf(f)' = PhaseOf(f)
    BY <2>1, <2>2 DEF PhaseOf
  <2> QED BY <1>0, <2>3, <2>4, OnePhaseMoves
<1> QED BY <1>1, <1>2, <1>3 DEF ClaimDelivery, ProviderAnswers, rows, history

\* A follow-up is planned only after the one before it was handed over.
LEMMA ScheduleRefines ==
  ASSUME TypeInv, SendInv, NEW h \in Handlers, Schedule(h)
  PROVE  OnceStep
<1> USE DEF SendInv
<1> PICK e \in FollowUps : e = handler[h].ev
  BY DEF Schedule, TypeInv, HandlersKnow
<1> DEFINE rs == CancelFollowUps(event)
<1>0. /\ event \in [Events -> EventRow]
      /\ FollowUps \subseteq Events
      /\ UNCHANGED <<sends, replied>>
      /\ handler[h].msg \in Messages /\ message[handler[h].msg].ev = e
  BY EventSets DEF Schedule, TypeInv, TypeOK, StoreTypeOK, HandlersKnow,
     HandlersOwn, Others, world, history, Reserving
<1>1. CASE UNCHANGED event
  BY <1>0, <1>1, PhasesSame DEF SamePhases
<1>2. CASE /\ message[handler[h].msg].status = "SENT" /\ ~replied
           /\ e + 1 \in FollowUps /\ event[e + 1].status = "ABSENT"
           /\ event' = [rs EXCEPT ![e + 1] = PendingRow]
  <2>1. RowsKeep(rs)
    BY CancellationKeeps DEF TypeInv, TypeOK, StoreTypeOK
  <2>2. sends[e] = 1
    <3>1. sends[e] # 0
      BY <1>0, <1>2 DEF SendsKnown
    <3>2. sends[e] \in Nat /\ sends[e] <= 1
      BY <1>0 DEF AtMostOneSend, TypeInv, TypeOK, StoreTypeOK
    <3> QED BY <3>1, <3>2
  <2>3. event[e + 1].claimed = FALSE /\ sends[e + 1] = 0
    BY <1>0, <1>2 DEF ClaimedFirst, EventRow
  <2>4. /\ event'[e + 1].status = "PENDING" /\ event'[e + 1].claimed = FALSE
        /\ \A f \in FollowUps : f # e + 1 =>
             /\ event'[f].claimed = event[f].claimed
             /\ event'[f].status = "ABSENT" <=> event[f].status = "ABSENT"
    BY <1>0, <1>2, <2>1 DEF RowsKeep, RowKeeps, RowMoves, PendingRow, AbsentRow
  <2>5. PhaseOf(e + 1) = "unscheduled" /\ PhaseOf(e + 1)' = "waiting"
    BY <1>0, <1>2, <2>3, <2>4 DEF PhaseOf
  <2>6. \A f \in FollowUps : f # e + 1 => PhaseOf(f)' = PhaseOf(f)
    BY <1>0, <2>4 DEF PhaseOf
  <2>7. PhaseOf(e) = "handed" /\ (e + 1) - 1 = e
    BY <1>0, <2>2 DEF PhaseOf, FollowUps
  <2> QED BY <1>0, <1>2, <2>5, <2>6, <2>7, OnePhaseMoves
<1> QED BY <1>1, <1>2 DEF Schedule

\* Every step is a step of FollowUpOnce or a stutter.
LEMMA StepRefines == TypeInv /\ SendInv /\ [Next]_vars => OnceStep
<1> SUFFICES ASSUME TypeInv, SendInv, [Next]_vars PROVE OnceStep
  OBVIOUS
<1> USE EventSets
<1>1. ASSUME NEW d \in Dispatchers, DispatcherStep(d)
      PROVE  OnceStep
  <2>1. QueueKeeps
    BY <1>1, PreflightKeeps, CancelsKeep, ClaimKeeps, DispatchKeeps
       DEF DispatcherStep
  <2> QED BY <2>1, PhasesSame DEF QueueKeeps, Kept, RowsKeep, RowKeeps, RowMoves,
          SamePhases, world
<1>2. ASSUME NEW e \in Events, EventStep(e)
      PROVE  OnceStep
  <2>1. EventKeeps
    BY <1>2, AdministrationKeeps, RecoveryKeeps DEF EventStep
  <2> QED BY <2>1, PhasesSame
          DEF EventKeeps, RowsMove, RowMoves, SamePhases, world, history
<1>3. ASSUME NEW h \in Handlers, ActionStep(h)
      PROVE  OnceStep
  <2>0. UNCHANGED replied
    BY <1>3, ActionStepKeeps DEF ActionKeeps, world
  <2>1. ASSUME NEW r \in Runs, Reserve(h, r)
        PROVE  SamePhases
    <3>1. CASE UNCHANGED event
      BY <2>1, <3>1 DEF Reserve, history, SamePhases
    <3>2. ASSUME NEW m \in Messages, event' = [event EXCEPT ![run[r].ev].msg = m]
          PROVE  SamePhases
      BY <2>1, <3>2 DEF Reserve, history, SamePhases, TypeInv, TypeOK,
         StoreTypeOK, EventRow
    <3> QED BY <2>1, <3>1, <3>2 DEF Reserve
  <2>2. ASSUME InvalidateRead(h) \/ ReprogramRead(h) \/ HandlerStops(h)
               \/ Deliver(h) \/ Persist(h)
        PROVE  SamePhases
    BY <2>2 DEF InvalidateRead, ReprogramRead, ReadProcessing, HandlerStops,
       Deliver, Persist, store, history, SamePhases
  <2>3. ASSUME InvalidateWrite(h) \/ ReprogramWrite(h)
        PROVE  SamePhases
    BY <2>3, WriteKeeps DEF RowsKeep, RowKeeps, RowMoves, SamePhases
  <2>4. ASSUME Complete(h) PROVE SamePhases
    <3>1. CASE UNCHANGED event
      BY <2>4, <3>1 DEF Complete, history, SamePhases
    <3>2. CASE event' = [event EXCEPT ![handler[h].ev].completed = TRUE]
      BY <2>4, <3>2 DEF Complete, history, SamePhases, TypeInv, TypeOK,
         StoreTypeOK, EventRow
    <3> QED BY <2>4, <3>1, <3>2 DEF Complete
  <2> QED BY <1>3, <2>0, <2>1, <2>2, <2>3, <2>4, PhasesSame, DeliveryRefines,
             ScheduleRefines DEF ActionStep
<1>4. ASSUME AlertKeeps PROVE OnceStep
  BY <1>4, PhasesSame DEF AlertKeeps, RowsAlert, SamePhases, world
<1>5. ASSUME NEW c \in Callbacks, CallbackStep(c)
      PROVE  OnceStep
  BY <1>5, CallbackStepKeeps, PhasesSame
     DEF CallbackKeeps, RowsMove, RowMoves, SamePhases, world, history
<1>6. ASSUME ConversationStep PROVE OnceStep
  <2>1. SamePhases
    BY <1>6, ConversationStepKeeps DEF ConversationKeeps, RowsKeepFollowUps,
       RowKeeps, RowMoves, SamePhases, history
  <2>2. replied' = replied \/ replied' = TRUE
    BY <1>6 DEF ConversationStep, GateBegin, GateCommit, Reopen, ReturnToAI,
       CustomerReply, StatusFailed, HoursPass, world
  <2> QED BY <2>1, <2>2, PhasesSame
<1>7. CASE UNCHANGED vars
  BY <1>7, PhasesSame DEF vars, store, SamePhases
<1> QED BY <1>1, <1>2, <1>3, <1>4, <1>5, <1>6, <1>7, AlertStepKeeps,
           AlreadySentKeeps DEF Next

\* The first follow-up waits and the others are unscheduled.
LEMMA InitRefines == Init => Once!OnceInit
BY EventSets DEF Init, StoreInit, PendingRow, AbsentRow, Once!OnceInit,
   Once!Numbers, PhaseOf, FollowUps

\* The queue, the duplicated and delayed calls, the recovery and the crashes
\* are invisible: what the customer sees of the follow-ups is FollowUpOnce.
THEOREM Refinement == Spec => ImplementsOnce
<1>1. OnceStep => [Once!OnceNext]_<<[e \in FollowUps |-> PhaseOf(e)], replied>>
  BY DEF OnceStep, Phases
<1> QED BY <1>1, Inductive, InitRefines, StepRefines, PTL
        DEF Spec, ImplementsOnce, Once!OnceSpec

\* Two follow-ups never wait at once: this follows from what FollowUpOnce
\* promises, because an unclaimed follow-up is one that was not handed over.
THEOREM OneWaits == Spec => []OneLiveFollowUp
<1>1. TypeInv /\ SendInv /\ Once!OnceInOrder => OneLiveFollowUp
  <2> SUFFICES ASSUME TypeInv, SendInv, Once!OnceInOrder,
                      NEW e \in FollowUps, NEW f \in FollowUps, e < f,
                      event[e].status \in Live, ~event[e].claimed,
                      event[f].status \in Live, ~event[f].claimed
               PROVE  FALSE
    BY DEF OneLiveFollowUp, FollowUps
  <2>1. \A g \in {e, f} : PhaseOf(g) = "waiting"
    BY DEF SendInv, ClaimedFirst, PhaseOf, Live
  <2> QED BY <2>1 DEF Once!OnceInOrder, Once!Numbers, FollowUps
<1>2. MaxFollowUps \in Nat
  BY BoundsAssumption
<1>3. Spec => []Once!OnceInOrder
  BY <1>2, Refinement, Once!InOrder, PTL DEF ImplementsOnce
<1> QED BY <1>1, <1>3, Inductive, PTL

------------------------------------------------------------------------------
(* While the sending hours stay open, what was cancelled is never sent: each *)
(* step keeps the mark of a follow-up that was not committed, because the    *)
(* rescheduling that erases it is never reached (AuditInv).                  *)

BarKept(old, new) ==
  /\ Barred(old) => Barred(new)
  /\ new.status = "ABSENT" => old.status = "ABSENT" /\ new.mark = old.mark
BarsKept == \A e \in FollowUps : BarKept(event[e], event'[e])
Rescheduling == {"reprogram", "reprogramming"}

\* Everything but a rescheduling keeps the mark, and the claim of the delivery
\* is refused to a marked one.
LEMMA RowsBarred ==
  ASSUME NEW row \in EventRow, row.status # "ABSENT"
  PROVE  /\ BarKept(row, CancelRow(row))
         /\ BarKept(row, [row EXCEPT !.mark = TRUE])
         /\ BarKept(row, RetryRow(row))
         /\ \A r : BarKept(row, ClaimedRow(row, r))
         /\ \A b \in BOOLEAN : /\ BarKept(row, FailedDispatchRow(row, b))
                               /\ BarKept(row, [row EXCEPT !.due = b])
                               /\ BarKept(row, [row EXCEPT !.stale = b])
         /\ ~row.mark => BarKept(row, [row EXCEPT !.claimed = TRUE])
         /\ \A m \in Messages : BarKept(row, [row EXCEPT !.msg = m])
         /\ \A b : BarKept(row, [row EXCEPT !.completed = b])
<1> USE DEF BarKept, Barred, EventRow
<1>1. BarKept(row, CancelRow(row)) /\ BarKept(row, RetryRow(row))
  BY DEF CancelRow, RetryRow
<1>2. \A r : BarKept(row, ClaimedRow(row, r))
  BY DEF ClaimedRow
<1>3. ASSUME NEW b \in BOOLEAN PROVE BarKept(row, FailedDispatchRow(row, b))
  BY DEF FailedDispatchRow
<1>4. \A b \in BOOLEAN : /\ BarKept(row, [row EXCEPT !.due = b])
                         /\ BarKept(row, [row EXCEPT !.stale = b])
  OBVIOUS
<1>5. /\ BarKept(row, [row EXCEPT !.mark = TRUE])
      /\ ~row.mark => BarKept(row, [row EXCEPT !.claimed = TRUE])
  OBVIOUS
<1>6. /\ \A m \in Messages : BarKept(row, [row EXCEPT !.msg = m])
      /\ \A b : BarKept(row, [row EXCEPT !.completed = b])
  OBVIOUS
<1> QED BY <1>1, <1>2, <1>3, <1>4, <1>5, <1>6

\* A step that writes one row, keeping the mark of a follow-up, or none.
LEMMA OneBarred ==
  ASSUME TypeInv, NEW e, NEW row,
         event' = event \/ (/\ event' = [event EXCEPT ![e] = row]
                            /\ e \in FollowUps => BarKept(event[e], row))
  PROVE  BarsKept
<1>1. \A f \in FollowUps : f \in Events /\ BarKept(event[f], event[f])
  BY EventSets DEF BarKept, Barred
<1> QED BY <1>1 DEF BarsKept, TypeInv, TypeOK, StoreTypeOK

\* The cancellation of the follow-ups of a conversation.
LEMMA CancellationBars ==
  ASSUME TypeInv, NEW e \in FollowUps
  PROVE  /\ BarKept(event[e], CancelPending(event)[e])
         /\ BarKept(event[e], MarkProcessing(event)[e])
         /\ BarKept(event[e], CancelFollowUps(event)[e])
<1>0. e \in Events /\ event[e] \in EventRow /\ BarKept(event[e], event[e])
  BY EventSets DEF TypeInv, TypeOK, StoreTypeOK, BarKept, Barred
<1>1. BarKept(event[e], CancelPending(event)[e])
  BY <1>0, RowsBarred DEF CancelPending
<1>2. BarKept(event[e], MarkProcessing(event)[e])
  BY <1>0, RowsBarred DEF MarkProcessing
<1>3. BarKept(event[e], CancelFollowUps(event)[e])
  <2>1. \/ CancelFollowUps(event)[e] = CancelPending(event)[e]
        \/ /\ CancelPending(event)[e].status = "PROCESSING"
           /\ CancelFollowUps(event)[e] =
                [CancelPending(event)[e] EXCEPT !.mark = TRUE]
    BY <1>0 DEF CancelFollowUps, MarkProcessing
  <2>2. CancelPending(event)[e].status = "PROCESSING" =>
          CancelPending(event)[e] = event[e]
    BY <1>0 DEF CancelPending, CancelRow, EventRow
  <2> QED BY <1>0, <1>1, <2>1, <2>2, RowsBarred
<1> QED BY <1>1, <1>2, <1>3

\* The queue never looks at the mark of a follow-up but to cancel it.
LEMMA QueueBars ==
  ASSUME TypeInv, NEW d \in Dispatchers, DispatcherStep(d)
  PROVE  BarsKept
<1> USE DEF TypeInv, TypeOK
<1> DEFINE e == dispatcher[d].ev
<1>0. \A f \in Events : event[f] \in EventRow
  BY DEF StoreTypeOK
<1>1. ASSUME NEW f \in Events, Preflight(d, f) PROVE BarsKept
  <2>1. \/ event' = event
        \/ event' = [event EXCEPT ![f] = [event[f] EXCEPT !.due = FALSE]]
    BY <1>1 DEF Preflight
  <2>2. event[f].status # "ABSENT"
    BY <1>1 DEF Preflight
  <2>3. BarKept(event[f], [event[f] EXCEPT !.due = FALSE])
    BY <1>0, <2>2, RowsBarred
  <2> QED BY <2>1, <2>3, OneBarred
<1>2. ASSUME PreflightCancel(d) \/ ClaimNothing(d) PROVE BarsKept
  <2>1. e \in Events
    BY <1>2 DEF PreflightCancel, ClaimNothing, DispatchersKnow
  <2>2. \/ event' = event
        \/ /\ event[e].status = "PENDING"
           /\ event' = [event EXCEPT ![e] = CancelRow(event[e])]
    BY <1>2 DEF PreflightCancel, ClaimNothing
  <2>3. event[e].status = "PENDING" => BarKept(event[e], CancelRow(event[e]))
    BY <1>0, <2>1, RowsBarred
  <2> QED BY <2>2, <2>3, OneBarred
<1>3. ASSUME NEW r \in Runs, ClaimEvent(d, r) PROVE BarsKept
  <2>1. /\ e \in Events /\ event[e].status # "ABSENT"
        /\ event' = [event EXCEPT ![e] = ClaimedRow(event[e], r)]
    BY <1>3 DEF ClaimEvent, ClaimFor, DispatchersKnow
  <2>2. BarKept(event[e], ClaimedRow(event[e], r))
    BY <1>0, <2>1, RowsBarred
  <2> QED BY <2>1, <2>2, OneBarred
<1>4. ASSUME Record(d) PROVE BarsKept
  <2>1. e \in Events
    BY <1>4 DEF Record, DispatchersKnow
  <2>2. \/ event' = event
        \/ \E b \in BOOLEAN :
             /\ Owns(d) /\ event' = [event EXCEPT ![e] = FailedDispatchRow(event[e], b)]
    BY <1>4 DEF Record
  <2>3. \A b \in BOOLEAN : Owns(d) => BarKept(event[e], FailedDispatchRow(event[e], b))
    BY <1>0, <2>1, RowsBarred DEF Owns
  <2> QED BY <2>2, <2>3, OneBarred
<1>5. ASSUME Dispatch(d) \/ DispatcherStops(d) PROVE BarsKept
  <2>1. event' = event
    BY <1>5 DEF Dispatch, DispatcherStops, rows, store
  <2> QED BY <2>1, OneBarred
<1> QED BY <1>1, <1>2, <1>3, <1>4, <1>5 DEF DispatcherStep

\* Nor do the administrator, the clock and the recovery.
LEMMA EventBars ==
  ASSUME TypeInv, NEW e \in Events, EventStep(e)
  PROVE  BarsKept
<1> USE DEF TypeInv, TypeOK
<1>0. event[e] \in EventRow
  BY DEF StoreTypeOK
<1>1. CASE RetryEvent(e) \/ CancelEvent(e) \/ BecomeDue(e) \/ BecomeStale(e)
  <2>1. PICK row \in {RetryRow(event[e]), CancelRow(event[e]),
                      [event[e] EXCEPT !.due = TRUE],
                      [event[e] EXCEPT !.stale = TRUE]} :
          event' = [event EXCEPT ![e] = row]
    BY <1>1 DEF RetryEvent, CancelEvent, BecomeDue, BecomeStale
  <2>2. event[e].status # "ABSENT"
    BY <1>1 DEF RetryEvent, CancelEvent, BecomeDue, BecomeStale
  <2>3. BarKept(event[e], row)
    BY <1>0, <2>2, RowsBarred
  <2> QED BY <2>1, <2>3, OneBarred
<1>2. CASE ReclaimStale(e)
  <2>1. event' = [event EXCEPT ![e] = RecoveredRow(e)]
    BY <1>2 DEF ReclaimStale
  <2>2. StaleStatus(e) # "ABSENT"
    BY DEF StaleStatus
  <2>3. BarKept(event[e], RecoveredRow(e))
    BY <1>0, <2>2 DEF RecoveredRow, EventRow, BarKept, Barred
  <2> QED BY <2>1, <2>3, OneBarred
<1> QED BY <1>1, <1>2 DEF EventStep

\* A follow-up request without a rescheduling: it refuses to claim a marked
\* follow-up, and plans only one that did not exist.
LEMMA ActionBars ==
  ASSUME TypeInv, AuditInv, NEW h \in Handlers, ActionStep(h)
  PROVE  BarsKept
<1> USE DEF TypeInv, TypeOK
<1> DEFINE e == handler[h].ev
<1>0. /\ event \in [Events -> EventRow] /\ FollowUps \subseteq Events
      /\ handler[h].pc # "idle" => e \in FollowUps
      /\ handler[h].pc \notin Rescheduling
  BY EventSets DEF StoreTypeOK, HandlersKnow, AuditInv, NothingRescheduled,
     Rescheduling
<1>1. CASE UNCHANGED event
  BY <1>1, OneBarred
<1>2. ASSUME NEW f \in Events, event[f].status # "ABSENT", NEW row,
             \/ row = CancelRow(event[f])
             \/ \E m \in Messages : row = [event[f] EXCEPT !.msg = m]
             \/ ~event[f].mark /\ row = [event[f] EXCEPT !.claimed = TRUE],
             event' = [event EXCEPT ![f] = row]
      PROVE  BarsKept
  <2>0. event[f] \in EventRow
    BY <1>0
  <2>1. BarKept(event[f], row)
    BY <1>2, <2>0, RowsBarred
  <2> QED BY <1>2, <2>1, OneBarred
<1>3. ASSUME NEW r \in Runs, Reserve(h, r), ~UNCHANGED event
      PROVE  BarsKept
  <2> DEFINE f == run[r].ev
  <2>1. PICK m \in Messages : event' = [event EXCEPT ![f] = [event[f] EXCEPT !.msg = m]]
    BY <1>3 DEF Reserve
  <2>2. f \in Events /\ event[f].status # "ABSENT"
    BY <1>0, <1>3 DEF Reserve
  <2> HIDE DEF f
  <2> QED BY <1>2, <2>1, <2>2
<1>4. ASSUME InvalidateWrite(h), ~UNCHANGED event PROVE BarsKept
  BY <1>0, <1>2, <1>4 DEF InvalidateWrite, WriteProcessing
<1>5. ASSUME ClaimDelivery(h), ~UNCHANGED event PROVE BarsKept
  <2>1. /\ event' = [event EXCEPT ![e] = [event[e] EXCEPT !.claimed = TRUE]]
        /\ ~event[e].mark /\ event[e].status # "ABSENT" /\ e \in Events
    BY <1>0, <1>5 DEF ClaimDelivery, CancellationRequested, Executable
  <2> QED BY <1>2, <2>1
<1>6. ASSUME Complete(h), ~UNCHANGED event PROVE BarsKept
  <2> DEFINE row == [event[e] EXCEPT !.completed = TRUE]
  <2>1. event' = [event EXCEPT ![e] = row] /\ e \in Events
    BY <1>0, <1>6 DEF Complete
  <2>2. BarKept(event[e], row)
    BY <1>0, <2>1 DEF BarKept, Barred, EventRow
  <2> QED BY <2>1, <2>2, OneBarred
<1>7. ASSUME Schedule(h), ~UNCHANGED event PROVE BarsKept
  <2>1. /\ e + 1 \in FollowUps /\ event[e + 1].status = "ABSENT"
        /\ event' = [CancelFollowUps(event) EXCEPT ![e + 1] = PendingRow]
    BY <1>7 DEF Schedule
  <2>2. CancelFollowUps(event) \in [Events -> EventRow]
    BY <1>0, CancellationKeeps DEF RowsKeep
  <2>3. \A f \in FollowUps : event'[f] = IF f = e + 1 THEN PendingRow
                                         ELSE CancelFollowUps(event)[f]
    BY <1>0, <2>1, <2>2
  <2>4. BarKept(event[e + 1], PendingRow)
    BY <2>1 DEF PendingRow, AbsentRow, BarKept, Barred
  <2> QED BY <2>3, <2>4, CancellationBars DEF BarsKept
<1>8. CASE \/ InvalidateRead(h) \/ ReprogramRead(h) \/ Deliver(h)
           \/ ProviderAnswers(h) \/ Persist(h) \/ HandlerStops(h)
  BY <1>1, <1>8 DEF InvalidateRead, ReprogramRead, ReadProcessing, Deliver,
     ProviderAnswers, Persist, HandlerStops, store, rows
<1>9. ~ReprogramWrite(h)
  BY <1>0 DEF ReprogramWrite, WriteProcessing, Rescheduling
<1> QED BY <1>1, <1>3, <1>4, <1>5, <1>6, <1>7, <1>8, <1>9 DEF ActionStep

\* A callback writes the outcome of an event being processed.
LEMMA CallbackBars ==
  ASSUME TypeInv, NEW c \in Callbacks, CallbackStep(c)
  PROVE  BarsKept
<1> USE DEF TypeInv, TypeOK
<1>1. CASE UNCHANGED event
  BY <1>1, OneBarred
<1>2. ASSUME ApplyCallback(c), Matches(c) PROVE BarsKept
  <2> DEFINE e == run[callback[c].run].ev
             outcome == IF callback[c].ok THEN "SUCCEEDED" ELSE "FAILED"
             row == [event[e] EXCEPT !.status = outcome, !.lock = 0,
                                     !.stale = FALSE]
  <2>1. e \in Events /\ event[e] \in EventRow
    BY <1>2 DEF ApplyCallback, CallbacksKnow, RunsKnown, StoreTypeOK
  <2>2. event' = [event EXCEPT ![e] = row]
    BY <1>2 DEF ApplyCallback
  <2>3. event[e].status # "ABSENT"
    BY <1>2 DEF Matches, EventMatches
  <2>4. BarKept(event[e], row)
    BY <2>1, <2>3 DEF BarKept, Barred, EventRow
  <2> QED BY <2>2, <2>4, OneBarred
<1> QED BY <1>1, <1>2 DEF CallbackStep, ReadCallback, ApplyCallback,
        CallbackStops, store

\* The conversation only adds marks, and writes handoffs.
LEMMA ConversationBars ==
  ASSUME TypeInv, ConversationStep
  PROVE  BarsKept
<1> USE DEF TypeInv, TypeOK
<1>1. CASE UNCHANGED event
  BY <1>1, OneBarred
<1>2. CASE event' \in {CancelPending(event), MarkProcessing(event),
                       CancelFollowUps(event)}
  BY <1>2, CancellationBars DEF BarsKept
<1>3. ASSUME NEW e \in Handoffs, NEW row,
             event' = [MarkProcessing(event) EXCEPT ![e] = row]
      PROVE  BarsKept
  <2>1. MarkProcessing(event) \in [Events -> EventRow]
    BY CancellationKeeps DEF RowsKeep, StoreTypeOK
  <2>2. \A f \in FollowUps : event'[f] = MarkProcessing(event)[f]
    BY <1>3, <2>1, EventSets
  <2> QED BY <2>2, CancellationBars DEF BarsKept
<1> QED BY <1>1, <1>2, <1>3 DEF ConversationStep, GateBegin, GateCommit,
        NextHandoff, Reopen, ReturnToAI, CustomerReply, StatusFailed, HoursPass

\* Every step keeps the marks.
LEMMA StepBars == TypeInv /\ AuditInv /\ [Next]_vars => BarsKept
<1>1. ASSUME AlertKeeps, TypeInv PROVE BarsKept
  <2>1. \A e \in FollowUps : event'[e] = event[e]
    BY <1>1 DEF AlertKeeps, RowsAlert
  <2> QED BY <2>1 DEF BarsKept, BarKept, Barred
<1>2. ASSUME UNCHANGED vars, TypeInv PROVE BarsKept
  <2>1. event' = event
    BY <1>2 DEF vars, store
  <2> QED BY <1>2, <2>1, OneBarred
<1> QED BY <1>1, <1>2, QueueBars, EventBars, ActionBars, CallbackBars,
        ConversationBars, AlertStepKeeps, AlreadySentKeeps DEF Next

\* While the hours stay open no request decides to reschedule.
LEMMA NothingReschedules ==
  ASSUME "hours" \notin Gates, TypeInv, NothingRescheduled, [Next]_vars
  PROVE  NothingRescheduled'
<1> USE DEF TypeInv, TypeOK, ActionTypeOK, NothingRescheduled
<1>1. window' = window
  <2>1. ASSUME NEW d \in Dispatchers, DispatcherStep(d) PROVE UNCHANGED window
    BY <2>1, PreflightKeeps, CancelsKeep, ClaimKeeps, DispatchKeeps
       DEF DispatcherStep, QueueKeeps, Kept, world
  <2>2. ASSUME NEW e \in Events, EventStep(e) PROVE UNCHANGED window
    BY <2>2, AdministrationKeeps, RecoveryKeeps DEF EventStep, EventKeeps, world
  <2>3. ASSUME NEW h \in Handlers, ActionStep(h) PROVE UNCHANGED window
    BY <2>3, ActionStepKeeps DEF ActionKeeps, world
  <2>4. ASSUME AlertKeeps PROVE UNCHANGED window
    BY <2>4 DEF AlertKeeps, world
  <2>5. ASSUME NEW c \in Callbacks, CallbackStep(c) PROVE UNCHANGED window
    BY <2>5, CallbackStepKeeps DEF CallbackKeeps, world
  <2>6. ASSUME ConversationStep PROVE UNCHANGED window
    BY <2>6 DEF ConversationStep, GateBegin, GateCommit, Reopen, ReturnToAI,
       CustomerReply, HoursPass, StatusFailed, world
  <2>7. CASE UNCHANGED vars
    BY <2>7 DEF vars, store
  <2> QED BY <2>1, <2>2, <2>3, <2>4, <2>5, <2>6, <2>7, AlertStepKeeps,
          AlreadySentKeeps DEF Next
<1>2. ASSUME NEW h \in Handlers, NEW pc, pc \notin Rescheduling,
             handler'[h].pc \in {pc, handler[h].pc},
             \A g \in Handlers : g # h => handler'[g] = handler[g]
      PROVE  \A g \in Handlers : handler'[g].pc \notin Rescheduling
  BY <1>2 DEF Rescheduling
<1>3. ASSUME NEW h \in Handlers, ActionStep(h)
      PROVE  \A g \in Handlers : handler'[g].pc \notin Rescheduling
  <2>1. ASSUME NEW pc, pc \notin Rescheduling,
               GoTo(h, pc) \/ Finish(h)
        PROVE  \A g \in Handlers : handler'[g].pc \notin Rescheduling
    <3>1. CASE GoTo(h, pc)
      <4>1. /\ handler'[h].pc = pc
            /\ \A g \in Handlers : g # h => handler'[g] = handler[g]
        BY <3>1 DEF GoTo, HandlerState
      <4> QED BY <1>2, <2>1, <4>1
    <3>2. CASE Finish(h)
      BY <3>2 DEF Finish, HandlerIdle, Rescheduling
    <3> QED BY <2>1, <3>1, <3>2
  <2>2. ASSUME NEW r \in Runs, Reserve(h, r)
        PROVE  \A g \in Handlers : handler'[g].pc \notin Rescheduling
    <3> DEFINE to(pc, m) == handler' = [handler EXCEPT ![h] =
                 [pc |-> pc, ev |-> run[r].ev, run |-> r, msg |-> m, att |-> 0]]
    <3>1. window
      BY DEF NothingRescheduled
    <3>2. \/ to("invalidate", 0)
          \/ to("reserved", event[run[r].ev].msg)
          \/ \E m \in Messages : to("reserved", m)
      BY <2>2, <3>1 DEF Reserve
    <3> QED BY <2>1, <3>2 DEF Rescheduling
  <2>3. ASSUME InvalidateRead(h) \/ ReprogramRead(h)
        PROVE  \A g \in Handlers : handler'[g].pc \notin Rescheduling
    <3>1. ~ReprogramRead(h)
      BY DEF ReprogramRead, ReadProcessing
    <3>2. \/ Finish(h)
          \/ handler' = [handler EXCEPT ![h] =
               [handler[h] EXCEPT !.pc = "invalidating",
                  !.msg = event[handler[h].ev].msg,
                  !.att = event[handler[h].ev].attempts]]
      BY <2>3, <3>1 DEF InvalidateRead, ReadProcessing
    <3>3. "idle" \notin Rescheduling /\ "invalidating" \notin Rescheduling
      BY DEF Rescheduling
    <3> QED BY <2>1, <3>2, <3>3 DEF HandlerState, Rescheduling
  <2>4. CASE ClaimDelivery(h)
    BY <2>1, <2>4 DEF ClaimDelivery, Rescheduling
  <2>5. CASE \/ InvalidateWrite(h) \/ ReprogramWrite(h) \/ Deliver(h)
             \/ ProviderAnswers(h) \/ Persist(h) \/ Schedule(h)
             \/ Complete(h) \/ HandlerStops(h)
    BY <2>1, <2>5 DEF InvalidateWrite, ReprogramWrite, WriteProcessing, Deliver,
       ProviderAnswers, Persist, Schedule, Complete, HandlerStops, Rescheduling
  <2> QED BY <1>3, <2>2, <2>3, <2>4, <2>5 DEF ActionStep
<1>4. \A h \in Handlers : handler'[h].pc \notin Rescheduling
  BY <1>3 DEF Next, vars, Rescheduling
<1> QED BY <1>1, <1>4 DEF Rescheduling

\* What is ordered not to be sent is marked when it is ordered, and keeps its
\* mark.
LEMMA OrderedStayBarred ==
  ASSUME OrderedAreBarred, BarsKept,
         ordered' = ordered \cup
           {e \in FollowUps : event'[e].mark /\ ~event'[e].claimed}
  PROVE  OrderedAreBarred'
<1>1. \A e \in FollowUps : event'[e].status = "ABSENT" => ~event'[e].mark
  BY DEF OrderedAreBarred, BarsKept, BarKept
<1>2. \A e \in ordered' : e \in FollowUps /\ Barred(event'[e])
  BY <1>1 DEF OrderedAreBarred, BarsKept, BarKept, Barred
<1> QED BY <1>1, <1>2 DEF OrderedAreBarred, Barred

\* While the sending hours stay open, a follow-up that was cancelled, or marked
\* before its message was committed, is never sent: whatever is reopened,
\* retried, recovered or duplicated.  (When they may close a rescheduling erases
\* the mark, and the property is false.)
THEOREM CancelledStaysUnsent ==
  ASSUME "hours" \notin Gates
  PROVE  AuditSpec => []CancelledNeverSent
<1>1. AuditInit => Init /\ AuditInv
  BY EventSets DEF AuditInit, Init, StoreInit, ActionInit, HandlerIdle, AuditInv,
     NothingRescheduled, OrderedAreBarred, PendingRow, AbsentRow
<1>2. [AuditNext]_<<vars, ordered>> => [Next]_vars
  BY DEF AuditNext
<1>3. TypeInv /\ AuditInv /\ [AuditNext]_<<vars, ordered>> => AuditInv'
  <2> SUFFICES ASSUME TypeInv, AuditInv, [AuditNext]_<<vars, ordered>>
               PROVE  AuditInv'
    OBVIOUS
  <2>1. NothingRescheduled'
    BY <1>2, NothingReschedules DEF AuditInv
  <2>2. BarsKept
    BY <1>2, StepBars
  <2>3. CASE AuditNext
    BY <2>1, <2>2, <2>3, OrderedStayBarred DEF AuditInv, AuditNext
  <2>4. CASE UNCHANGED <<vars, ordered>>
    BY <2>4 DEF AuditInv, NothingRescheduled, OrderedAreBarred, Barred, vars, store
  <2> QED BY <2>3, <2>4
<1>4. TypeInv /\ SendInv /\ AuditInv => CancelledNeverSent
  BY DEF SendInv, ClaimedFirst, AuditInv, OrderedAreBarred, Barred,
     CancelledNeverSent
<1> QED BY <1>1, <1>2, <1>3, <1>4, Inductive, PTL DEF AuditSpec, Spec

------------------------------------------------------------------------------
(***************************************************************************)
(* The queue and the handoffs.                                             *)
(***************************************************************************)

Settled == {"SUCCEEDED", "FAILED", "DEAD_LETTER"}
Ended == {"SUCCEEDED", "FAILED"}

\* An event that is processed after a step that claims nothing was processed
\* before it, by the same attempt.
LeaseKept(old, new) == new.status = "PROCESSING" =>
  /\ old.status = "PROCESSING" /\ new.attempts = old.attempts
  /\ new.lock \in {old.lock, Renewed}
\* A final outcome stays, and the others are reopened only with no attempts.
FinalKept(old, new) ==
  /\ old.status \in Finished => new.status = old.status
  /\ old.status \in {"FAILED", "DEAD_LETTER"} =>
       \/ new.status = old.status
       \/ new.status = "PENDING" /\ new.attempts = 0
\* The step does not decide the outcome of an attempt.
Unsettled(old, new) == old.status = "PROCESSING" => new.status \notin Settled
RowLives(old, new) == LeaseKept(old, new) /\ FinalKept(old, new)
RowQuiet(old, new) == RowLives(old, new) /\ Unsettled(old, new)
RowsQuiet == \A e \in Events : RowQuiet(event[e], event'[e])

\* What the step does to the runs: one that ends is not the current run of an
\* event that goes on being processed.
RunsLast == \A r \in Runs : run[r].status # "NONE" =>
  /\ run'[r].ev = run[r].ev /\ run'[r].attempt = run[r].attempt
  /\ \/ run'[r].status = run[r].status
     \/ /\ run[r].status = "STARTED" /\ run'[r].status \in Ended
        /\ ~(event'[run[r].ev].status = "PROCESSING" /\ CurrentRun(r))

\* The requests that go on are those that were being served.
DispatchersSame == \A d \in Dispatchers :
  dispatcher'[d].pc \in {"dispatching", "dispatched"} =>
    /\ dispatcher[d].pc \in {"dispatching", "dispatched"}
    /\ dispatcher'[d].ev = dispatcher[d].ev
    /\ dispatcher'[d].run = dispatcher[d].run
HandlersSame == \A h \in Handlers : handler'[h].pc # "idle" =>
  /\ handler[h].pc # "idle"
  /\ handler'[h].ev = handler[h].ev /\ handler'[h].run = handler[h].run

\* Event and run end together.
SettledTogether(e) ==
  (event[e].status = "PROCESSING" /\ event'[e].status \in Settled) =>
    \E r \in Runs :
      /\ run[r].ev = e /\ CurrentRun(r)
      /\ run'[r].status = IF event'[e].status = "SUCCEEDED"
                          THEN "SUCCEEDED" ELSE "FAILED"

\* What every step does to the events: the two action properties of the queue.
QueueStep == \A e \in Events :
  FinalKept(event[e], event'[e]) /\ SettledTogether(e)

------------------------------------------------------------------------------
(* What the steps do to a row. *)

\* Nothing, cancelling, marking, retrying and rescheduling decide no outcome.
LEMMA RowsAreQuiet ==
  ASSUME NEW row \in EventRow
  PROVE  /\ RowQuiet(row, row)
         /\ row.status \in Live => RowQuiet(row, CancelRow(row))
         /\ RowQuiet(row, [row EXCEPT !.mark = TRUE])
         /\ row.status \in {"FAILED", "DEAD_LETTER"} => RowQuiet(row, RetryRow(row))
         /\ row.status = "PROCESSING" => RowQuiet(row, ReprogrammedRow(row))
<1> USE DEF RowQuiet, RowLives, LeaseKept, FinalKept, Unsettled, EventRow,
            Finished, Settled
<1>1. RowQuiet(row, row)
  OBVIOUS
<1>2. row.status \in Live => RowQuiet(row, CancelRow(row))
  BY DEF CancelRow, Live
<1>3. RowQuiet(row, [row EXCEPT !.mark = TRUE])
  OBVIOUS
<1>4. row.status \in {"FAILED", "DEAD_LETTER"} => RowQuiet(row, RetryRow(row))
  BY DEF RetryRow
<1>5. row.status = "PROCESSING" => RowQuiet(row, ReprogrammedRow(row))
  BY DEF ReprogrammedRow
<1> QED BY <1>1, <1>2, <1>3, <1>4, <1>5

\* A step that changes one row quietly, or none.
LEMMA OneQuiet ==
  ASSUME TypeInv, NEW e \in Events, NEW row,
         event' = event \/ (/\ event' = [event EXCEPT ![e] = row]
                            /\ RowQuiet(event[e], row))
  PROVE  RowsQuiet
<1>1. \A f \in Events : event[f] \in EventRow /\ RowQuiet(event[f], event[f])
  BY RowsAreQuiet DEF TypeInv, TypeOK, StoreTypeOK
<1> QED BY <1>1 DEF RowsQuiet, TypeInv, TypeOK, StoreTypeOK

\* The cancellation of the follow-ups of a conversation.
LEMMA CancellationQuiet ==
  ASSUME TypeInv, NEW e \in Events
  PROVE  /\ RowQuiet(event[e], CancelPending(event)[e])
         /\ RowQuiet(event[e], MarkProcessing(event)[e])
         /\ RowQuiet(event[e], CancelFollowUps(event)[e])
<1>0. event[e] \in EventRow
  BY DEF TypeInv, TypeOK, StoreTypeOK
<1>1. CancelPending(event)[e] \in {event[e]} \cup
        {CancelRow(row) : row \in {s \in {event[e]} : s.status = "PENDING"}}
  BY DEF CancelPending
<1>2. RowQuiet(event[e], CancelPending(event)[e])
  BY <1>0, <1>1, RowsAreQuiet DEF Live
<1>3. RowQuiet(event[e], MarkProcessing(event)[e])
  BY <1>0, RowsAreQuiet DEF MarkProcessing
<1>4. RowQuiet(event[e], CancelFollowUps(event)[e])
  <2>1. \/ CancelFollowUps(event)[e] = CancelPending(event)[e]
        \/ /\ CancelPending(event)[e].status = "PROCESSING"
           /\ CancelFollowUps(event)[e] =
                [CancelPending(event)[e] EXCEPT !.mark = TRUE]
    BY DEF CancelFollowUps, MarkProcessing
  <2>2. CancelPending(event)[e].status = "PROCESSING" =>
          CancelPending(event)[e] = event[e]
    BY <1>0 DEF CancelPending, CancelRow, EventRow
  <2> QED BY <1>0, <1>2, <2>1, <2>2, RowsAreQuiet
<1> QED BY <1>2, <1>3, <1>4

------------------------------------------------------------------------------
(* What the steps of each process do to the events and the runs. *)

\* Steps that touch no run.
LEMMA SameLast ==
  ASSUME run' = run
  PROVE  RunsLast
BY DEF RunsLast

\* A step of the queue that neither claims nor records.
LEMMA QueueQuiet ==
  ASSUME TypeInv, NEW d \in Dispatchers,
         \/ \E e \in Events : Preflight(d, e)
         \/ PreflightCancel(d) \/ ClaimNothing(d)
         \/ Dispatch(d) \/ DispatcherStops(d)
  PROVE  RowsQuiet /\ run' = run /\ DispatchersSame
<1> USE DEF TypeInv, TypeOK
<1>1. ASSUME NEW e \in Events, Preflight(d, e)
      PROVE  RowsQuiet /\ run' = run /\ DispatchersSame
  <2>1. RowQuiet(event[e], [event[e] EXCEPT !.due = FALSE])
    BY <1>1 DEF Preflight, StoreTypeOK, EventRow, RowQuiet, RowLives, LeaseKept,
       FinalKept, Unsettled
  <2>2. \/ event' = event
        \/ event' = [event EXCEPT ![e] = [event[e] EXCEPT !.due = FALSE]]
    BY <1>1 DEF Preflight
  <2>3. DispatchersSame
    BY <1>1 DEF Preflight, DispatchersSame, QueueTypeOK, DispatcherState
  <2> QED BY <1>1, <2>1, <2>2, <2>3, OneQuiet DEF Preflight
<1>2. ASSUME PreflightCancel(d) \/ ClaimNothing(d)
      PROVE  RowsQuiet /\ run' = run /\ DispatchersSame
  <2> DEFINE e == dispatcher[d].ev
  <2>1. e \in Events /\ event[e] \in EventRow
    BY <1>2 DEF PreflightCancel, ClaimNothing, DispatchersKnow, StoreTypeOK
  <2>2. \/ event' = event
        \/ /\ event[e].status = "PENDING"
           /\ event' = [event EXCEPT ![e] = CancelRow(event[e])]
    BY <1>2 DEF PreflightCancel, ClaimNothing
  <2>3. DispatchersSame
    BY <1>2 DEF PreflightCancel, ClaimNothing, DispatcherIdle, DispatchersSame,
       QueueTypeOK, DispatcherState
  <2>4. RowsQuiet
    BY <2>1, <2>2, RowsAreQuiet, OneQuiet DEF Live
  <2> QED BY <1>2, <2>3, <2>4 DEF PreflightCancel, ClaimNothing
<1>3. ASSUME Dispatch(d) \/ DispatcherStops(d)
      PROVE  RowsQuiet /\ run' = run /\ DispatchersSame
  <2>1. UNCHANGED <<event, run>>
    BY <1>3 DEF Dispatch, DispatcherStops, rows, store
  <2>2. RowsQuiet
    BY <2>1, RowsAreQuiet DEF RowsQuiet, StoreTypeOK
  <2>3. DispatchersSame
    BY <1>3 DEF Dispatch, DispatcherStops, DispatcherIdle, DispatchersSame,
       QueueTypeOK, DispatcherState
  <2> QED BY <2>1, <2>2, <2>3
<1> QED BY <1>1, <1>2, <1>3

\* Ending one run together with its event.
LEMMA ClosingLast ==
  ASSUME TypeInv, NEW r \in Runs, NEW outcome \in Ended,
         event'[run[r].ev].status # "PROCESSING",
         run' = CloseRun(r, outcome)
  PROVE  RunsLast /\ (run[r].status = "STARTED" => run'[r].status = outcome)
<1>1. run \in [Runs -> RunRow]
  BY DEF TypeInv, TypeOK, StoreTypeOK
<1>2. \A q \in Runs : q # r => run'[q] = run[q]
  BY <1>1 DEF CloseRun
<1>3. /\ run'[r].ev = run[r].ev /\ run'[r].attempt = run[r].attempt
      /\ run'[r].status = IF run[r].status = "STARTED" THEN outcome
                          ELSE run[r].status
  BY <1>1 DEF CloseRun, RunRow
<1> QED BY <1>2, <1>3 DEF RunsLast

\* A failed dispatch is recorded while the event carries the dispatcher's lock,
\* hence while its run is the current one: both end, or the event waits again.
LEMMA RecordLives ==
  ASSUME TypeInv, RunInv, NEW d \in Dispatchers, Record(d)
  PROVE  /\ \A e \in Events : RowLives(event[e], event'[e]) /\ SettledTogether(e)
         /\ RunsLast /\ DispatchersSame
<1> USE DEF TypeInv, TypeOK
<1> DEFINE e == dispatcher[d].ev
           r == dispatcher[d].run
<1>0. /\ e \in Events /\ event[e] \in EventRow /\ r \in Runs
      /\ event \in [Events -> EventRow] /\ run[r].ev = e
  BY DEF Record, DispatchersKnow, StoreTypeOK, RunInv, RequestsOwn
<1>1. DispatchersSame
  BY DEF Record, DispatcherIdle, DispatchersSame, QueueTypeOK, DispatcherState
<1>2. CASE UNCHANGED <<event, run>>
  <2>1. \A f \in Events : RowQuiet(event[f], event'[f])
    BY <1>0, <1>2, RowsAreQuiet
  <2> QED BY <1>1, <1>2, <2>1, SameLast
          DEF RowQuiet, Unsettled, SettledTogether
<1>3. ASSUME NEW b \in BOOLEAN, Owns(d),
             event' = [event EXCEPT ![e] = FailedDispatchRow(event[e], b)],
             run' = CloseRun(r, "FAILED")
      PROVE  /\ \A f \in Events : RowLives(event[f], event'[f])
                                  /\ SettledTogether(f)
             /\ RunsLast
  <2>1. CurrentRun(r)
    BY <1>0, <1>3 DEF Owns, RunInv, LockNamesRun
  <2>2. event'[e].status \in {"FAILED", "DEAD_LETTER", "PENDING"}
    BY <1>0, <1>3 DEF FailedDispatchRow, EventRow
  <2>3. RunsLast /\ run'[r].status = "FAILED"
    BY <1>0, <1>3, <2>1, <2>2, ClosingLast DEF Ended, CurrentRun
  <2>4. RowLives(event[e], event'[e]) /\ SettledTogether(e)
    BY <1>0, <1>3, <2>1, <2>2, <2>3
       DEF Owns, RowLives, LeaseKept, FinalKept, SettledTogether, Finished
  <2>5. ASSUME NEW f \in Events, f # e
        PROVE  RowLives(event[f], event'[f]) /\ SettledTogether(f)
    <3>1. event'[f] = event[f] /\ RowQuiet(event[f], event[f])
      BY <1>0, <1>3, <2>5, RowsAreQuiet
    <3> QED BY <3>1 DEF RowQuiet, Unsettled, SettledTogether
  <2> QED BY <2>3, <2>4, <2>5
<1> QED BY <1>1, <1>2, <1>3 DEF Record

\* The claim: the event waits before, and its run is new.
LEMMA ClaimLives ==
  ASSUME TypeInv, NEW d \in Dispatchers, NEW r \in Runs, ClaimEvent(d, r)
  PROVE  LET e == dispatcher[d].ev IN
         /\ e \in Events /\ event[e].status = "PENDING"
         /\ run[r].status = "NONE"
         /\ \A f \in Events : f # e => event'[f] = event[f]
         /\ \A q \in Runs : q # r => run'[q] = run[q]
         /\ event'[e].status = "PROCESSING" /\ event'[e].lock = r
         /\ event'[e].claimed = event[e].claimed /\ event'[e].mark = event[e].mark
         /\ run'[r].ev = e /\ run'[r].status = "STARTED"
         /\ run'[r].attempt = event'[e].attempts
         /\ dispatcher'[d].ev = e /\ dispatcher'[d].run = r
         /\ \A c \in Dispatchers : c # d => dispatcher'[c] = dispatcher[c]
BY DEF ClaimEvent, ClaimFor, ClaimedRow, FreshRun, TypeInv, TypeOK, StoreTypeOK,
   QueueTypeOK, DispatchersKnow, EventRow

\* The administrator and the clock decide no outcome.
LEMMA AdministrationQuiet ==
  ASSUME TypeInv, NEW e \in Events,
         RetryEvent(e) \/ CancelEvent(e) \/ BecomeDue(e) \/ BecomeStale(e)
  PROVE  RowsQuiet /\ run' = run
<1> USE DEF TypeInv, TypeOK
<1>0. event[e] \in EventRow
  BY DEF StoreTypeOK
<1>1. CASE RetryEvent(e)
  BY <1>0, <1>1, RowsAreQuiet, OneQuiet DEF RetryEvent
<1>2. CASE CancelEvent(e)
  BY <1>0, <1>2, RowsAreQuiet, OneQuiet DEF CancelEvent, Live
<1>3. CASE BecomeDue(e)
  <2>1. RowQuiet(event[e], [event[e] EXCEPT !.due = TRUE])
    BY <1>0 DEF EventRow, RowQuiet, RowLives, LeaseKept, FinalKept, Unsettled, Settled
  <2>2. event' = [event EXCEPT ![e] = [event[e] EXCEPT !.due = TRUE]]
    BY <1>3 DEF BecomeDue
  <2>3. RowsQuiet
    BY <2>1, <2>2, OneQuiet
  <2> QED BY <1>3, <2>3 DEF BecomeDue
<1>4. CASE BecomeStale(e)
  <2>1. RowQuiet(event[e], [event[e] EXCEPT !.stale = TRUE])
    BY <1>0 DEF EventRow, RowQuiet, RowLives, LeaseKept, FinalKept, Unsettled, Settled
  <2>2. event' = [event EXCEPT ![e] = [event[e] EXCEPT !.stale = TRUE]]
    BY <1>4 DEF BecomeStale
  <2>3. RowsQuiet
    BY <2>1, <2>2, OneQuiet
  <2> QED BY <1>4, <2>3 DEF BecomeStale
<1> QED BY <1>1, <1>2, <1>3, <1>4

\* The recovery ends the runs of the attempt it takes the event from, among
\* them the current one.
LEMMA RecoveryLives ==
  ASSUME TypeInv, RunInv, NEW e \in Events, ReclaimStale(e)
  PROVE  /\ \A f \in Events : RowLives(event[f], event'[f]) /\ SettledTogether(f)
         /\ RunsLast
         /\ \E r \in Runs : run'[r].ev = e /\ run'[r].status \in Ended
<1> USE DEF TypeInv, TypeOK
<1> DEFINE row == RecoveredRow(e)
           outcome == IF StaleStatus(e) \in {"CANCELLED", "SUCCEEDED"}
                      THEN "SUCCEEDED" ELSE "FAILED"
<1>0. /\ event[e] \in EventRow /\ event[e].status = "PROCESSING"
      /\ event \in [Events -> EventRow] /\ run \in [Runs -> RunRow]
  BY DEF StoreTypeOK, ReclaimStale, Recoverable
<1>1. /\ StaleStatus(e) \in {"CANCELLED", "SUCCEEDED", "FAILED", "DEAD_LETTER",
                             "PENDING"}
  BY DEF StaleStatus
<1>2. event'[e].status = StaleStatus(e) /\ \A f \in Events : f # e => event'[f] = event[f]
  BY <1>0 DEF ReclaimStale, RecoveredRow, EventRow
<1>3. run' = CloseRuns(e, event[e].attempts, outcome) /\ outcome \in Ended
  BY DEF ReclaimStale, Ended
<1> HIDE DEF outcome
<1>4. \A r \in Runs :
        /\ run'[r].ev = run[r].ev /\ run'[r].attempt = run[r].attempt
        /\ run'[r].status = IF run[r].ev = e /\ CurrentRun(r)
                            THEN outcome ELSE run[r].status
  BY <1>0, <1>3 DEF CloseRuns, CurrentRun, RunRow
<1>5. RunsLast
  BY <1>1, <1>2, <1>3, <1>4 DEF RunsLast, CurrentRun
<1>6. PICK r \in Runs : run[r].ev = e /\ CurrentRun(r)
  BY <1>0 DEF RunInv, ProcessingHasRun
<1>7. RowLives(event[e], event'[e]) /\ SettledTogether(e)
  <2>1. SettledTogether(e)
    BY <1>2, <1>4, <1>6 DEF SettledTogether, outcome, Settled
  <2> QED BY <1>0, <1>1, <1>2, <2>1 DEF RowLives, LeaseKept, FinalKept, Finished
<1>8. ASSUME NEW f \in Events, f # e
      PROVE  RowLives(event[f], event'[f]) /\ SettledTogether(f)
  <2>1. event'[f] = event[f] /\ RowQuiet(event[f], event[f])
    BY <1>0, <1>2, <1>8, RowsAreQuiet
  <2> QED BY <2>1 DEF RowQuiet, Unsettled, SettledTogether
<1> QED BY <1>3, <1>4, <1>5, <1>6, <1>7, <1>8

\* The statements of a follow-up request that decide nothing.
LEMMA ActionQuiet ==
  ASSUME TypeInv, NEW h \in Handlers,
         \/ \E r \in Runs : Reserve(h, r)
         \/ InvalidateRead(h) \/ ReprogramRead(h)
         \/ ClaimDelivery(h) \/ Deliver(h) \/ ProviderAnswers(h) \/ Persist(h)
         \/ Schedule(h) \/ Complete(h) \/ HandlerStops(h)
  PROVE  RowsQuiet /\ run' = run
<1> USE DEF TypeInv, TypeOK
<1> DEFINE e == handler[h].ev
<1>0. /\ event \in [Events -> EventRow] /\ FollowUps \subseteq Events
      /\ handler[h].pc # "idle" => e \in Events /\ event[e] \in EventRow
  BY EventSets DEF StoreTypeOK, HandlersKnow
<1>1. CASE UNCHANGED event
  BY <1>0, <1>1, RowsAreQuiet DEF RowsQuiet, Reserve, InvalidateRead,
     ReprogramRead, ReadProcessing, ClaimDelivery, Deliver, ProviderAnswers,
     Persist, Schedule, Complete, HandlerStops, store, rows
<1>2. ASSUME NEW r \in Runs, Reserve(h, r), NEW m \in Messages,
             event' = [event EXCEPT ![run[r].ev].msg = m]
      PROVE  RowsQuiet /\ run' = run
  <2>1. run[r].ev \in Events /\ event[run[r].ev] \in EventRow
    BY <1>0, <1>2 DEF Reserve
  <2>2. RowQuiet(event[run[r].ev], [event[run[r].ev] EXCEPT !.msg = m])
    BY <2>1 DEF EventRow, RowQuiet, RowLives, LeaseKept, FinalKept, Unsettled,
       Settled
  <2>3. event' = [event EXCEPT ![run[r].ev] = [event[run[r].ev] EXCEPT !.msg = m]]
    BY <1>2
  <2>4. RowsQuiet
    BY <2>1, <2>2, <2>3, OneQuiet
  <2> QED BY <1>2, <2>4 DEF Reserve
<1>3. ASSUME ClaimDelivery(h), event' = [event EXCEPT ![e].claimed = TRUE]
      PROVE  RowsQuiet /\ run' = run
  <2>1. RowQuiet(event[e], [event[e] EXCEPT !.claimed = TRUE])
    BY <1>0, <1>3 DEF ClaimDelivery, EventRow, RowQuiet, RowLives, LeaseKept,
       FinalKept, Unsettled, Settled
  <2>2. event' = [event EXCEPT ![e] = [event[e] EXCEPT !.claimed = TRUE]]
    BY <1>3
  <2>3. RowsQuiet
    BY <1>0, <1>3, <2>1, <2>2, OneQuiet DEF ClaimDelivery
  <2> QED BY <1>3, <2>3 DEF ClaimDelivery
<1>4. ASSUME Complete(h), event' = [event EXCEPT ![e].completed = TRUE]
      PROVE  RowsQuiet /\ run' = run
  <2>1. RowQuiet(event[e], [event[e] EXCEPT !.completed = TRUE])
    BY <1>0, <1>4 DEF Complete, EventRow, RowQuiet, RowLives, LeaseKept,
       FinalKept, Unsettled, Settled
  <2>2. event' = [event EXCEPT ![e] = [event[e] EXCEPT !.completed = TRUE]]
    BY <1>4
  <2>3. RowsQuiet
    BY <1>0, <1>4, <2>1, <2>2, OneQuiet DEF Complete
  <2> QED BY <1>4, <2>3 DEF Complete
<1>5. ASSUME Schedule(h), e + 1 \in FollowUps, event[e + 1].status = "ABSENT",
             event' = [CancelFollowUps(event) EXCEPT ![e + 1] = PendingRow]
      PROVE  RowsQuiet /\ run' = run
  <2>1. CancelFollowUps(event) \in [Events -> EventRow]
    BY <1>0, CancellationKeeps DEF RowsKeep
  <2>2. \A f \in Events : event'[f] = IF f = e + 1 THEN PendingRow
                                      ELSE CancelFollowUps(event)[f]
    BY <1>0, <1>5, <2>1
  <2>3. RowQuiet(event[e + 1], PendingRow)
    BY <1>5 DEF PendingRow, AbsentRow, RowQuiet, RowLives, LeaseKept, FinalKept,
       Unsettled, Finished
  <2> QED BY <1>5, <2>2, <2>3, CancellationQuiet DEF RowsQuiet, Schedule
<1> QED BY <1>1, <1>2, <1>3, <1>4, <1>5 DEF Reserve, InvalidateRead,
        ReprogramRead, ReadProcessing, ClaimDelivery, Deliver, ProviderAnswers,
        Persist, Schedule, Complete, HandlerStops, store, rows

\* They go on with the request they serve.
LEMMA ActionSame ==
  ASSUME TypeInv, NEW h \in Handlers, ActionStep(h), ~(\E r \in Runs : Reserve(h, r))
  PROVE  HandlersSame
<1> USE DEF TypeInv, TypeOK, ActionTypeOK
<1>1. CASE Finish(h)
  BY <1>1 DEF Finish, HandlerIdle, HandlersSame, HandlerState
<1>2. ASSUME NEW pc, handler[h].pc # "idle", GoTo(h, pc)
      PROVE  HandlersSame
  BY <1>2 DEF GoTo, HandlersSame, HandlerState
<1>3. ASSUME NEW to \in {"invalidating", "reprogramming"}, handler[h].pc # "idle",
             handler' = [handler EXCEPT ![h] =
               [@ EXCEPT !.pc = to, !.msg = event[handler[h].ev].msg,
                         !.att = event[handler[h].ev].attempts]]
      PROVE  HandlersSame
  BY <1>3 DEF HandlersSame, HandlerState
<1>4. CASE InvalidateRead(h) \/ ReprogramRead(h)
  <2>1. handler[h].pc # "idle"
    BY <1>4 DEF InvalidateRead, ReprogramRead, ReadProcessing
  <2> QED BY <1>1, <1>3, <1>4, <2>1
          DEF InvalidateRead, ReprogramRead, ReadProcessing
<1>5. CASE ClaimDelivery(h) \/ Deliver(h) \/ ProviderAnswers(h) \/ Persist(h)
  BY <1>1, <1>2, <1>5 DEF ClaimDelivery, Deliver, ProviderAnswers, Persist
<1>6. CASE \/ InvalidateWrite(h) \/ ReprogramWrite(h) \/ Schedule(h)
           \/ Complete(h) \/ HandlerStops(h)
  BY <1>1, <1>2, <1>6 DEF InvalidateWrite, ReprogramWrite, WriteProcessing,
     Schedule, Complete, HandlerStops
<1> QED BY <1>4, <1>5, <1>6 DEF ActionStep

\* The writes of the two-statement transactions cancel the event or make it
\* wait, and end the run they were called for.
LEMMA WriteLives ==
  ASSUME TypeInv, RunInv, NEW h \in Handlers,
         InvalidateWrite(h) \/ ReprogramWrite(h)
  PROVE  RowsQuiet /\ RunsLast
<1> USE DEF TypeInv, TypeOK
<1> DEFINE e == handler[h].ev
           r == handler[h].run
<1>0. /\ e \in Events /\ event[e] \in EventRow /\ r \in Runs
      /\ event \in [Events -> EventRow] /\ run[r].ev = e
  BY EventSets DEF InvalidateWrite, ReprogramWrite, WriteProcessing,
     HandlersKnow, StoreTypeOK, RunInv, RequestsOwn
<1>1. CASE UNCHANGED <<event, run>>
  BY <1>1, <1>0, OneQuiet, SameLast
<1>2. ASSUME NEW row \in {CancelRow(event[e]), ReprogrammedRow(event[e])},
             event[e].status = "PROCESSING",
             event' = [event EXCEPT ![e] = row],
             run' = CloseRun(r, "SUCCEEDED")
      PROVE  RowsQuiet /\ RunsLast
  <2>1. RowQuiet(event[e], row)
    BY <1>0, <1>2, RowsAreQuiet DEF Live
  <2>2. RowsQuiet
    BY <1>0, <1>2, <2>1, OneQuiet
  <2>3. event'[e].status \in {"CANCELLED", "PENDING"}
    BY <1>0, <1>2 DEF CancelRow, ReprogrammedRow, EventRow
  <2>4. RunsLast
    BY <1>0, <1>2, <2>3, ClosingLast DEF Ended
  <2> QED BY <2>2, <2>4
<1> QED BY <1>1, <1>2 DEF InvalidateWrite, ReprogramWrite, WriteProcessing

\* The reservation starts a request on the run it was called for.
LEMMA ReserveOwns ==
  ASSUME TypeInv, NEW h \in Handlers, NEW r \in Runs, Reserve(h, r)
  PROVE  /\ \A g \in Handlers : g # h => handler'[g] = handler[g]
         /\ handler'[h].ev = run[r].ev /\ handler'[h].run = r
         /\ run[r].status = "STARTED"
<1>1. \E pc, m : handler' = [handler EXCEPT ![h] =
        [pc |-> pc, ev |-> run[r].ev, run |-> r, msg |-> m, att |-> 0]]
  BY DEF Reserve
<1> QED BY <1>1 DEF Reserve, CurrentRun, TypeInv, TypeOK, ActionTypeOK

\* The alert action decides no outcome and touches no run.
LEMMA AlertQuiet ==
  ASSUME TypeInv,
         \/ \E a \in Alerters : AlerterStep(a)
         \/ \E e \in Handoffs : AlreadySent(e)
  PROVE  RowsQuiet /\ run' = run
<1> USE DEF TypeInv, TypeOK
<1>0. /\ event \in [Events -> EventRow] /\ Handoffs \subseteq Events
      /\ \A a \in Alerters : alerter[a].pc # "idle" => alerter[a].ev \in Events
  BY EventSets DEF StoreTypeOK, AlertersKnow
<1>1. run' = run
  BY DEF AlerterStep, AlreadySent, ClaimAlert, CredentialsFail, SendAlert,
     PersistAlerts, AlerterStops, rows, store
<1>2. ASSUME NEW e \in Events, NEW b, event' = [event EXCEPT ![e].completed = b]
      PROVE  RowsQuiet
  <2>1. RowQuiet(event[e], [event[e] EXCEPT !.completed = b])
    BY <1>0 DEF EventRow, RowQuiet, RowLives, LeaseKept, FinalKept, Unsettled,
       Settled
  <2>2. event' = [event EXCEPT ![e] = [event[e] EXCEPT !.completed = b]]
    BY <1>2
  <2> QED BY <2>1, <2>2, OneQuiet
<1>3. ASSUME NEW a \in Alerters, NEW e \in Handoffs, ClaimAlert(a, e)
      PROVE  RowsQuiet
  <2> DEFINE row == [event[e] EXCEPT !.claimed = TRUE, !.lock = Renewed,
                                     !.stale = FALSE]
  <2>1. RowQuiet(event[e], row)
    BY <1>0 DEF EventRow, RowQuiet, RowLives, LeaseKept, FinalKept, Unsettled,
       Settled
  <2>2. event' = [event EXCEPT ![e] = row]
    BY <1>3 DEF ClaimAlert
  <2> QED BY <1>0, <2>1, <2>2, OneQuiet
<1>4. CASE UNCHANGED event
  BY <1>0, <1>1, <1>4, RowsAreQuiet DEF RowsQuiet
<1>5. ASSUME NEW a \in Alerters, CredentialsFail(a) \/ PersistAlerts(a)
      PROVE  RowsQuiet
  <2>1. PICK b : event' = [event EXCEPT ![alerter[a].ev].completed = b]
    BY <1>5 DEF CredentialsFail, PersistAlerts, Persisting
  <2> QED BY <1>0, <1>2, <1>5, <2>1 DEF CredentialsFail, PersistAlerts
<1>6. ASSUME NEW e \in Handoffs, AlreadySent(e)
      PROVE  RowsQuiet
  BY <1>0, <1>2, <1>6 DEF AlreadySent
<1> QED BY <1>1, <1>3, <1>4, <1>5, <1>6
        DEF AlerterStep, SendAlert, AlerterStops, rows, store

\* A callback ends the run it read together with the event, or a run whose
\* attempt is over.
LEMMA CallbackLives ==
  ASSUME TypeInv, NEW c \in Callbacks, CallbackStep(c)
  PROVE  /\ \A e \in Events : RowLives(event[e], event'[e]) /\ SettledTogether(e)
         /\ RunsLast
<1> USE DEF TypeInv, TypeOK
<1>0. /\ event \in [Events -> EventRow] /\ run \in [Runs -> RunRow]
      /\ \A r \in Runs : run[r].status # "NONE" => run[r].ev \in Events
  BY DEF StoreTypeOK, RunsKnown
<1>1. ASSUME UNCHANGED event
      PROVE  \A e \in Events : RowLives(event[e], event'[e]) /\ SettledTogether(e)
  <2>1. \A e \in Events : RowQuiet(event[e], event'[e])
    BY <1>0, <1>1, RowsAreQuiet
  <2> QED BY <2>1 DEF RowQuiet, Unsettled, SettledTogether
<1>2. CASE UNCHANGED <<event, run>>
  BY <1>1, <1>2, SameLast
<1>3. ASSUME NEW r \in Runs, run[r].status = "STARTED", UNCHANGED event,
             ~(event[run[r].ev].status = "PROCESSING" /\ CurrentRun(r)),
             run' = CloseRun(r, "FAILED")
      PROVE  RunsLast
  BY <1>0, <1>3 DEF CloseRun, RunRow, RunsLast, Ended
<1>4. ASSUME ApplyCallback(c), Matches(c)
      PROVE  /\ \A e \in Events : RowLives(event[e], event'[e]) /\ SettledTogether(e)
             /\ RunsLast
  <2> DEFINE r == callback[c].run
             e == run[r].ev
             outcome == IF callback[c].ok THEN "SUCCEEDED" ELSE "FAILED"
  <2>1. /\ r \in Runs /\ e \in Events /\ event[e] \in EventRow
        /\ event[e].status = "PROCESSING" /\ CurrentRun(r)
    BY <1>0, <1>4 DEF ApplyCallback, CallbacksKnow, Matches, EventMatches,
       CurrentRun
  <2>2. /\ event' = [event EXCEPT ![e] = [event[e] EXCEPT !.status = outcome,
                                           !.lock = 0, !.stale = FALSE]]
        /\ run' = CloseRun(r, outcome)
    BY <1>4 DEF ApplyCallback
  <2>3. outcome \in Ended
    BY DEF Ended
  <2>4. /\ event'[e].status = outcome
        /\ \A f \in Events : f # e => event'[f] = event[f]
    BY <1>0, <2>1, <2>2 DEF EventRow
  <2> HIDE DEF outcome
  <2>5. RunsLast /\ run'[r].status = outcome
    BY <2>1, <2>2, <2>3, <2>4, ClosingLast DEF Ended, CurrentRun
  <2>6. RowLives(event[e], event'[e]) /\ SettledTogether(e)
    BY <2>1, <2>3, <2>4, <2>5 DEF RowLives, LeaseKept, FinalKept, Finished,
       SettledTogether, Ended
  <2>7. ASSUME NEW f \in Events, f # e
        PROVE  RowLives(event[f], event'[f]) /\ SettledTogether(f)
    <3>1. event'[f] = event[f] /\ RowQuiet(event[f], event[f])
      BY <1>0, <2>4, <2>7, RowsAreQuiet
    <3> QED BY <3>1 DEF RowQuiet, Unsettled, SettledTogether
  <2> QED BY <2>5, <2>6, <2>7
<1>5. ASSUME NEW r \in Runs, NEW ok \in BOOLEAN, ReadCallback(c, r, ok)
      PROVE  /\ \A e \in Events : RowLives(event[e], event'[e]) /\ SettledTogether(e)
             /\ RunsLast
  BY <1>1, <1>2, <1>3, <1>5 DEF ReadCallback
<1> QED BY <1>2, <1>4, <1>5 DEF CallbackStep, ApplyCallback, CallbackStops, store

\* The conversation cancels and marks follow-ups and writes new handoffs.
LEMMA ConversationQuiet ==
  ASSUME TypeInv, ConversationStep
  PROVE  RowsQuiet /\ run' = run
<1> USE DEF TypeInv, TypeOK
<1>0. event \in [Events -> EventRow] /\ Handoffs \subseteq Events
  BY EventSets DEF StoreTypeOK
<1>1. run' = run
  BY DEF ConversationStep, GateBegin, GateCommit, Reopen, ReturnToAI,
     CustomerReply, StatusFailed, HoursPass, Unmoved
<1>2. CASE event' \in {CancelPending(event), MarkProcessing(event),
                       CancelFollowUps(event)}
  BY <1>1, <1>2, CancellationQuiet DEF RowsQuiet
<1>3. CASE UNCHANGED event
  BY <1>0, <1>1, <1>3, RowsAreQuiet DEF RowsQuiet
<1>4. ASSUME NEW e \in Handoffs, event[e].status = "ABSENT",
             NEW row \in {[PendingRow EXCEPT !.due = TRUE], CancelRow(PendingRow)},
             event' = [MarkProcessing(event) EXCEPT ![e] = row]
      PROVE  RowsQuiet
  <2>1. MarkProcessing(event) \in [Events -> EventRow]
    BY <1>0, CancellationKeeps DEF RowsKeep
  <2>2. \A f \in Events : event'[f] = IF f = e THEN row
                                      ELSE MarkProcessing(event)[f]
    BY <1>0, <1>4, <2>1
  <2>3. row.status \in {"PENDING", "CANCELLED"}
    BY <1>4 DEF PendingRow, AbsentRow, CancelRow
  <2>4. RowQuiet(event[e], row)
    BY <1>4, <2>3 DEF RowQuiet, RowLives, LeaseKept, FinalKept, Unsettled,
       Finished
  <2> QED BY <2>2, <2>4, CancellationQuiet DEF RowsQuiet
<1> QED BY <1>1, <1>2, <1>3, <1>4 DEF ConversationStep, GateBegin, GateCommit,
        NextHandoff, Reopen, ReturnToAI, CustomerReply, StatusFailed, HoursPass

------------------------------------------------------------------------------
(* Every event being processed has its run. *)

\* A step that claims nothing and starts no request keeps RunInv.
LEMMA QuietRuns ==
  ASSUME TypeInv, TypeInv', RunInv, RunsLast, DispatchersSame, HandlersSame,
         \A e \in Events : LeaseKept(event[e], event'[e])
  PROVE  RunInv'
<1> USE DEF RunInv
<1>0. /\ Renewed \notin Runs
      /\ \A d \in Dispatchers : dispatcher[d].pc \in {"dispatching", "dispatched"} =>
           dispatcher[d].run \in Runs
      /\ \A h \in Handlers : handler[h].pc # "idle" => handler[h].run \in Runs
  BY BoundsAssumption DEF Renewed, Runs, TypeInv, DispatchersKnow, HandlersKnow
<1>1. RequestsOwn'
  <2>1. \A r \in Runs : run[r].status # "NONE" =>
          run'[r].ev = run[r].ev /\ run'[r].status # "NONE"
    BY DEF RunsLast, Ended
  <2> QED BY <1>0, <2>1 DEF RequestsOwn, DispatchersSame, HandlersSame
<1>2. ASSUME NEW e \in Events, event'[e].status = "PROCESSING", NEW r \in Runs,
             run[r].ev = e, CurrentRun(r)
      PROVE  run'[r].ev = e /\ CurrentRun(r)'
  <2>1. event[e].status = "PROCESSING" /\ event'[e].attempts = event[e].attempts
    BY <1>2 DEF LeaseKept
  <2>2. run'[r] .ev = e /\ run'[r].attempt = run[r].attempt
        /\ run'[r].status = run[r].status
    BY <1>2, <2>1 DEF RunsLast, CurrentRun
  <2> QED BY <1>2, <2>1, <2>2 DEF CurrentRun
<1>3. LockNamesRun'
  <2>1. ASSUME NEW e \in Events, event'[e].status = "PROCESSING",
               event'[e].lock \in Runs
        PROVE  event[e].status = "PROCESSING" /\ event'[e].lock = event[e].lock
    BY <1>0, <2>1 DEF LeaseKept
  <2> QED BY <1>2, <2>1 DEF LockNamesRun
<1>4. ProcessingHasRun'
  <2>1. ASSUME NEW e \in Events, event'[e].status = "PROCESSING"
        PROVE  \E r \in Runs : run'[r].ev = e /\ CurrentRun(r)'
    <3>1. PICK r \in Runs : run[r].ev = e /\ CurrentRun(r)
      BY <2>1 DEF LeaseKept, ProcessingHasRun
    <3> QED BY <1>2, <2>1, <3>1
  <2> QED BY <2>1 DEF ProcessingHasRun
<1> QED BY <1>1, <1>3, <1>4

\* The claim gives the event its lock and its run in one transaction.
LEMMA ClaimRuns ==
  ASSUME TypeInv, RunInv, NEW d \in Dispatchers, NEW r \in Runs,
         ClaimEvent(d, r), UNCHANGED handler
  PROVE  RunInv' /\ QueueStep
<1> USE DEF RunInv
<1> DEFINE e == dispatcher[d].ev
<1>0. /\ e \in Events /\ event[e].status = "PENDING" /\ run[r].status = "NONE"
      /\ \A f \in Events : f # e => event'[f] = event[f]
      /\ \A q \in Runs : q # r => run'[q] = run[q]
      /\ event'[e].status = "PROCESSING" /\ event'[e].lock = r
      /\ run'[r].ev = e /\ run'[r].status = "STARTED"
      /\ run'[r].attempt = event'[e].attempts
      /\ dispatcher'[d].ev = e /\ dispatcher'[d].run = r
      /\ \A c \in Dispatchers : c # d => dispatcher'[c] = dispatcher[c]
  BY ClaimLives
<1>1. /\ \A c \in Dispatchers : dispatcher[c].pc \in {"dispatching", "dispatched"} =>
           dispatcher[c].run \in Runs
      /\ \A h \in Handlers : handler[h].pc # "idle" => handler[h].run \in Runs
  BY DEF TypeInv, DispatchersKnow, HandlersKnow
<1>2. RequestsOwn'
  <2>1. ASSUME NEW c \in Dispatchers,
               dispatcher'[c].pc \in {"dispatching", "dispatched"}
        PROVE  /\ run'[dispatcher'[c].run].ev = dispatcher'[c].ev
               /\ run'[dispatcher'[c].run].status # "NONE"
    BY <1>0, <1>1, <2>1 DEF RequestsOwn
  <2>2. ASSUME NEW h \in Handlers, handler'[h].pc # "idle"
        PROVE  /\ run'[handler'[h].run].ev = handler'[h].ev
               /\ run'[handler'[h].run].status # "NONE"
    <3>1. handler'[h] = handler[h]
      OBVIOUS
    <3> QED BY <1>0, <1>1, <2>2, <3>1 DEF RequestsOwn
  <2> QED BY <2>1, <2>2 DEF RequestsOwn
<1>3. LockNamesRun'
  <2>1. ASSUME NEW f \in Events, f # e, event[f].status = "PROCESSING",
               event[f].lock \in Runs
        PROVE  run'[event[f].lock] = run[event[f].lock]
    BY <1>0, <2>1 DEF LockNamesRun, CurrentRun
  <2> QED BY <1>0, <2>1 DEF LockNamesRun, CurrentRun
<1>4. ProcessingHasRun'
  <2>1. ASSUME NEW f \in Events, f # e, event[f].status = "PROCESSING"
        PROVE  \E q \in Runs : run'[q].ev = f /\ CurrentRun(q)'
    BY <1>0, <2>1 DEF ProcessingHasRun, CurrentRun
  <2> QED BY <1>0, <2>1 DEF ProcessingHasRun, CurrentRun
<1>5. QueueStep
  BY <1>0 DEF QueueStep, FinalKept, SettledTogether, Finished, Settled
<1> QED BY <1>2, <1>3, <1>4, <1>5

\* Quiet rows decide nothing, so they end with nothing.
LEMMA QuietIsAStep ==
  ASSUME RowsQuiet
  PROVE  QueueStep /\ \A e \in Events : LeaseKept(event[e], event'[e])
BY DEF RowsQuiet, RowQuiet, RowLives, Unsettled, QueueStep, SettledTogether

\* Every step keeps RunInv, keeps final outcomes, and ends event and run
\* together.
LEMMA StepRuns == TypeInv /\ TypeInv' /\ RunInv /\ [Next]_vars => RunInv' /\ QueueStep
<1> SUFFICES ASSUME TypeInv, TypeInv', RunInv, [Next]_vars
             PROVE  RunInv' /\ QueueStep
  OBVIOUS
<1>0. /\ dispatcher' = dispatcher => DispatchersSame
      /\ handler' = handler => HandlersSame
  BY DEF DispatchersSame, HandlersSame
<1>1. ASSUME RowsQuiet, RunsLast, DispatchersSame, HandlersSame
      PROVE  RunInv' /\ QueueStep
  BY <1>1, QuietRuns, QuietIsAStep
<1>2. ASSUME \A e \in Events : RowLives(event[e], event'[e]) /\ SettledTogether(e),
             RunsLast, DispatchersSame, HandlersSame
      PROVE  RunInv' /\ QueueStep
  BY <1>2, QuietRuns DEF RowLives, QueueStep
<1>3. ASSUME NEW d \in Dispatchers, DispatcherStep(d), UNCHANGED handler
      PROVE  RunInv' /\ QueueStep
  <2>1. ASSUME NEW r \in Runs, ClaimEvent(d, r) PROVE RunInv' /\ QueueStep
    BY <1>3, <2>1, ClaimRuns
  <2>2. CASE Record(d)
    BY <1>0, <1>2, <1>3, <2>2, RecordLives
  <2>3. CASE \/ \E e \in Events : Preflight(d, e)
             \/ PreflightCancel(d) \/ ClaimNothing(d)
             \/ Dispatch(d) \/ DispatcherStops(d)
    BY <1>0, <1>1, <1>3, <2>3, QueueQuiet, SameLast
  <2> QED BY <1>3, <2>1, <2>2, <2>3 DEF DispatcherStep
<1>4. ASSUME NEW e \in Events, EventStep(e), UNCHANGED <<handler, alerter>>
      PROVE  RunInv' /\ QueueStep
  <2>1. dispatcher' = dispatcher
    BY <1>4 DEF EventStep, ReclaimStale, RetryEvent, CancelEvent, BecomeDue,
       BecomeStale
  <2>2. CASE ReclaimStale(e)
    BY <1>0, <1>2, <1>4, <2>1, <2>2, RecoveryLives
  <2>3. CASE RetryEvent(e) \/ CancelEvent(e) \/ BecomeDue(e) \/ BecomeStale(e)
    BY <1>0, <1>1, <1>4, <2>1, <2>3, AdministrationQuiet, SameLast
  <2> QED BY <1>4, <2>2, <2>3 DEF EventStep
<1>5. ASSUME NEW h \in Handlers, ActionStep(h), UNCHANGED dispatcher
      PROVE  RunInv' /\ QueueStep
  <2>1. ASSUME NEW r \in Runs, Reserve(h, r) PROVE RunInv' /\ QueueStep
    <3>1. RowsQuiet /\ run' = run
      BY <2>1, ActionQuiet
    <3>2. handler[h].pc = "idle"
      BY <2>1 DEF Reserve
    <3>3. RequestsOwn'
      BY <1>5, <2>1, <3>1, <3>2, ReserveOwns DEF RunInv, RequestsOwn
    <3>4. LockNamesRun' /\ ProcessingHasRun'
      <4>1. Renewed \notin Runs
        BY BoundsAssumption DEF Renewed, Runs
      <4>2. \A e \in Events : event'[e].status = "PROCESSING" =>
              /\ event[e].status = "PROCESSING"
              /\ event'[e].attempts = event[e].attempts
              /\ event'[e].lock \in {event[e].lock, Renewed}
        BY <3>1 DEF RowsQuiet, RowQuiet, RowLives, LeaseKept
      <4> QED BY <3>1, <4>1, <4>2
              DEF RunInv, LockNamesRun, ProcessingHasRun, CurrentRun
    <3> QED BY <3>1, <3>3, <3>4, QuietIsAStep DEF RunInv
  <2>2. ASSUME ~(\E r \in Runs : Reserve(h, r))
        PROVE  RunInv' /\ QueueStep
    <3>1. HandlersSame
      BY <1>5, <2>2, ActionSame
    <3>2. RowsQuiet /\ RunsLast
      BY <1>5, <2>2, ActionQuiet, WriteLives, SameLast DEF ActionStep
    <3> QED BY <1>0, <1>1, <1>5, <3>1, <3>2
  <2> QED BY <2>1, <2>2
<1>6. ASSUME \/ \E a \in Alerters : AlerterStep(a)
             \/ \E e \in Handoffs : AlreadySent(e)
             , UNCHANGED <<dispatcher, handler>>
      PROVE  RunInv' /\ QueueStep
  BY <1>0, <1>1, <1>6, AlertQuiet, SameLast
<1>7. ASSUME NEW c \in Callbacks, CallbackStep(c), UNCHANGED <<dispatcher, handler>>
      PROVE  RunInv' /\ QueueStep
  BY <1>0, <1>2, <1>7, CallbackLives
<1>8. ASSUME ConversationStep, UNCHANGED <<dispatcher, handler>>
      PROVE  RunInv' /\ QueueStep
  BY <1>0, <1>1, <1>8, ConversationQuiet, SameLast
<1>9. CASE UNCHANGED vars
  <2>1. UNCHANGED <<event, run, dispatcher, handler>>
    BY <1>9 DEF vars, store
  <2>2. RowsQuiet
    BY <2>1, RowsAreQuiet DEF RowsQuiet, TypeInv, TypeOK, StoreTypeOK
  <2> QED BY <1>0, <1>1, <2>1, <2>2, SameLast
<1> QED BY <1>3, <1>4, <1>5, <1>6, <1>7, <1>8, <1>9 DEF Next

\* No event is processed at first.
LEMMA InitRuns == Init => RunInv
BY EventSets DEF Init, StoreInit, QueueInit, DispatcherIdle, ActionInit,
   HandlerIdle, PendingRow, AbsentRow, RunInv, RequestsOwn, LockNamesRun,
   ProcessingHasRun

\* The queue's invariant holds together with the one on types.
LEMMA InductiveRuns == Spec => [](TypeInv /\ RunInv)
BY InitType, InitRuns, StepType, StepRuns, PTL DEF Spec

\* An event being processed always has the STARTED run of its attempt: no
\* stale callback, recovery, late dispatcher or delayed transaction closes it,
\* although attempt numbers are used again after a retry or a rescheduling.
THEOREM ProcessingKeepsItsRun == Spec => []ProcessingHasRun
<1>1. TypeInv /\ RunInv => ProcessingHasRun
  BY DEF RunInv
<1> QED BY <1>1, InductiveRuns, PTL

\* SUCCEEDED and CANCELLED are for ever, and only the administrator's retry
\* reopens FAILED and DEAD_LETTER.
THEOREM OutcomesAreFinal == Spec => FinalIsFinal
<1>1. TypeInv /\ TypeInv' /\ RunInv /\ [Next]_vars =>
        [\A e \in Events :
           /\ event[e].status \in Finished => event'[e].status = event[e].status
           /\ event[e].status \in {"FAILED", "DEAD_LETTER"} =>
                \/ event'[e].status = event[e].status
                \/ event'[e].status = "PENDING" /\ event'[e].attempts = 0]_vars
  BY StepRuns DEF QueueStep, FinalKept
<1> QED BY <1>1, InductiveRuns, PTL DEF Spec, FinalIsFinal

\* An event and the run of its attempt end in the same transaction and agree.
THEOREM EventAndRunAgree == Spec => OutcomesAgree
<1>1. TypeInv /\ TypeInv' /\ RunInv /\ [Next]_vars =>
        [\A e \in Events :
           (/\ event[e].status = "PROCESSING"
            /\ event'[e].status \in {"SUCCEEDED", "FAILED", "DEAD_LETTER"}) =>
           \E r \in Runs :
             /\ run[r].ev = e /\ CurrentRun(r)
             /\ run'[r].status = IF event'[e].status = "SUCCEEDED"
                                 THEN "SUCCEEDED" ELSE "FAILED"]_vars
  BY StepRuns DEF QueueStep, SettledTogether, Settled
<1> QED BY <1>1, InductiveRuns, PTL DEF Spec, OutcomesAgree

------------------------------------------------------------------------------
(* Nobody is alerted twice. *)

\* The renewed lock of a handoff whose alerts were claimed is not given up
\* before a run of it ends, and the handoff does not wait again.
LockKept(e) ==
  (/\ event[e].claimed /\ event[e].status = "PROCESSING"
   /\ event[e].lock = Renewed) =>
    /\ event'[e].status # "PENDING"
    /\ \/ event'[e].status = "PROCESSING" /\ event'[e].lock = Renewed
       \/ \E r \in Runs : run'[r].ev = e /\ run'[r].status \in Ended

\* What a step outside the alert action does to a handoff.
HandoffKept(e) ==
  /\ event'[e].claimed = event[e].claimed
  /\ event'[e].status = "ABSENT" => event[e].status = "ABSENT"
  /\ event'[e].status = "SUCCEEDED" =>
       event[e].status = "SUCCEEDED" \/ \A x \in Recipients : alerts[e][x] # 0
  /\ LockKept(e)
HandoffsKept == /\ \A e \in Handoffs : HandoffKept(e)
                /\ UNCHANGED <<delivery, alerts>>

\* A run that ended stays so.
LEMMA EndedStay ==
  ASSUME RunsLast
  PROVE  \A r \in Runs : run[r].status \in Ended =>
           run'[r].ev = run[r].ev /\ run'[r].status \in Ended
BY DEF RunsLast, Ended

\* A step outside the alert action keeps AlertInv.
LEMMA QuietAlerts ==
  ASSUME TypeInv, AlertInv, HandoffsKept, RunsLast, UNCHANGED alerter
  PROVE  AlertInv'
<1> USE DEF AlertInv, HandoffsKept, HandoffKept
<1>0. \A a \in Alerters : alerter[a].pc # "idle" => alerter[a].ev \in Handoffs
  BY DEF TypeInv, AlertersKnow
<1>1. LedgerKnown'
  BY DEF LedgerKnown
<1>2. AlerterAlone'
  BY <1>0 DEF AlerterAlone
<1>3. LockRenewed'
  <2>1. ASSUME NEW a \in Alerters, alerter[a].pc # "idle"
        PROVE  LET e == alerter[a].ev IN
               \/ event'[e].status = "PROCESSING" /\ event'[e].lock = Renewed
               \/ \E r \in Runs : run'[r].ev = e /\ run'[r].status \in Ended
    <3> DEFINE e == alerter[a].ev
    <3>1. e \in Handoffs /\ event[e].claimed
      BY <1>0, <2>1 DEF AlerterAlone
    <3>2. CASE event[e].status = "PROCESSING" /\ event[e].lock = Renewed
      BY <3>1, <3>2 DEF LockKept
    <3>3. CASE \E r \in Runs : run[r].ev = e /\ run[r].status \in Ended
      BY <3>3, EndedStay
    <3> QED BY <2>1, <3>2, <3>3 DEF LockRenewed, Ended
  <2> QED BY <2>1 DEF LockRenewed, Ended
<1>4. AlertOnce'
  BY DEF AlertOnce
<1>5. SucceededAlertedAll'
  <2>1. \A e \in Handoffs, x \in Recipients : alerts[e][x] \in Nat /\ alerts[e][x] <= 1
    BY DEF AlertOnce, TypeInv, TypeOK, StoreTypeOK
  <2> QED BY <2>1 DEF SucceededAlertedAll
<1> QED BY <1>1, <1>2, <1>3, <1>4, <1>5

\* When every row of the ledger is SENT everybody was alerted.
LEMMA LedgerSent ==
  ASSUME AlertInv, NEW e \in Handoffs,
         \A x \in Recipients : delivery[e][x] \in {"NONE", "SENT"},
         event[e].claimed
  PROVE  \A x \in Recipients : alerts[e][x] # 0
BY DEF AlertInv, LedgerKnown

\* The queue: only the recovery can report a success, of alerts all sent, and
\* the dispatcher's lock is not the renewed one.
LEMMA QueueKeepsHandoffs ==
  ASSUME TypeInv, NEW d \in Dispatchers, DispatcherStep(d)
  PROVE  HandoffsKept
<1>1. QueueKeeps
  BY PreflightKeeps, CancelsKeep, ClaimKeeps, DispatchKeeps DEF DispatcherStep
<1>2. ASSUME NEW e \in Handoffs, event[e].status = "PROCESSING",
             event[e].lock = Renewed
      PROVE  event'[e].status = "PROCESSING" /\ event'[e].lock = Renewed
  <2> USE DEF TypeInv, TypeOK
  <2>0. /\ Renewed \notin Runs /\ event \in [Events -> EventRow]
        /\ e \in Events
    BY BoundsAssumption, EventSets DEF Renewed, Runs, StoreTypeOK
  <2>1. ASSUME NEW f \in Events, Preflight(d, f)
        PROVE  event'[e] = event[e] \/ event'[e] = [event[e] EXCEPT !.due = FALSE]
    BY <2>0, <2>1 DEF Preflight
  <2>2. ASSUME PreflightCancel(d) \/ ClaimNothing(d) PROVE event'[e] = event[e]
    BY <1>2, <2>0, <2>2 DEF PreflightCancel, ClaimNothing
  <2>3. ASSUME NEW r \in Runs, ClaimEvent(d, r) PROVE event'[e] = event[e]
    BY <1>2, <2>3, ClaimLives, EventSets
  <2>4. ASSUME Record(d) PROVE event'[e] = event[e]
    <3>1. dispatcher[d].run \in Runs
      BY <2>4 DEF Record, DispatchersKnow
    <3>2. Owns(d) => dispatcher[d].ev # e
      BY <1>2, <2>0, <3>1 DEF Owns
    <3> QED BY <2>0, <2>4, <3>2 DEF Record
  <2>5. ASSUME Dispatch(d) \/ DispatcherStops(d) PROVE event' = event
    BY <2>5 DEF Dispatch, DispatcherStops, rows, store
  <2>6. event'[e] = event[e] \/ event'[e] = [event[e] EXCEPT !.due = FALSE]
    BY <2>1, <2>2, <2>3, <2>4, <2>5 DEF DispatcherStep
  <2> QED BY <1>2, <2>0, <2>6 DEF EventRow
<1> QED BY <1>1, <1>2, EventSets DEF QueueKeeps, Kept, RowsKeep, RowKeeps,
        RowMoves, HandoffsKept, HandoffKept, LockKept, history

\* Administration and the clock leave a handoff being processed its lock; the
\* recovery ends a run of it, and never repeats one that was claimed.
LEMMA EventsKeepHandoffs ==
  ASSUME TypeInv, RunInv, AlertInv, NEW f \in Events, EventStep(f)
  PROVE  HandoffsKept
<1> USE DEF TypeInv, TypeOK
<1>1. EventKeeps
  BY AdministrationKeeps, RecoveryKeeps DEF EventStep
<1>2. CASE RetryEvent(f) \/ CancelEvent(f) \/ BecomeDue(f) \/ BecomeStale(f)
  <2>1. RowsKeep(event')
    BY <1>2, AdministrationKeeps
  <2>2. ASSUME NEW e \in Handoffs, event[e].status = "PROCESSING"
        PROVE  event'[e].status = "PROCESSING" /\ event'[e].lock = event[e].lock
    <3>0. event \in [Events -> EventRow] /\ e \in Events
      BY EventSets DEF StoreTypeOK
    <3>1. ASSUME RetryEvent(f) \/ CancelEvent(f) \/ BecomeDue(f)
          PROVE  event'[e] = event[e]
      BY <2>2, <3>0, <3>1 DEF RetryEvent, CancelEvent, BecomeDue
    <3>2. ASSUME BecomeStale(f)
          PROVE  event'[e] \in {event[e], [event[e] EXCEPT !.stale = TRUE]}
      BY <3>0, <3>2 DEF BecomeStale
    <3>3. event'[e] \in {event[e], [event[e] EXCEPT !.stale = TRUE]}
      BY <1>2, <3>1, <3>2
    <3> QED BY <2>2, <3>0, <3>3 DEF EventRow
  <2> QED BY <1>1, <2>1, <2>2, EventSets DEF EventKeeps, RowsKeep, RowKeeps,
          RowMoves, HandoffsKept, HandoffKept, LockKept, history
<1>3. CASE ReclaimStale(f)
  <2>0. /\ event[f] \in EventRow /\ event \in [Events -> EventRow]
        /\ delivery \in [Handoffs -> [Recipients -> DeliveryStatus]]
    BY DEF StoreTypeOK
  <2>1. event' = [event EXCEPT ![f] = RecoveredRow(f)]
    BY <1>3 DEF ReclaimStale
  <2>2. event'[f].status = StaleStatus(f) /\ \A e \in Events : e # f => event'[e] = event[e]
    BY <2>0, <2>1 DEF RecoveredRow, EventRow
  <2>3. ASSUME NEW e \in Handoffs
        PROVE  event'[e].claimed = event[e].claimed
               /\ (event'[e].status = "ABSENT" => event[e].status = "ABSENT")
    BY <1>1, EventSets DEF EventKeeps, RowsMove, RowMoves
  <2>4. ASSUME f \in Handoffs, StaleStatus(f) = "SUCCEEDED"
        PROVE  \A x \in Recipients : alerts[f][x] # 0
    <3>1. StaleAction(f) = "sent"
      BY <2>4 DEF StaleStatus
    <3>2. /\ event[f].claimed
          /\ {delivery[f][x] : x \in Recipients} \ {"NONE"} = {"SENT"}
      BY <2>4, <3>1, EventSets DEF StaleAction
    <3> QED BY <2>4, <3>2, LedgerSent
  <2>5. ASSUME f \in Handoffs, event[f].claimed
        PROVE  StaleStatus(f) # "PENDING"
    <3>1. StaleAction(f) \in {"sent", "failed", "ambiguous"}
      BY <2>5 DEF StaleAction
    <3> QED BY <3>1 DEF StaleStatus, StaleCancelled
  <2>6. \E r \in Runs : run'[r].ev = f /\ run'[r].status \in Ended
    BY <1>3, RecoveryLives
  <2>7. ASSUME NEW e \in Handoffs PROVE HandoffKept(e)
    <3>1. CASE e = f
      <4>1. f \in Handoffs
        BY <3>1
      <4>2. LockKept(f)
        BY <2>2, <2>5, <2>6, <4>1 DEF LockKept
      <4>3. HandoffKept(f)
        BY <2>2, <2>3, <2>4, <4>1, <4>2 DEF HandoffKept
      <4> QED BY <3>1, <4>3
    <3>2. CASE e # f
      BY <2>2, <3>2, EventSets DEF HandoffKept, LockKept
    <3> QED BY <3>1, <3>2
  <2> QED BY <1>1, <2>7 DEF HandoffsKept, EventKeeps, history
<1> QED BY <1>2, <1>3 DEF EventStep

\* A follow-up request writes rows of follow-ups only.
LEMMA ActionKeepsHandoffs ==
  ASSUME TypeInv, NEW h \in Handlers, ActionStep(h)
  PROVE  HandoffsKept
<1> USE DEF TypeInv, TypeOK
<1> DEFINE same == \A e \in Handoffs : event'[e] = event[e]
<1>0. /\ event \in [Events -> EventRow]
      /\ handler[h].pc # "idle" => handler[h].ev \in FollowUps
      /\ \A e \in Handoffs : e \in Events /\ e \notin FollowUps
  BY EventSets DEF StoreTypeOK, HandlersKnow
<1>1. ASSUME NEW r \in Runs, Reserve(h, r) PROVE same
  BY <1>0, <1>1 DEF Reserve
<1>2. ASSUME \/ InvalidateRead(h) \/ ReprogramRead(h) \/ Deliver(h)
             \/ ProviderAnswers(h) \/ Persist(h) \/ HandlerStops(h)
      PROVE  same
  BY <1>2 DEF InvalidateRead, ReprogramRead, ReadProcessing, Deliver,
     ProviderAnswers, Persist, HandlerStops, store, rows
<1>3. ASSUME InvalidateWrite(h) \/ ReprogramWrite(h) PROVE same
  BY <1>0, <1>3 DEF InvalidateWrite, ReprogramWrite, WriteProcessing
<1>4. ASSUME ClaimDelivery(h) PROVE same
  BY <1>0, <1>4 DEF ClaimDelivery
<1>5. ASSUME Complete(h) PROVE same
  BY <1>0, <1>5 DEF Complete
<1>6. ASSUME Schedule(h) PROVE same
  <2>1. CASE UNCHANGED event
    BY <2>1
  <2>2. ASSUME handler[h].ev + 1 \in FollowUps,
               event' = [CancelFollowUps(event) EXCEPT ![handler[h].ev + 1] = PendingRow]
        PROVE  same
    <3>1. CancelFollowUps(event) \in [Events -> EventRow]
      BY <1>0, CancellationKeeps DEF RowsKeep
    <3>2. \A e \in Handoffs : CancelFollowUps(event)[e] = event[e]
      BY <1>0 DEF CancelFollowUps, MarkProcessing, CancelPending
    <3> QED BY <1>0, <2>2, <3>1, <3>2
  <2> QED BY <1>6, <2>1, <2>2 DEF Schedule
<1>7. same
  BY <1>1, <1>2, <1>3, <1>4, <1>5, <1>6 DEF ActionStep
<1>8. UNCHANGED <<delivery, alerts>>
  BY ActionStepKeeps DEF ActionKeeps
<1>9. ASSUME NEW e \in Handoffs PROVE HandoffKept(e)
  BY <1>7 DEF HandoffKept, LockKept
<1> QED BY <1>8, <1>9 DEF HandoffsKept

\* A callback reports a success when the whole ledger is SENT, and ends its run
\* together with the event.
LEMMA CallbackKeepsHandoffs ==
  ASSUME TypeInv, AlertInv, NEW c \in Callbacks, CallbackStep(c)
  PROVE  HandoffsKept
<1> USE DEF TypeInv, TypeOK
<1>0. event \in [Events -> EventRow] /\ Handoffs \subseteq Events
  BY EventSets DEF StoreTypeOK
<1>1. UNCHANGED <<delivery, alerts>>
  BY CallbackStepKeeps DEF CallbackKeeps, history
<1>2. CASE UNCHANGED event
  <2>1. ASSUME NEW e \in Handoffs PROVE HandoffKept(e)
    BY <1>2 DEF HandoffKept, LockKept
  <2> QED BY <1>1, <2>1 DEF HandoffsKept
<1>3. ASSUME ApplyCallback(c), Matches(c)
      PROVE  HandoffsKept
  <2> DEFINE r == callback[c].run
             f == run[r].ev
             outcome == IF callback[c].ok THEN "SUCCEEDED" ELSE "FAILED"
  <2>1. /\ r \in Runs /\ f \in Events /\ event[f] \in EventRow
        /\ run[r].status = "STARTED"
    BY <1>0, <1>3 DEF ApplyCallback, CallbacksKnow, Matches, RunsKnown
  <2>2. /\ event' = [event EXCEPT ![f] = [event[f] EXCEPT !.status = outcome,
                                           !.lock = 0, !.stale = FALSE]]
        /\ run' = CloseRun(r, outcome)
    BY <1>3 DEF ApplyCallback
  <2>3. outcome \in Ended /\ (outcome = "SUCCEEDED" => callback[c].ok)
    BY DEF Ended
  <2> HIDE DEF outcome
  <2>4. /\ event'[f].status = outcome /\ event'[f].claimed = event[f].claimed
        /\ \A e \in Events : e # f => event'[e] = event[e]
    BY <1>0, <2>1, <2>2 DEF EventRow
  <2>5. run'[r].ev = f /\ run'[r].status \in Ended
    BY <2>1, <2>2, <2>3 DEF CloseRun, StoreTypeOK, RunRow
  <2>6. ASSUME f \in Handoffs, callback[c].ok
        PROVE  \A x \in Recipients : alerts[f][x] # 0
    <3>1. AllDelivered(f)
      BY <1>3, <2>6 DEF Matches, EventMatches
    <3>2. event[f].claimed
      <4>1. PICK x \in Recipients : delivery[f][x] = "SENT"
        BY <3>1 DEF AllDelivered
      <4>2. event[f].claimed \in BOOLEAN
        BY <2>1 DEF EventRow
      <4> QED BY <2>6, <4>1, <4>2 DEF AlertInv, LedgerKnown
    <3> QED BY <2>6, <3>1, <3>2, LedgerSent DEF AllDelivered
  <2>7. ASSUME f \in Handoffs PROVE HandoffKept(f)
    <3>1. LockKept(f)
      BY <2>1, <2>3, <2>4, <2>5 DEF LockKept, Ended
    <3> QED BY <2>3, <2>4, <2>6, <2>7, <3>1 DEF HandoffKept, Ended
  <2>8. ASSUME NEW e \in Handoffs, e # f PROVE HandoffKept(e)
    BY <1>0, <2>4, <2>8 DEF HandoffKept, LockKept
  <2> QED BY <1>1, <2>7, <2>8 DEF HandoffsKept
<1> QED BY <1>2, <1>3 DEF CallbackStep, ReadCallback, ApplyCallback,
        CallbackStops, store

\* The conversation writes handoffs that did not exist.
LEMMA ConversationKeepsHandoffs ==
  ASSUME TypeInv, AlertInv, ConversationStep
  PROVE  HandoffsKept
<1> USE DEF TypeInv, TypeOK
<1>0. /\ event \in [Events -> EventRow]
      /\ \A e \in Handoffs : e \in Events /\ e \notin FollowUps
  BY EventSets DEF StoreTypeOK
<1>1. UNCHANGED <<delivery, alerts>>
  BY ConversationStepKeeps DEF ConversationKeeps, history
<1>2. \A e \in Handoffs : /\ CancelPending(event)[e] = event[e]
                          /\ MarkProcessing(event)[e] = event[e]
                          /\ CancelFollowUps(event)[e] = event[e]
  BY <1>0 DEF CancelFollowUps, MarkProcessing, CancelPending
<1>3. ASSUME \A e \in Handoffs : event'[e] = event[e]
      PROVE  HandoffsKept
  <2>1. ASSUME NEW e \in Handoffs PROVE HandoffKept(e)
    BY <1>3 DEF HandoffKept, LockKept
  <2> QED BY <1>1, <2>1 DEF HandoffsKept
<1>4. ASSUME NEW f \in Handoffs, event[f].status = "ABSENT",
             NEW row \in {[PendingRow EXCEPT !.due = TRUE], CancelRow(PendingRow)},
             event' = [MarkProcessing(event) EXCEPT ![f] = row]
      PROVE  HandoffsKept
  <2>1. MarkProcessing(event) \in [Events -> EventRow]
    BY <1>0, CancellationKeeps DEF RowsKeep
  <2>2. \A e \in Handoffs : event'[e] = IF e = f THEN row ELSE event[e]
    BY <1>0, <1>2, <1>4, <2>1
  <2>3. row.status \in {"PENDING", "CANCELLED"} /\ row.claimed = FALSE
    BY <1>4 DEF PendingRow, AbsentRow, CancelRow
  <2>4. event[f].claimed = FALSE
    BY <1>0, <1>4 DEF AlertInv, LedgerKnown, EventRow
  <2>5. HandoffKept(f)
    BY <1>4, <2>2, <2>3, <2>4 DEF HandoffKept, LockKept
  <2>6. ASSUME NEW e \in Handoffs, e # f PROVE HandoffKept(e)
    BY <2>2, <2>6 DEF HandoffKept, LockKept
  <2> QED BY <1>1, <2>5, <2>6 DEF HandoffsKept
<1> QED BY <1>2, <1>3, <1>4 DEF ConversationStep, GateBegin, GateCommit,
        NextHandoff, Reopen, ReturnToAI, CustomerReply, StatusFailed, HoursPass

\* The claim: the handoff was not claimed, so nobody else sends its alerts and
\* nobody was alerted; it takes the renewed lock.
LEMMA ClaimAlertKeeps ==
  ASSUME TypeInv, AlertInv, NEW a \in Alerters, NEW e \in Handoffs, ClaimAlert(a, e)
  PROVE  AlertInv'
<1> USE DEF TypeInv, TypeOK, AlertInv
<1> DEFINE row == [event[e] EXCEPT !.claimed = TRUE, !.lock = Renewed,
                                   !.stale = FALSE]
<1>0. /\ event \in [Events -> EventRow] /\ e \in Events /\ Handoffs \subseteq Events
      /\ delivery \in [Handoffs -> [Recipients -> DeliveryStatus]]
      /\ alerter \in [Alerters -> AlerterState]
      /\ ~event[e].claimed /\ event[e].status = "PROCESSING"
  BY EventSets DEF StoreTypeOK, AlertTypeOK, ClaimAlert, NothingClaimed
<1>1. /\ event' = [event EXCEPT ![e] = row]
      /\ delivery' = [delivery EXCEPT ![e] = [x \in Recipients |-> "PROCESSING"]]
      /\ alerter' = [alerter EXCEPT ![a] =
           [pc |-> "claimed", ev |-> e, outcome |-> NoOutcome]]
      /\ UNCHANGED <<run, alerts>>
  BY DEF ClaimAlert, history
<1>2. /\ event'[e].claimed /\ event'[e].status = "PROCESSING"
      /\ event'[e].lock = Renewed
      /\ \A f \in Handoffs : f # e => event'[f] = event[f] /\ delivery'[f] = delivery[f]
      /\ \A x \in Recipients : delivery'[e][x] = "PROCESSING" /\ alerts[e][x] = 0
      /\ alerter'[a].ev = e /\ alerter'[a].outcome = NoOutcome
      /\ \A b \in Alerters : b # a => alerter'[b] = alerter[b]
  BY <1>0, <1>1 DEF EventRow, LedgerKnown
<1>3. \A b \in Alerters : (b # a /\ alerter[b].pc # "idle") =>
        alerter[b].ev \in Handoffs /\ alerter[b].ev # e
  BY <1>0 DEF AlerterAlone, AlertersKnow
<1>4. LedgerKnown'
  BY <1>1, <1>2 DEF LedgerKnown
<1>5. AlerterAlone'
  <2>1. \A x \in Recipients : NoOutcome[x] = "NONE"
    BY DEF NoOutcome
  <2>2. ASSUME NEW b \in Alerters, alerter'[b].pc # "idle"
        PROVE  /\ event'[alerter'[b].ev].claimed
               /\ \A x \in Recipients : LET sent == alerts'[alerter'[b].ev][x] IN
                    /\ alerter'[b].outcome[x] = "NONE" => sent = 0
                    /\ alerter'[b].outcome[x] = "SENT" => sent # 0
    <3>1. CASE b = a
      BY <1>1, <1>2, <2>1, <3>1
    <3>2. CASE b # a
      BY <1>1, <1>2, <1>3, <2>2, <3>2 DEF AlerterAlone
    <3> QED BY <3>1, <3>2
  <2>3. ASSUME NEW b \in Alerters, NEW c \in Alerters, b # c,
               alerter'[b].pc # "idle", alerter'[c].pc # "idle"
        PROVE  alerter'[b].ev # alerter'[c].ev
    BY <1>2, <1>3, <2>3 DEF AlerterAlone
  <2> QED BY <2>2, <2>3 DEF AlerterAlone
<1>6. LockRenewed'
  BY <1>1, <1>2, <1>3 DEF LockRenewed
<1>7. AlertOnce' /\ SucceededAlertedAll'
  BY <1>1, <1>2 DEF AlertOnce, SucceededAlertedAll
<1> QED BY <1>4, <1>5, <1>6, <1>7

\* A send: nobody else sends the alerts of this handoff, and this recipient had
\* none; whether the provider said so or not, it got one at most.
LEMMA SendAlertKeeps ==
  ASSUME TypeInv, AlertInv, NEW a \in Alerters, NEW x \in Recipients, SendAlert(a, x)
  PROVE  AlertInv'
<1> USE DEF TypeInv, TypeOK, AlertInv
<1> DEFINE e == alerter[a].ev
<1>0. /\ alerter \in [Alerters -> AlerterState] /\ alerter[a].pc # "idle"
      /\ e \in Handoffs /\ alerts \in [Handoffs -> [Recipients -> Nat]]
      /\ UNCHANGED <<event, run, delivery>>
  BY DEF StoreTypeOK, AlertTypeOK, AlertersKnow, SendAlert, rows
<1>1. event[e].claimed /\ event[e].status # "ABSENT" /\ alerts[e][x] = 0
  BY <1>0 DEF AlerterAlone, LedgerKnown, SendAlert
<1>2. PICK status \in {"SENT", "FAILED"} :
        /\ alerter' = [alerter EXCEPT ![a] =
             [@ EXCEPT !.pc = "sending", !.outcome[x] = status]]
        /\ \/ alerts' = [alerts EXCEPT ![e][x] = @ + 1]
           \/ UNCHANGED alerts /\ status = "FAILED"
  BY DEF SendAlert
<1>3. /\ alerter'[a].ev = e /\ alerter'[a].outcome[x] = status
      /\ \A y \in Recipients : y # x => alerter'[a].outcome[y] = alerter[a].outcome[y]
      /\ \A b \in Alerters : b # a => alerter'[b] = alerter[b]
  BY <1>0, <1>2 DEF AlerterState
<1>4. /\ alerts'[e][x] \in {0, 1} /\ (status = "SENT" => alerts'[e][x] = 1)
      /\ \A f \in Handoffs, y \in Recipients :
           f # e \/ y # x => alerts'[f][y] = alerts[f][y]
  BY <1>0, <1>1, <1>2
<1>5. LedgerKnown'
  BY <1>0, <1>1, <1>4 DEF LedgerKnown
<1>6. AlerterAlone'
  <2>1. ASSUME NEW b \in Alerters, alerter'[b].pc # "idle"
        PROVE  /\ event'[alerter'[b].ev].claimed
               /\ \A y \in Recipients : LET sent == alerts'[alerter'[b].ev][y] IN
                    /\ alerter'[b].outcome[y] = "NONE" => sent = 0
                    /\ alerter'[b].outcome[y] = "SENT" => sent # 0
    <3>1. CASE b = a
      <4>1. ASSUME NEW y \in Recipients
            PROVE  /\ alerter'[a].outcome[y] = "NONE" => alerts'[e][y] = 0
                   /\ alerter'[a].outcome[y] = "SENT" => alerts'[e][y] # 0
        <5>1. CASE y = x
          BY <1>2, <1>3, <1>4, <5>1
        <5>2. CASE y # x
          BY <1>0, <1>3, <1>4, <5>2 DEF AlerterAlone
        <5> QED BY <5>1, <5>2
      <4> QED BY <1>0, <1>1, <1>3, <3>1, <4>1
    <3>2. CASE b # a
      <4>1. alerter[b].ev # e /\ alerter[b].ev \in Handoffs
        BY <1>0, <1>3, <2>1, <3>2 DEF AlerterAlone, AlertersKnow
      <4> QED BY <1>0, <1>3, <1>4, <2>1, <3>2, <4>1 DEF AlerterAlone
    <3> QED BY <3>1, <3>2
  <2>2. \A b \in Alerters : alerter'[b].pc # "idle" =>
          alerter[b].pc # "idle" /\ alerter'[b].ev = alerter[b].ev
    BY <1>0, <1>3
  <2> QED BY <2>1, <2>2 DEF AlerterAlone
<1>7. LockRenewed'
  BY <1>0, <1>3 DEF LockRenewed
<1>8. AlertOnce' /\ SucceededAlertedAll'
  BY <1>0, <1>1, <1>4 DEF AlertOnce, SucceededAlertedAll
<1> QED BY <1>5, <1>6, <1>7, <1>8

\* Writing the ledger or completing the event alerts nobody; a row becomes SENT
\* only if the alert was sent.
LEMMA LedgerWritten ==
  ASSUME TypeInv, AlertInv, NEW e \in Handoffs, NEW b \in BOOLEAN,
         event' = [event EXCEPT ![e].completed = b],
         NEW outcome \in [Recipients -> {"SENT", "FAILED"}],
         \A x \in Recipients : outcome[x] = "SENT" => alerts[e][x] # 0,
         event[e].claimed,
         delivery' \in {delivery,
           [delivery EXCEPT ![e] =
              [x \in Recipients |-> IF delivery[e][x] = "PROCESSING"
                                   THEN outcome[x] ELSE delivery[e][x]]]},
         UNCHANGED <<run, alerts>>,
         \A a \in Alerters : \/ alerter'[a] = alerter[a]
                             \/ alerter'[a].pc = "idle"
  PROVE  AlertInv'
<1> USE DEF TypeInv, TypeOK, AlertInv
<1>0. /\ event \in [Events -> EventRow] /\ Handoffs \subseteq Events
      /\ delivery \in [Handoffs -> [Recipients -> DeliveryStatus]]
  BY EventSets DEF StoreTypeOK
<1>1. \A f \in Handoffs : /\ event'[f].status = event[f].status
                          /\ event'[f].lock = event[f].lock
                          /\ event'[f].claimed = event[f].claimed
  BY <1>0 DEF EventRow
<1>2. LedgerKnown'
  <2>1. ASSUME NEW f \in Handoffs, f # e, NEW x \in Recipients
        PROVE  delivery'[f][x] = delivery[f][x]
    BY <1>0, <2>1
  <2>2. ASSUME NEW x \in Recipients
        PROVE  delivery'[e][x] # "NONE"
               /\ (delivery'[e][x] = "SENT" => alerts[e][x] # 0)
    BY <1>0, <2>2 DEF LedgerKnown
  <2> QED BY <1>1, <2>1, <2>2 DEF LedgerKnown
<1>3. AlerterAlone' /\ LockRenewed'
  <2>1. \A a \in Alerters : alerter'[a].pc # "idle" =>
          alerter'[a] = alerter[a] /\ alerter[a].ev \in Handoffs
    BY DEF AlertersKnow
  <2>2. AlerterAlone'
    BY <1>1, <2>1 DEF AlerterAlone
  <2>3. LockRenewed'
    BY <1>1, <2>1 DEF LockRenewed
  <2> QED BY <2>2, <2>3
<1>4. AlertOnce' /\ SucceededAlertedAll'
  BY <1>1 DEF AlertOnce, SucceededAlertedAll
<1> QED BY <1>2, <1>3, <1>4

\* Every step of the alert action keeps AlertInv.
LEMMA AlertActionKeeps ==
  ASSUME TypeInv, AlertInv,
         \/ \E a \in Alerters : AlerterStep(a)
         \/ \E e \in Handoffs : AlreadySent(e)
  PROVE  AlertInv'
<1> USE DEF TypeInv, TypeOK
<1> DEFINE failed == [x \in Recipients |-> "FAILED"]
<1>0. /\ alerter \in [Alerters -> AlerterState] /\ Handoffs \subseteq Events
      /\ event \in [Events -> EventRow] /\ failed \in [Recipients -> {"SENT", "FAILED"}]
      /\ \A x \in Recipients : failed[x] # "SENT"
  BY EventSets DEF AlertTypeOK, StoreTypeOK
<1>1. ASSUME NEW a \in Alerters, CredentialsFail(a) \/ PersistAlerts(a)
      PROVE  AlertInv'
  <2> DEFINE e == alerter[a].ev
             done == event[e].completed \/ Completes(e)
  <2>1. PICK outcome \in {failed, alerter[a].outcome} :
          /\ outcome \in [Recipients -> {"SENT", "FAILED"}]
          /\ Persisting(e, outcome)
    BY <1>0, <1>1 DEF CredentialsFail, PersistAlerts, AlerterState, Outcome
  <2>2. /\ alerter[a].pc # "idle" /\ e \in Handoffs /\ event[e].claimed
        /\ \A x \in Recipients : outcome[x] = "SENT" => alerts[e][x] # 0
    BY <1>0, <1>1, <2>1 DEF CredentialsFail, PersistAlerts, AlertersKnow,
       AlertInv, AlerterAlone
  <2>3. event' = [event EXCEPT ![e].completed = done] /\ done \in BOOLEAN
    BY <1>0, <2>1, <2>2 DEF Persisting, Completes, EventRow
  <2>4. \A b \in Alerters : alerter'[b] = alerter[b] \/ alerter'[b].pc = "idle"
    BY <1>0, <1>1 DEF CredentialsFail, PersistAlerts, AlerterIdle
  <2>5. UNCHANGED <<run, alerts>>
    BY <1>1 DEF CredentialsFail, PersistAlerts, history
  <2> QED BY <2>1, <2>2, <2>3, <2>4, <2>5, LedgerWritten DEF Persisting
<1>2. ASSUME NEW e \in Handoffs, AlreadySent(e)
      PROVE  AlertInv'
  <2>1. event[e].claimed
    BY <1>0, <1>2 DEF AlreadySent, DeliveryRows, AlertInv, LedgerKnown, EventRow
  <2> QED BY <1>0, <1>2, <2>1, LedgerWritten DEF AlreadySent, history
<1>3. ASSUME NEW a \in Alerters, AlerterStops(a)
      PROVE  AlertInv'
  <2>1. UNCHANGED <<event, run, delivery, alerts>>
    BY <1>3 DEF AlerterStops, store, rows, history
  <2>2. \A b \in Alerters : alerter'[b].pc # "idle" =>
          alerter'[b] = alerter[b] /\ alerter[b].ev \in Handoffs
    BY <1>0, <1>3 DEF AlerterStops, AlerterIdle, AlertersKnow
  <2>3. AlerterAlone'
    BY <2>1, <2>2 DEF AlertInv, AlerterAlone
  <2>4. LockRenewed'
    BY <2>1, <2>2 DEF AlertInv, LockRenewed
  <2> QED BY <2>1, <2>3, <2>4 DEF AlertInv, LedgerKnown, AlertOnce, SucceededAlertedAll
<1> QED BY <1>1, <1>2, <1>3, ClaimAlertKeeps, SendAlertKeeps DEF AlerterStep

\* A run ends when its attempt does, in every step outside the alert action.
LEMMA RunsEndLast ==
  ASSUME TypeInv, RunInv,
         \/ \E d \in Dispatchers : DispatcherStep(d)
         \/ \E e \in Events : EventStep(e)
         \/ \E h \in Handlers : ActionStep(h)
         \/ \E c \in Callbacks : CallbackStep(c)
         \/ ConversationStep
  PROVE  RunsLast
<1>1. ASSUME NEW d \in Dispatchers, NEW r \in Runs, ClaimEvent(d, r)
      PROVE  RunsLast
  BY <1>1, ClaimLives DEF RunsLast
<1>2. ASSUME NEW d \in Dispatchers, DispatcherStep(d) PROVE RunsLast
  BY <1>1, <1>2, RecordLives, QueueQuiet, SameLast DEF DispatcherStep
<1>3. ASSUME NEW e \in Events, EventStep(e) PROVE RunsLast
  BY <1>3, RecoveryLives, AdministrationQuiet, SameLast DEF EventStep
<1>4. ASSUME NEW h \in Handlers, ActionStep(h) PROVE RunsLast
  BY <1>4, WriteLives, ActionQuiet, SameLast DEF ActionStep
<1> QED BY <1>2, <1>3, <1>4, CallbackLives, ConversationQuiet, SameLast

\* Every step keeps AlertInv, and none outside the alert action takes the
\* renewed lock from a handoff that goes on.
LEMMA StepAlerts ==
  TypeInv /\ RunInv /\ AlertInv /\ [Next]_vars =>
    AlertInv' /\ \A e \in Handoffs : LockKept(e)
<1> SUFFICES ASSUME TypeInv, RunInv, AlertInv, [Next]_vars
             PROVE  AlertInv' /\ \A e \in Handoffs : LockKept(e)
  OBVIOUS
<1>1. ASSUME HandoffsKept, RunsLast, UNCHANGED alerter
      PROVE  AlertInv' /\ \A e \in Handoffs : LockKept(e)
  BY <1>1, QuietAlerts DEF HandoffsKept, HandoffKept
<1>2. ASSUME \/ \E d \in Dispatchers : DispatcherStep(d)
             \/ \E e \in Events : EventStep(e)
             \/ \E h \in Handlers : ActionStep(h)
             \/ \E c \in Callbacks : CallbackStep(c)
             \/ ConversationStep
      PROVE  HandoffsKept /\ RunsLast
  BY <1>2, RunsEndLast, QueueKeepsHandoffs, EventsKeepHandoffs,
     ActionKeepsHandoffs, CallbackKeepsHandoffs, ConversationKeepsHandoffs
<1>3. ASSUME \/ \E a \in Alerters : AlerterStep(a)
             \/ \E e \in Handoffs : AlreadySent(e)
      PROVE  AlertInv' /\ \A e \in Handoffs : LockKept(e)
  <2>1. \A e \in Events : event'[e].status = "PROCESSING" => 
          event'[e].lock \in {event[e].lock, Renewed}
    BY <1>3, AlertQuiet DEF RowsQuiet, RowQuiet, RowLives, LeaseKept
  <2>2. \A e \in Handoffs : e \in Events /\ event'[e].status = event[e].status
    BY <1>3, AlertStepKeeps, AlreadySentKeeps, EventSets
       DEF AlertKeeps, RowsAlert
  <2>3. \A e \in Handoffs : LockKept(e)
    BY <2>1, <2>2 DEF LockKept
  <2> QED BY <1>3, <2>3, AlertActionKeeps
<1>4. CASE UNCHANGED vars
  <2>1. UNCHANGED <<event, run, delivery, alerts, alerter>>
    BY <1>4 DEF vars, store
  <2>2. \A e \in Handoffs : HandoffKept(e)
    BY <2>1 DEF HandoffKept, LockKept
  <2> QED BY <1>1, <2>1, <2>2, SameLast DEF HandoffsKept
<1> QED BY <1>1, <1>2, <1>3, <1>4 DEF Next

\* No handoff is claimed at first, and nobody was alerted.
LEMMA InitAlerts == Init => AlertInv
BY EventSets DEF Init, StoreInit, AlertInit, AlerterIdle, PendingRow, AbsentRow,
   AlertInv, LedgerKnown, AlerterAlone, LockRenewed, AlertOnce,
   SucceededAlertedAll

\* The invariant of the handoffs needs that of the queue: the lock of a handoff
\* is lost only with the run that executes it.
LEMMA InductiveAlerts == Spec => [](TypeInv /\ RunInv /\ AlertInv)
BY InitType, InitRuns, InitAlerts, StepType, StepRuns, StepAlerts, PTL DEF Spec

\* The team is alerted at most once per recipient of a handoff, for any number
\* of duplicated requests, crashes between the sends and the ledger, and retries.
THEOREM AlertedAtMostOnce == Spec => []AlertOnce
<1>1. TypeInv /\ RunInv /\ AlertInv => AlertOnce
  BY DEF AlertInv
<1> QED BY <1>1, InductiveAlerts, PTL

\* A handoff is shown as SUCCEEDED only if every recipient was alerted.
THEOREM SuccessAlertedAll == Spec => []SucceededAlertedAll
<1>1. TypeInv /\ RunInv /\ AlertInv => SucceededAlertedAll
  BY DEF AlertInv
<1> QED BY <1>1, InductiveAlerts, PTL

\* While the first attempt sends its alerts the handoff does not wait again, so
\* no second attempt starts under the first one's sends.
THEOREM AlertsAreNotRequeued == Spec => NoRequeueWhileAlerting
<1>1. TypeInv /\ RunInv /\ AlertInv /\ [Next]_vars =>
        [\A a \in Alerters : LET e == alerter[a].ev IN
           (/\ alerter[a].pc # "idle" /\ event[e].status = "PROCESSING"
            /\ \A r \in Runs : run[r].ev = e => run[r].status = "STARTED")
             => event'[e].status # "PENDING"]_vars
  <2> SUFFICES ASSUME TypeInv, AlertInv, \A e \in Handoffs : LockKept(e),
                      NEW a \in Alerters, alerter[a].pc # "idle",
                      event[alerter[a].ev].status = "PROCESSING",
                      \A r \in Runs : run[r].ev = alerter[a].ev =>
                                        run[r].status = "STARTED"
               PROVE  event'[alerter[a].ev].status # "PENDING"
    BY StepAlerts
  <2>1. alerter[a].ev \in Handoffs /\ event[alerter[a].ev].claimed
    BY DEF TypeInv, AlertersKnow, AlertInv, AlerterAlone
  <2>2. event[alerter[a].ev].lock = Renewed
    BY DEF AlertInv, LockRenewed
  <2> QED BY <2>1, <2>2 DEF LockKept
<1> QED BY <1>1, InductiveAlerts, PTL DEF Spec, NoRequeueWhileAlerting
===============================================================================

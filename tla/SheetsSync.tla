------------------------------- MODULE SheetsSync -------------------------------
(***************************************************************************)
(* The exports of one organization to Google Sheets                        *)
(* (integrations/google-sheets/service.ts).  A request carries a key; the  *)
(* run of that key is found, claimed and finished in separate statements,  *)
(* with the calls to Google between them.                                  *)
(***************************************************************************)
EXTENDS Naturals, FiniteSets

CONSTANTS
  Keys,        \* idempotency keys of the clients
  Requests,    \* requests in progress at once
  Sheets, Tabs,
  MaxRuns,     \* runs inserted over the whole behaviour
  MaxRows      \* connection rows inserted over the whole behaviour

\* What the constants must be, for the instances of this module.
SheetsAssumption == MaxRuns \in Nat /\ MaxRows \in Nat
RunIds == 1 .. MaxRuns

VARIABLES
  conn,       \* the connection row: its id (0 when absent), sheet and status
  run,        \* the runs table
  request,    \* the local state of the requests in progress
  rows,       \* connection rows inserted so far
  wrote       \* history: the tabs written for each run by its last attempt

vars == <<conn, run, request, rows, wrote>>

NoRow == [id |-> 0, status |-> "NONE", sheet |-> "none", fresh |-> FALSE]
NoRun == [status |-> "NONE", key |-> "none", conn |-> 0]
Idle == [pc |-> "idle", key |-> "none", row |-> 0, sheet |-> "none",
         run |-> 0, todo |-> {}]

\* The connection, the runs and the requests keep their types.
TypeOK ==
  /\ conn \in [id : 0 .. MaxRows, status : {"NONE", "CONNECTED", "ERROR"},
               sheet : {"none"} \cup Sheets, fresh : BOOLEAN]
  /\ run \in [RunIds -> [status : {"NONE", "RUNNING", "SUCCEEDED", "FAILED", "DELETED"},
                         key : {"none"} \cup Keys, conn : 0 .. MaxRows]]
  /\ request \in [Requests ->
       [pc : {"idle", "read", "retry", "new", "claimed", "export", "done", "failed",
              "revoking"},
        key : {"none"} \cup Keys, row : 0 .. MaxRows,
        sheet : {"none"} \cup Sheets, run : 0 .. MaxRuns, todo : SUBSET Tabs]]
  /\ rows \in 0 .. MaxRows
  /\ wrote \in [RunIds -> SUBSET Tabs]

Init ==
  /\ conn = NoRow
  /\ run = [r \in RunIds |-> NoRun]
  /\ request = [q \in Requests |-> Idle]
  /\ rows = 0
  /\ wrote = [r \in RunIds |-> {}]

Ends(q) == request' = [request EXCEPT ![q] = Idle]
Goes(q, pc) == request' = [request EXCEPT ![q].pc = pc]
OfKey(k) == {r \in RunIds : run[r].key = k /\ run[r].status # "DELETED"}

------------------------------------------------------------------------------
\* saveGoogleSheetsConnection: an upsert that keeps the row and its sheet.
Connects ==
  /\ conn.id = 0 => rows < MaxRows
  /\ rows' = IF conn.id = 0 THEN rows + 1 ELSE rows
  /\ conn' = [conn EXCEPT !.id = rows', !.status = "CONNECTED", !.fresh = TRUE]
  /\ UNCHANGED <<run, request, wrote>>

\* chooseGoogleSpreadsheet and createAndChooseGoogleSpreadsheet, by organization.
Chooses(s) ==
  /\ conn.id # 0
  /\ conn' = [conn EXCEPT !.status = "CONNECTED", !.sheet = s]
  /\ UNCHANGED <<run, request, rows, wrote>>

AccessExpires ==
  /\ conn.fresh
  /\ conn' = [conn EXCEPT !.fresh = FALSE]
  /\ UNCHANGED <<run, request, rows, wrote>>

\* The card runs one operation at a time.
Asks(q) == request[q].pc = "idle"

\* syncGoogleSheets reads the connection, then the run of its key.
ReadsConnection(q) ==
  /\ Asks(q) /\ conn.sheet # "none"
  /\ \E k \in Keys :
       request' = [request EXCEPT ![q] =
         [Idle EXCEPT !.pc = "read", !.key = k, !.row = conn.id, !.sheet = conn.sheet]]
  /\ UNCHANGED <<conn, run, rows, wrote>>

FindsRun(q) ==
  /\ request[q].pc = "read"
  /\ \/ OfKey(request[q].key) = {} /\ Goes(q, "new")
     \/ \E r \in OfKey(request[q].key) :
          IF run[r].status = "FAILED"
          THEN request' = [request EXCEPT ![q].pc = "retry", ![q].run = r]
          ELSE Ends(q)
  /\ UNCHANGED <<conn, run, rows, wrote>>

\* A failed run is claimed by a conditional update.  Mutation: by its id only.
IsThere(r) == run[r].status # "DELETED"
IsFailed(r) == run[r].status = "FAILED"
ClaimsFailed(q) ==
  LET r == request[q].run IN
  /\ request[q].pc = "retry"
  /\ IF IsFailed(r)
     THEN /\ run' = [run EXCEPT ![r].status = "RUNNING"]
          /\ wrote' = [wrote EXCEPT ![r] = {}]
          /\ Goes(q, "claimed")
     ELSE Ends(q) /\ UNCHANGED <<run, wrote>>
  /\ UNCHANGED <<conn, rows>>

\* A new run is inserted: unique by key, and its connection must be there.
Inserts(q) ==
  /\ request[q].pc = "new"
  /\ IF OfKey(request[q].key) = {} /\ conn.id = request[q].row
     THEN \E r \in RunIds :
            /\ run[r].status = "NONE"
            /\ \A o \in RunIds : o < r => run[o].status # "NONE"
            /\ run' = [run EXCEPT ![r] = [status |-> "RUNNING",
                         key |-> request[q].key, conn |-> request[q].row]]
            /\ request' = [request EXCEPT ![q].pc = "claimed", ![q].run = r]
     ELSE Ends(q) /\ UNCHANGED run
  /\ UNCHANGED <<conn, rows, wrote>>

\* A call to Google is not answered, or is refused.
CallFails(q) == Goes(q, "failed")

\* The token, renewed if need be for whatever row the organization has now,
\* the spreadsheet, the data and its tabs.
Prepares(q) ==
  /\ request[q].pc = "claimed"
  /\ \/ /\ conn.id # 0
        /\ conn' = IF conn.fresh THEN conn
                   ELSE [conn EXCEPT !.status = "CONNECTED", !.fresh = TRUE]
        /\ request' = [request EXCEPT ![q].pc = "export", ![q].todo = Tabs]
     \/ /\ conn.id # 0 /\ ~conn.fresh
        /\ conn' = [conn EXCEPT !.status = "ERROR"]
        /\ Goes(q, "failed")
     \/ CallFails(q) /\ UNCHANGED conn
  /\ UNCHANGED <<run, rows, wrote>>

\* The tab is created when it is missing, cleared and written whole.
Replaced(r, t) == [wrote EXCEPT ![r] = @ \cup {t}]

WritesTab(q) ==
  /\ request[q].pc = "export"
  /\ \/ \E t \in request[q].todo :
          /\ wrote' = Replaced(request[q].run, t)
          /\ request' = [request EXCEPT ![q].todo = @ \ {t}]
     \/ request[q].todo # {} /\ CallFails(q) /\ UNCHANGED wrote
  /\ UNCHANGED <<conn, run, rows>>

\* The connection is written by its id.
Marks(q, status) ==
  IF conn.id = request[q].row /\ conn.id # 0
  THEN [conn EXCEPT !.status = status] ELSE conn

\* The transaction that records the success, after the last tab.  Mutation:
\* the writes are not awaited.
StillWriting(q) == TRUE
AllWritten(q) == request[q].todo = {}
Succeeds(q) ==
  LET r == request[q].run IN
  /\ request[q].pc = "export" /\ AllWritten(q)
  /\ run' = IF run[r].status = "RUNNING"
            THEN [run EXCEPT ![r].status = "SUCCEEDED"] ELSE run
  /\ conn' = Marks(q, "CONNECTED")
  /\ Goes(q, "done")
  /\ UNCHANGED <<rows, wrote>>

\* The audit that follows may throw into the same catch.
Audits(q) ==
  /\ request[q].pc = "done"
  /\ Ends(q) \/ Goes(q, "failed")
  /\ UNCHANGED <<conn, run, rows, wrote>>

\* What the catch leaves of the run.  Mutations: it does not look whether the
\* run is still running; it writes the status of the connection.
FailedAlways(r) == IF run[r].status = "DELETED" THEN run ELSE
                   [run EXCEPT ![r].status = "FAILED"]
FailedAsError(r) == [run EXCEPT ![r].status = "ERROR"]
FailedRun(r) == IF run[r].status = "RUNNING"
                THEN [run EXCEPT ![r].status = "FAILED"] ELSE run
Fails(q) ==
  /\ request[q].pc = "failed"
  /\ run' = FailedRun(request[q].run)
  /\ conn' = Marks(q, "ERROR")
  /\ Ends(q)
  /\ UNCHANGED <<rows, wrote>>

------------------------------------------------------------------------------
\* disconnectGoogleSheets: read, revoke, delete; the runs go with their row.
Revokes(q) ==
  /\ Asks(q) /\ conn.id # 0
  /\ request' = [request EXCEPT ![q] = [Idle EXCEPT !.pc = "revoking", !.row = conn.id]]
  /\ UNCHANGED <<conn, run, rows, wrote>>

Deletes(q) ==
  /\ request[q].pc = "revoking"
  /\ IF conn.id = request[q].row
     THEN /\ conn' = NoRow
          /\ run' = [r \in RunIds |-> IF run[r].conn = conn.id
                                      THEN [run[r] EXCEPT !.status = "DELETED"]
                                      ELSE run[r]]
     ELSE UNCHANGED <<conn, run>>
  /\ Ends(q)
  /\ UNCHANGED <<rows, wrote>>

\* The invocation is cut off, or another error ends it before its run is claimed.
RequestStops(q) ==
  /\ request[q].pc # "idle"
  /\ Ends(q)
  /\ UNCHANGED <<conn, run, rows, wrote>>

Next ==
  \/ Connects \/ AccessExpires \/ \E s \in Sheets : Chooses(s)
  \/ \E q \in Requests :
       \/ ReadsConnection(q) \/ FindsRun(q) \/ ClaimsFailed(q) \/ Inserts(q)
       \/ Prepares(q) \/ WritesTab(q) \/ Succeeds(q) \/ Audits(q) \/ Fails(q)
       \/ Revokes(q) \/ Deletes(q) \/ RequestStops(q)

Spec == Init /\ [][Next]_vars

------------------------------------------------------------------------------
\* A run is exported by one request at a time, whoever else repeats its key,
\* retries it after a failure or arrives together with it (the claim of
\* syncGoogleSheets).
OneExporterPerRun ==
  \A q, p \in Requests :
    /\ request[q].pc \in {"claimed", "export"} /\ request[p].pc \in {"claimed", "export"}
    /\ request[q].run = request[p].run
    => q = p

\* A run that says SUCCEEDED has written every tab in the attempt it reports,
\* so that answering "repeated" for its key loses nothing.
SucceededWroteAll ==
  \A r \in RunIds : run[r].status = "SUCCEEDED" => wrote[r] = Tabs

\* A run that succeeded is never failed nor run again, though the audit that
\* follows the success may throw into the catch that fails the run.
SuccessIsKeptStep ==
  \A r \in RunIds : run[r].status = "SUCCEEDED"
    => run'[r].status \in {"SUCCEEDED", "DELETED"} /\ wrote'[r] = wrote[r]
SuccessIsKept == [][SuccessIsKeptStep]_vars
==============================================================================

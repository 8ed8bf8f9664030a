------------------------------ MODULE AuthThrottle ------------------------------
(***************************************************************************)
(* The counter of attempts shared by the processes of the server           *)
(* (auth/throttle.ts): one row per key with a count and the end of its     *)
(* window.  The increment is one statement; the opening of a window is     *)
(* another, and the decision reads the row a third time.                   *)
(***************************************************************************)
EXTENDS Naturals, FiniteSets

CONSTANTS
  Requests,     \* requests that may be running at once
  Limit,        \* attempts a window allows
  Window,       \* its length
  MaxTime,      \* bound of the clock
  MaxCount      \* bound of the attempts counted in a window

\* What the constants must be, for the instances of this module.
ThrottleAssumption ==
  Limit \in Nat \ {0} /\ Window \in Nat \ {0} /\ MaxTime \in Nat
  /\ MaxCount \in Nat

VARIABLES
  now,
  row,          \* the row of the key: whether it exists, count, windowEnd
  request,      \* the local state of a request; its time is that of its start
  allowed       \* history: attempts allowed since the window in force was opened

vars == <<now, row, request, allowed>>

Free == [pc |-> "idle", at |-> 0]

\* The clock, the row and the requests keep their types.
TypeOK ==
  /\ now \in 0 .. MaxTime
  /\ row \in [exists : BOOLEAN, count : Nat, end : 0 .. MaxTime + Window]
  /\ request \in [Requests -> [pc : {"idle", "open", "decide"}, at : 0 .. MaxTime]]

Init ==
  /\ now = 0
  /\ row = [exists |-> FALSE, count |-> 0, end |-> 0]
  /\ request = [r \in Requests |-> Free]
  /\ allowed = 0

Tick ==
  /\ now < MaxTime
  /\ now' = now + 1
  /\ UNCHANGED <<row, request, allowed>>

\* updateMany with windowEnd > now.
InWindow == row.exists /\ row.end > now

\* Mutation: each attempt moves the end of the window.
Sliding(w) == [w EXCEPT !.count = @ + 1, !.end = now + Window]
Counted(w) == [w EXCEPT !.count = @ + 1]

Increments(r) ==
  /\ request[r].pc = "idle"
  /\ InWindow
  /\ row.count < MaxCount
  /\ row' = Counted(row)
  /\ request' = [request EXCEPT ![r] = [pc |-> "decide", at |-> now]]
  /\ UNCHANGED <<now, allowed>>

FindsNone(r) ==
  /\ request[r].pc = "idle"
  /\ ~ InWindow
  /\ request' = [request EXCEPT ![r] = [pc |-> "open", at |-> now]]
  /\ UNCHANGED <<now, row, allowed>>

\* Mutation: the window ends one unit after its length.
Longer(w, at) == [exists |-> TRUE, count |-> 1, end |-> at + Window + 1]
\* The upsert: the count starts again whatever another request did meanwhile.
Opened(w, at) == [exists |-> TRUE, count |-> 1, end |-> at + Window]
Opens(r) ==
  /\ request[r].pc = "open"
  /\ row' = Opened(row, request[r].at)
  /\ request' = [request EXCEPT ![r] = Free]
  /\ allowed' = IF row.exists /\ row.end > now THEN allowed + 1 ELSE 1
  /\ UNCHANGED <<now>>

\* Mutation: one attempt more.
WithinOneMore(count) == count <= Limit + 1
Within(count) == count <= Limit

\* decideThrottle of the row as it is now, which may be gone.
Decides(r) ==
  /\ request[r].pc = "decide"
  /\ request' = [request EXCEPT ![r] = Free]
  /\ allowed' = IF ~ row.exists \/ Within(row.count) THEN allowed + 1 ELSE allowed
  /\ UNCHANGED <<now, row>>

\* purgeExpiredThrottles.
Purges ==
  /\ row.exists /\ row.end <= now
  /\ row' = [row EXCEPT !.exists = FALSE, !.count = 0, !.end = 0]
  /\ allowed' = 0
  /\ UNCHANGED <<now, request>>

Next ==
  \/ Tick \/ Purges
  \/ \E r \in Requests : Increments(r) \/ FindsNone(r) \/ Opens(r) \/ Decides(r)

Spec == Init /\ [][Next]_vars

(***************************************************************************)
(* Properties.                                                             *)
(***************************************************************************)
\* Requests one after another: a window lets through as many attempts as its limit.
WithinLimit == allowed <= Limit

\* "solo afloja un intento justo en el borde de la ventana": a window lets through one
\* attempt more than its limit, at most.
OneMoreAtMost == allowed <= Limit + 1

\* "windowEnd no se mueve: el bloqueo nunca se extiende solo": the end of a window in
\* force moves only by a request that had found it over.
BlockNotExtendedStep == (row.exists /\ row.end > now /\ row'.end > row.end) =>
  \E r \in Requests : request[r].pc = "open" /\ request'[r].pc = "idle"
BlockNotExtended == [][BlockNotExtendedStep]_vars
=================================================================================

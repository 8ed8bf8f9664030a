----------------------------- MODULE DispatchBatch -----------------------------
(***************************************************************************)
(* The batch of the dispatcher over the events of several organizations    *)
(* (automation/queue.ts): the oldest events that are due are selected, and *)
(* each is claimed, delivered and closed, or skipped when its organization *)
(* has no entitlement.  The preflights of the two actions, which           *)
(* AutomationSystem models, are left out; so are cancelled events.         *)
(***************************************************************************)
EXTENDS Integers, FiniteSets

CONSTANTS
  Dispatchers,   \* runs of the endpoint that may overlap
  Events,
  Suspended,     \* the events of organizations without entitlement
  Limit,         \* DISPATCH_BATCH_SIZE
  MaxAttempts,
  MaxTime,       \* bound of the clock: what is later stays there
  NoOne

\* What the constants must be, for the instances of this module.
DispatchBatchAssumption ==
  /\ Suspended \subseteq Events /\ IsFiniteSet(Events)
  /\ Limit \in Nat \ {0} /\ MaxAttempts \in Nat \ {0} /\ MaxTime \in Nat
  /\ NoOne \notin Dispatchers
  \* Powers of two are naturals, which the provers do not know.
  /\ \A attempts \in 1 .. MaxAttempts : 2 ^ (attempts - 1) \in Nat

VARIABLES
  now,
  event,        \* status, attempts, nextAttemptAt and the dispatcher that delivers it
  todo,         \* what is left of the selection of each dispatcher
  running       \* the dispatchers that are in a batch

vars == <<now, event, todo, running>>

Statuses == {"ABSENT", "PENDING", "PROCESSING", "SUCCEEDED", "FAILED", "DEAD_LETTER"}

\* Events and batches keep their types.
TypeOK ==
  /\ now \in 0 .. MaxTime
  /\ event \in [Events -> [status : Statuses, attempts : 0 .. MaxAttempts,
                           next : 0 .. MaxTime, holder : Dispatchers \cup {NoOne}]]
  /\ todo \in [Dispatchers -> SUBSET Events]
  /\ running \subseteq Dispatchers

Init ==
  /\ now = 0
  /\ event = [e \in Events |-> [status |-> "ABSENT", attempts |-> 0, next |-> 0,
                                holder |-> NoOne]]
  /\ todo = [d \in Dispatchers |-> {}]
  /\ running = {}

Tick == now < MaxTime /\ now' = now + 1 /\ UNCHANGED <<event, todo, running>>

Earliest(a, b) == IF a < b THEN a ELSE b

\* nextAttemptAt: each failure doubles the wait.
Later(attempts) == Earliest(now + 2 ^ (attempts - 1), MaxTime)

\* emitAutomationEvent: it is due at once.
Emits(e) ==
  /\ event[e].status = "ABSENT"
  /\ event' = [event EXCEPT ![e] = [status |-> "PENDING", attempts |-> 0, next |-> now,
                                    holder |-> NoOne]]
  /\ UNCHANGED <<now, todo, running>>

\* decideAfterDispatch and decideStaleProcessing of an attempt to be repeated.
Again(e) ==
  IF event[e].attempts >= MaxAttempts
    THEN [event[e] EXCEPT !.status = "DEAD_LETTER", !.holder = NoOne]
    ELSE [event[e] EXCEPT !.status = "PENDING", !.holder = NoOne,
                          !.next = Later(event[e].attempts)]

\* Mutation: what waits is selected, due or not.
Waiting == {e \in Events : event[e].status = "PENDING"}
Due == {e \in Events : event[e].status = "PENDING" /\ event[e].next <= now}

Oldest(S) == \A e \in S, f \in Due \ S : event[e].next <= event[f].next

\* Mutation: one event short.
OneShort == Earliest(Limit - 1, Cardinality(Due))
Size == Earliest(Limit, Cardinality(Due))

\* The selection; reclaimStaleProcessing was done before it, in a step of its own.
Starts(d) ==
  /\ d \notin running
  /\ \E S \in SUBSET Due :
       /\ Cardinality(S) = Size
       /\ Oldest(S)
       /\ todo' = [todo EXCEPT ![d] = S]
  /\ running' = running \cup {d}
  /\ UNCHANGED <<now, event>>

\* An event nobody delivers any longer, after PROCESSING_STALE_MS.
Reclaims(e) ==
  /\ event[e].status = "PROCESSING" /\ event[e].holder = NoOne
  /\ event' = [event EXCEPT ![e] = Again(e)]
  /\ UNCHANGED <<now, todo, running>>

Idle(d) == \A e \in Events : event[e].holder # d

\* Mutation: with the status of a run.
Started == "STARTED"
Processing == "PROCESSING"

Entitled(e) == e \notin Suspended

\* The claim asks only that it is PENDING.
Claims(d, e) ==
  /\ d \in running /\ Idle(d)
  /\ e \in todo[d]
  /\ event' = IF Entitled(e) /\ event[e].status = "PENDING"
                THEN [event EXCEPT ![e].status = Processing, ![e].attempts = @ + 1,
                                   ![e].holder = d]
                ELSE event
  /\ todo' = [todo EXCEPT ![d] = @ \ {e}]
  /\ UNCHANGED <<now, running>>

\* The provider answers: done, waiting for a callback, to be retried or not.
Answers(d, e) ==
  /\ event[e].holder = d
  /\ event' \in {[event EXCEPT ![e].status = s, ![e].holder = NoOne] :
                   s \in {"SUCCEEDED", "PROCESSING", "FAILED"}}
                \cup {[event EXCEPT ![e] = Again(e)]}
  /\ UNCHANGED <<now, todo, running>>

\* The callback of an event that waits for it.
CallsBack(e) ==
  /\ event[e].status = "PROCESSING" /\ event[e].holder = NoOne
  /\ event' \in {[event EXCEPT ![e].status = s] : s \in {"SUCCEEDED", "FAILED"}}
  /\ UNCHANGED <<now, todo, running>>

Ends(d) ==
  /\ d \in running /\ Idle(d) /\ todo[d] = {}
  /\ running' = running \ {d}
  /\ UNCHANGED <<now, event, todo>>

\* The run of the endpoint is cut.
Dies(d) ==
  /\ d \in running
  /\ running' = running \ {d}
  /\ todo' = [todo EXCEPT ![d] = {}]
  /\ event' = [e \in Events |-> IF event[e].holder = d THEN [event[e] EXCEPT !.holder = NoOne]
                                ELSE event[e]]
  /\ UNCHANGED now

Next ==
  \/ Tick
  \/ \E e \in Events : Emits(e) \/ Reclaims(e) \/ CallsBack(e)
  \/ \E d \in Dispatchers : \/ Starts(d) \/ Ends(d) \/ Dies(d)
                            \/ \E e \in Events : Claims(d, e) \/ Answers(d, e)

Spec == Init /\ [][Next]_vars

\* The endpoint is called again and again and its batches go on: enough of them are not
\* cut for each event they select to be handled.
Fair ==
  /\ WF_vars(Tick)
  /\ \A d \in Dispatchers :
       /\ WF_vars(Starts(d)) /\ WF_vars(Ends(d))
       /\ \A e \in Events : SF_vars(Claims(d, e)) /\ WF_vars(Answers(d, e))

FairSpec == Spec /\ Fair

(***************************************************************************)
(* Properties.                                                             *)
(***************************************************************************)
\* "evita ... starvation": an event of an organization with entitlement is attempted.
Attended == \A e \in Events :
  Entitled(e) => ((event[e].status = "PENDING") ~> (event[e].status # "PENDING"))

\* "Backoff exponencial": an event is not attempted before its time.
BackoffKeptStep == \A e \in Events :
  event'[e].attempts > event[e].attempts => event[e].next <= now
BackoffKept == [][BackoffKeptStep]_vars
================================================================================

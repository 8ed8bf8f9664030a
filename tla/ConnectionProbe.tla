---------------------------- MODULE ConnectionProbe ----------------------------
(***************************************************************************)
(* The test of the connection with n8n: the route that emits a probe       *)
(* (api/automation/test-connection), its delivery (automation/queue.ts,    *)
(* providers/n8n.ts) and the callback that enables the connection          *)
(* (automation/callback.ts), while the configuration changes with the      *)
(* deployments.  Signatures and entitlement are left out.                  *)
(***************************************************************************)
EXTENDS Naturals, Sequences, FiniteSets

CONSTANTS
  Configs,       \* fingerprints of the configurations deployed
  Requests,      \* requests that may be running at once
  MaxProbes,     \* bound of the probes
  Overlapping    \* a callback may run on the deployment before the current one

\* What the constants must be, for the instances of this module.
ConnectionProbeAssumption ==
  MaxProbes \in Nat /\ Overlapping \in BOOLEAN /\ Configs \subseteq Nat \ {0}

VARIABLES
  config,        \* the fingerprint of the current deployment
  probe,         \* the events of the probes, by creation
  connection,    \* the row of the connection
  request        \* the local state of a request

vars == <<config, probe, connection, request>>

Statuses == {"PENDING", "PROCESSING", "SUCCEEDED", "FAILED", "DEAD_LETTER"}
Free == [pc |-> "idle", id |-> 0, fp |-> 0, ok |-> FALSE]

\* Probes, connection and requests keep their types; run is the attempt that is STARTED.
TypeOK ==
  /\ config \in Configs
  /\ probe \in Seq([fp : Configs, after : 0 .. MaxProbes, status : Statuses,
                    attempts : 0 .. 2, max : 1 .. 2, run : 0 .. 2, sent : 0 .. 2])
  /\ connection \in [status : {"DISCONNECTED", "ERROR", "CONNECTED"}, enabled : BOOLEAN,
                     fp : Configs \cup {0}]
  /\ request \in [Requests -> [pc : {"idle", "emit", "limit", "after", "send", "record",
                                     "close", "callback"},
                               id : 0 .. MaxProbes, fp : Configs \cup {0}, ok : BOOLEAN]]

Init ==
  /\ config \in Configs
  /\ probe = <<>>
  /\ connection = [status |-> "DISCONNECTED", enabled |-> FALSE, fp |-> 0]
  /\ request = [r \in Requests |-> Free]

(***************************************************************************)
(* POST /api/automation/test-connection.                                   *)
(***************************************************************************)
\* shouldReuseN8nProbe: an open one of this configuration, or one of the last minute.
Reused(recent) ==
  /\ probe # <<>>
  /\ LET last == probe[Len(probe)] IN
       last.fp = config /\ (last.status \in {"PENDING", "PROCESSING"} \/ recent)

Asks(r, recent) ==
  /\ request[r].pc = "idle"
  /\ request' = [request EXCEPT ![r] =
       [Free EXCEPT !.pc = IF Reused(recent) THEN "limit" ELSE "emit", !.id = Len(probe),
                    !.fp = IF Reused(recent) THEN 0 ELSE config]]
  /\ UNCHANGED <<config, probe, connection>>

\* The key of a probe is the probe before it: of two requests one creates it.
Chained(previous) == {i \in DOMAIN probe : probe[i].after = previous}

Emits(r) ==
  /\ request[r].pc = "emit"
  /\ \/ /\ Chained(request[r].id) # {}
        /\ request' = [request EXCEPT ![r] =
             [Free EXCEPT !.pc = "limit", !.id = CHOOSE i \in Chained(request[r].id) : TRUE]]
        /\ UNCHANGED probe
     \/ /\ Chained(request[r].id) = {}
        /\ Len(probe) < MaxProbes
        /\ probe' = Append(probe, [fp |-> request[r].fp, after |-> request[r].id,
                                   status |-> "PENDING", attempts |-> 0, max |-> 2,
                                   run |-> 0, sent |-> 0])
        /\ request' = [request EXCEPT ![r] = [Free EXCEPT !.pc = "limit", !.id = Len(probe')]]
  /\ UNCHANGED <<config, connection>>

\* Mutation: a probe has the attempts of any event.
Unlimited(p) == p
\* maxAttempts of a probe that waits is one.
Limited(p) == IF p.status = "PENDING" THEN [p EXCEPT !.max = 1] ELSE p

\* One that waits is delivered after the answer.
Limits(r) ==
  LET i == request[r].id IN
  /\ request[r].pc = "limit"
  /\ probe' = [probe EXCEPT ![i] = Limited(@)]
  /\ request' = [request EXCEPT ![r] =
                   IF probe[i].status = "PENDING" THEN [@ EXCEPT !.pc = "after"] ELSE Free]
  /\ UNCHANGED <<config, connection>>

(***************************************************************************)
(* processN8nConnectionProbeNow.                                           *)
(***************************************************************************)
Claims(r) ==
  LET i == request[r].id IN
  /\ request[r].pc = "after"
  /\ IF probe[i].status = "PENDING"
       THEN /\ probe' = [probe EXCEPT ![i].status = "PROCESSING", ![i].attempts = @ + 1,
                                      ![i].run = probe[i].attempts + 1]
            /\ request' = [request EXCEPT ![r].pc = "send"]
       ELSE UNCHANGED probe /\ request' = [request EXCEPT ![r] = Free]
  /\ UNCHANGED <<config, connection>>

\* n8n receives it or does not; the answer may be lost either way.
Sends(r, received, ok) ==
  /\ request[r].pc = "send"
  /\ ok => received
  /\ probe' = IF received THEN [probe EXCEPT ![request[r].id].sent = @ + 1] ELSE probe
  /\ request' = [request EXCEPT ![r].pc = "record", ![r].ok = ok]
  /\ UNCHANGED <<config, connection>>

\* recordConnectionResult: a connection that is enabled keeps its status.
Records(r) ==
  /\ request[r].pc = "record"
  /\ connection' = IF connection.enabled THEN connection
                   ELSE [connection EXCEPT !.status = IF request[r].ok THEN "DISCONNECTED"
                                                      ELSE "ERROR"]
  /\ request' = [request EXCEPT ![r] = IF @.ok THEN Free ELSE [@ EXCEPT !.pc = "close"]]
  /\ UNCHANGED <<config, probe>>

\* decideAfterDispatch, decideStaleProcessing.
Interrupted(p) ==
  IF p.status # "PROCESSING" THEN p
  ELSE [p EXCEPT !.status = IF p.attempts >= p.max THEN "DEAD_LETTER" ELSE "PENDING",
                 !.run = 0]

\* An error that is not to be retried ends it at once.
Closes(r, retryable) ==
  LET i == request[r].id IN
  /\ request[r].pc = "close"
  /\ probe' = IF retryable \/ probe[i].status # "PROCESSING"
                THEN [probe EXCEPT ![i] = Interrupted(@)]
                ELSE [probe EXCEPT ![i].status = "FAILED", ![i].run = 0]
  /\ request' = [request EXCEPT ![r] = Free]
  /\ UNCHANGED <<config, connection>>

\* reclaimStaleProcessing.
Reclaims(i) ==
  /\ probe[i].status = "PROCESSING"
  /\ probe' = [probe EXCEPT ![i] = Interrupted(@)]
  /\ UNCHANGED <<config, connection, request>>

(***************************************************************************)
(* applyAutomationCallback.                                                *)
(***************************************************************************)
\* n8n answers what it received, once or more; an attempt that is over is refused.
ReadsCallback(r, i, ok) ==
  /\ request[r].pc = "idle"
  /\ probe[i].sent > 0
  /\ probe[i].status = "PROCESSING" /\ probe[i].run = probe[i].attempts
  /\ request' = [request EXCEPT ![r] = [pc |-> "callback", id |-> i, fp |-> config, ok |-> ok]]
  /\ UNCHANGED <<config, probe, connection>>

Equivalent(i) == {j \in DOMAIN probe : probe[j].fp = probe[i].fp}
\* Mutation: any probe of the configuration decides.
AnyEquivalent(i) == TRUE
Latest(i) == \A j \in Equivalent(i) : j <= i

Refused == [status |-> "ERROR", enabled |-> FALSE, fp |-> 0]

\* Mutation: a stale callback overwrites the row.
AlwaysSpoiled(fp) == TRUE
\* The row is not one verified for this configuration.
Spoilable(fp) == ~ connection.enabled \/ connection.status # "CONNECTED" \/ connection.fp # fp

\* Mutation: the fingerprint of the probe is not compared.
AnyFingerprint(r) == TRUE
Matches(r) == probe[request[r].id].fp = request[r].fp

Verdict(r) ==
  LET i == request[r].id IN
  IF Matches(r)
    THEN IF ~ Latest(i) THEN connection
         ELSE IF request[r].ok
                THEN [status |-> "CONNECTED", enabled |-> TRUE, fp |-> request[r].fp]
                ELSE Refused
    ELSE IF Spoilable(request[r].fp) THEN Refused ELSE connection

\* Mutation: with the status of a delivery.
Delivered(r) == "DELIVERED"
\* "configuration_changed": a success of another configuration is a failure.
Outcome(r) == IF request[r].ok /\ Matches(r) THEN "SUCCEEDED" ELSE "FAILED"

AppliesCallback(r) ==
  LET i == request[r].id IN
  /\ request[r].pc = "callback"
  /\ IF probe[i].status = "PROCESSING" /\ probe[i].run = probe[i].attempts
       THEN /\ probe' = [probe EXCEPT ![i].status = Outcome(r), ![i].run = 0]
            /\ connection' = Verdict(r)
       ELSE UNCHANGED <<probe, connection>>
  /\ request' = [request EXCEPT ![r] = Free]
  /\ UNCHANGED config

(***************************************************************************)
(* The environment.                                                        *)
(***************************************************************************)
\* A deployment with another configuration.
Redeploys ==
  /\ Overlapping \/ \A r \in Requests : request[r].pc # "callback"
  /\ config' \in Configs \ {config}
  /\ UNCHANGED <<probe, connection, request>>

\* The process of a request ends.
Dies(r) ==
  /\ request[r].pc # "idle"
  /\ request' = [request EXCEPT ![r] = Free]
  /\ UNCHANGED <<config, probe, connection>>

Next ==
  \/ Redeploys
  \/ \E i \in DOMAIN probe : Reclaims(i)
  \/ \E r \in Requests : \/ \E recent \in BOOLEAN : Asks(r, recent)
                         \/ Emits(r) \/ Limits(r) \/ Claims(r)
                         \/ \E received, ok \in BOOLEAN : Sends(r, received, ok)
                         \/ Records(r) \/ (\E retryable \in BOOLEAN : Closes(r, retryable))
                         \/ AppliesCallback(r) \/ Dies(r)
                         \/ \E i \in DOMAIN probe, ok \in BOOLEAN : ReadsCallback(r, i, ok)

Spec == Init /\ [][Next]_vars

(***************************************************************************)
(* Properties.                                                             *)
(***************************************************************************)
\* isN8nOrganizationReady.
Ready == connection.enabled /\ connection.status = "CONNECTED" /\ connection.fp = config

\* "solo un callback exitoso del probe puede habilitarla": events are sent to n8n only if a
\* probe of the current configuration succeeded.
ReadyByProbe == Ready => \E i \in DOMAIN probe : probe[i].fp = config /\ probe[i].status = "SUCCEEDED"

\* "Un probe nunca se reintenta automáticamente".
SentOnce == \A i \in DOMAIN probe : probe[i].sent <= 1

\* "no puede degradarla aunque los callbacks se crucen": a verified connection is lost only
\* to a failure of the newest probe of its configuration, or to a deployment.
NotDegradedStep ==
  Ready /\ ~ Ready' /\ config' = config =>
    \E i \in DOMAIN probe :
      probe[i].fp = config /\ (\A j \in Equivalent(i) : j <= i) /\ probe[i].status # probe'[i].status
NotDegraded == [][NotDegradedStep]_vars
================================================================================

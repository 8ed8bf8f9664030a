--------------------------- MODULE FirstOrganization ---------------------------
(***************************************************************************)
(* The first organization of a person (organizations/onboarding.ts and the *)
(* transaction of actions/organization.ts), with the other way in, an      *)
(* accepted invitation (actions/team.ts), and the deletion of an           *)
(* organization.  The transaction holds an advisory lock of the person and *)
(* its writes are seen when it commits; the acceptance takes no lock.      *)
(***************************************************************************)
EXTENDS Naturals, FiniteSets

CONSTANTS
  Persons,
  Orgs,
  Invited,      \* the organizations of other people that invited everyone
  Requests,     \* requests that may be running at once
  Duration,     \* TRIAL_DURATION_MS
  MaxTime,      \* bound of the clock
  NoOne

\* What the constants must be, for the instances of this module.
FirstOrganizationAssumption ==
  /\ Invited \subseteq Orgs
  /\ NoOne \notin Persons \cup Orgs \cup Requests
  /\ Duration \in Nat \ {0} /\ MaxTime \in Nat

VARIABLES
  now,
  org,          \* the rows: free, open or deleted; who opened it, end of its trial
  member,       \* the memberships
  trial,        \* UserTrial of each person: the end of the window, 0 when there is none
  lock,         \* the advisory lock of each person
  request,      \* the local state of a request
  opened        \* history: when each person first opened an organization, or MaxTime + 1

vars == <<now, org, member, trial, lock, request, opened>>

Free == [pc |-> "idle", person |-> NoOne, org |-> NoOne]

\* Organizations, memberships and requests keep their types.
TypeOK ==
  /\ now \in 0 .. MaxTime
  /\ org \in [Orgs -> [status : {"free", "open", "deleted"}, by : Persons \cup {NoOne},
                       end : 0 .. MaxTime + Duration]]
  /\ member \subseteq Persons \X Orgs
  /\ trial \in [Persons -> 0 .. MaxTime + Duration]
  /\ lock \in [Persons -> Requests \cup {NoOne}]
  /\ request \in [Requests -> [pc : {"idle", "creating", "accepting"},
                               person : Persons \cup {NoOne}, org : Orgs \cup {NoOne}]]

Init ==
  /\ now = 0
  /\ org = [o \in Orgs |-> [status |-> IF o \in Invited THEN "open" ELSE "free",
                            by |-> NoOne, end |-> 0]]
  /\ member = {}
  /\ trial = [p \in Persons |-> 0]
  /\ lock = [p \in Persons |-> NoOne]
  /\ request = [r \in Requests |-> Free]
  /\ opened = [p \in Persons |-> MaxTime + 1]

Memberships(p) == {o \in Orgs : <<p, o>> \in member}

\* Mutation: only an organization of one's own counts.
OwnsNone(p) == \A o \in Memberships(p) : org[o].by # p
\* findMembership found none.
Unattached(p) == Memberships(p) = {}

Tick ==
  /\ now < MaxTime
  /\ now' = now + 1
  /\ UNCHANGED <<org, member, trial, lock, request, opened>>

(***************************************************************************)
(* createOrganization.                                                     *)
(***************************************************************************)
\* Mutation: the section of a person is not exclusive.
Shared(p) == TRUE
Exclusive(p) == lock[p] = NoOne

\* The lock, then the reading of the membership inside the transaction.
StartsCreate(r, p) ==
  /\ request[r].pc = "idle"
  /\ Exclusive(p)
  /\ Unattached(p)
  /\ lock' = [lock EXCEPT ![p] = r]
  /\ request' = [request EXCEPT ![r] = [pc |-> "creating", person |-> p, org |-> NoOne]]
  /\ UNCHANGED <<now, org, member, trial, opened>>

\* Mutation: each organization opens a window of its own.
FreshWindow(p) == now + Duration
\* "Prueba ÚNICA por cuenta".
InheritedWindow(p) == IF trial[p] = 0 THEN now + Duration ELSE trial[p]

\* Mutation: with the state of an event.
Received == "received"
Open == "open"

Creates(r, o) ==
  LET p == request[r].person IN
  /\ request[r].pc = "creating"
  /\ org[o].status = "free"
  /\ org' = [org EXCEPT ![o] = [status |-> Open, by |-> p, end |-> InheritedWindow(p)]]
  /\ member' = member \cup {<<p, o>>}
  /\ trial' = [trial EXCEPT ![p] = InheritedWindow(p)]
  /\ opened' = [opened EXCEPT ![p] = IF @ > now THEN now ELSE @]
  /\ lock' = [lock EXCEPT ![p] = NoOne]
  /\ request' = [request EXCEPT ![r] = Free]
  /\ UNCHANGED now

\* The transaction fails or its process dies: nothing of it is left.
RollsBack(r) ==
  /\ request[r].pc = "creating"
  /\ lock' = [lock EXCEPT ![request[r].person] = NoOne]
  /\ request' = [request EXCEPT ![r] = Free]
  /\ UNCHANGED <<now, org, member, trial, opened>>

(***************************************************************************)
(* acceptInvitation and deleteOrganization.                                *)
(***************************************************************************)
ReadsInvitation(r, p, o) ==
  /\ request[r].pc = "idle"
  /\ o \in Invited
  /\ org[o].status = "open"
  /\ Unattached(p)
  /\ request' = [request EXCEPT ![r] = [pc |-> "accepting", person |-> p, org |-> o]]
  /\ UNCHANGED <<now, org, member, trial, lock, opened>>

Accepts(r) ==
  /\ request[r].pc = "accepting"
  /\ member' = IF org[request[r].org].status = "open"
                 THEN member \cup {<<request[r].person, request[r].org>>} ELSE member
  /\ request' = [request EXCEPT ![r] = Free]
  /\ UNCHANGED <<now, org, trial, lock, opened>>

\* The trial of the account outlives the organization.
Deletes(p, o) ==
  /\ <<p, o>> \in member
  /\ org[o].by = p
  /\ org' = [org EXCEPT ![o].status = "deleted"]
  /\ member' = {m \in member : m[2] # o}
  /\ UNCHANGED <<now, trial, lock, request, opened>>

Next ==
  \/ Tick
  \/ \E r \in Requests : \/ \E p \in Persons : StartsCreate(r, p)
                         \/ \E o \in Orgs : Creates(r, o)
                         \/ RollsBack(r)
                         \/ \E p \in Persons, o \in Orgs : ReadsInvitation(r, p, o)
                         \/ Accepts(r)
  \/ \E p \in Persons, o \in Orgs : Deletes(p, o)

Spec == Init /\ [][Next]_vars

(***************************************************************************)
(* Properties.                                                             *)
(***************************************************************************)
\* "En esta etapa cada usuario puede pertenecer a una sola": a person is a member of at
\* most one organization.
OneOrganization == \A p \in Persons : Cardinality(Memberships(p)) <= 1

\* "la ventana de 5 días se fija la primera vez y nunca se reinicia": whatever a person
\* deletes and opens again, the trial ends Duration after the first time.
TrialOnce == \A o \in Orgs : org[o].by \in Persons =>
  org[o].end = opened[org[o].by] + Duration
================================================================================

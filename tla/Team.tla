---------------------------------- MODULE Team ----------------------------------
(***************************************************************************)
(* The people of one organization: invitations, roles, the transfer of the *)
(* property, and what leaving or deleting the account does to the          *)
(* organization (actions/team.ts, actions/account.ts, auth/account-        *)
(* deletion.ts, assertCanAddMember of billing/rules.ts).  Every action of  *)
(* the server reads and checks first and writes afterwards; a request is   *)
(* between the two.  The plan is active; its number of seats is fixed.     *)
(***************************************************************************)
EXTENDS Naturals, Sequences, FiniteSets

CONSTANTS
  People,
  Founder,          \* who created the organization
  Requests,         \* requests of the server, each between its read and its write
  Seats,            \* users the plan allows
  MaxInvitations

\* What the constants must be, for the instances of this module.
TeamAssumption ==
  Founder \in People /\ Seats \in Nat \ {0} /\ MaxInvitations \in Nat

VARIABLES
  open,             \* the organization exists
  team,             \* its members, by seniority
  role,             \* their role; of no meaning for who is not a member
  invitation,       \* the invitations: person, role, status, not expired
  request           \* what each request read and is about to write

vars == <<open, team, role, invitation, request>>

Roles == {"OWNER", "ADMIN", "AGENT", "VIEWER"}
Invitations == 1 .. MaxInvitations
Nobody == "nobody"
NoInvitation == [person |-> Nobody, role |-> "VIEWER", status |-> "NONE", live |-> FALSE]
Free == [op |-> "none", by |-> Nobody, who |-> Nobody, role |-> "VIEWER", invitation |-> 0]
Operations == {"invite", "revoke", "accept", "role", "remove", "transfer", "close", "leave",
               "inherit", "erase"}

\* The organization, its invitations and the requests keep their types.
TypeOK ==
  /\ open \in BOOLEAN
  /\ team \in Seq(People) /\ Len(team) <= Cardinality(People)
  /\ role \in [People -> Roles]
  /\ invitation \in [Invitations ->
       [person : People \cup {Nobody}, role : Roles \ {"OWNER"}, live : BOOLEAN,
        status : {"NONE", "PENDING", "ACCEPTED", "REJECTED", "REVOKED"}]]
  /\ request \in [Requests ->
       [op : Operations \cup {"none"}, by : People \cup {Nobody}, who : People \cup {Nobody},
        role : Roles, invitation : 0 .. MaxInvitations]]

Init ==
  /\ open = TRUE
  /\ team = <<Founder>>
  /\ role = [p \in People |-> IF p = Founder THEN "OWNER" ELSE "VIEWER"]
  /\ invitation = [i \in Invitations |-> NoInvitation]
  /\ request = [q \in Requests |-> Free]

Members == {team[k] : k \in 1 .. Len(team)}
\* The members but one, whose row is deleted.
Without(p) ==
  IF p \notin Members THEN team
  ELSE LET k == CHOOSE i \in 1 .. Len(team) : team[i] = p IN
       SubSeq(team, 1, k - 1) \o SubSeq(team, k + 1, Len(team))
\* Mutation: every invitation that has not expired, used or not.
Unexpired == {i \in Invitations : invitation[i].live}
\* The invitations that can be accepted, which reserve a seat.
Waiting == {i \in Invitations : invitation[i].status = "PENDING" /\ invitation[i].live}
Manages(p) == p \in Members /\ role[p] \in {"OWNER", "ADMIN"}
Assignable(r) == CASE r = "OWNER" -> {"ADMIN", "AGENT", "VIEWER"}
                   [] r = "ADMIN" -> {"AGENT", "VIEWER"}
                   [] OTHER -> {}

Reads(q, what) ==
  /\ open
  /\ request[q].op = "none"
  /\ request' = [request EXCEPT ![q] = what]
  /\ UNCHANGED <<open, team, role, invitation>>
Writes(q, op) == open /\ request[q].op = op /\ request' = [request EXCEPT ![q] = Free]

(***************************************************************************)
(* Invitations.                                                            *)
(***************************************************************************)
\* Mutation: the invitations that wait reserve no seat.
SeatOfMember == Cardinality(Members) < Seats
\* assertCanAddMember of an invitation: members and pending invitations.
SeatForInvitation == Cardinality(Members) + Cardinality(Waiting) < Seats

ReadInvite(q, by, p, r) ==
  /\ Manages(by)
  /\ r \in Assignable(role[by])
  /\ p \notin Members
  /\ \A i \in Waiting : invitation[i].person # p
  /\ SeatForInvitation
  /\ Reads(q, [Free EXCEPT !.op = "invite", !.by = by, !.who = p, !.role = r])

\* Mutation: with the status of a follow-up that waits.
Scheduled(p, r) == [person |-> p, role |-> r, status |-> "SCHEDULED", live |-> TRUE]
Invited(p, r) == [person |-> p, role |-> r, status |-> "PENDING", live |-> TRUE]

Invites(q) ==
  /\ Writes(q, "invite")
  /\ \E i \in Invitations :
       /\ invitation[i].status = "NONE"
       /\ \A j \in 1 .. i - 1 : invitation[j].status # "NONE"
       /\ invitation' = [invitation EXCEPT ![i] = Invited(request[q].who, request[q].role)]
  /\ UNCHANGED <<open, team, role>>

Expires(i) ==
  /\ i \in Waiting
  /\ invitation' = [invitation EXCEPT ![i].live = FALSE]
  /\ UNCHANGED <<open, team, role, request>>

\* The invitations the page lists, expired or not.
Listed == {i \in Invitations : invitation[i].status = "PENDING"}

ReadRevoke(q, by, i) ==
  /\ Manages(by)
  /\ i \in Listed
  /\ Reads(q, [Free EXCEPT !.op = "revoke", !.by = by, !.invitation = i])

\* The write does not look at the status again.
Revokes(q) ==
  /\ Writes(q, "revoke")
  /\ invitation' = [invitation EXCEPT ![request[q].invitation].status = "REVOKED"]
  /\ UNCHANGED <<open, team, role>>

\* The invited person refuses: one conditional write.
Rejects(q, i) ==
  /\ open
  /\ request[q].op = "none"
  /\ invitation[i].status = "PENDING"
  /\ invitation' = [invitation EXCEPT ![i].status = "REJECTED"]
  /\ UNCHANGED <<open, team, role, request>>

ReadAccept(q, i) ==
  /\ i \in Waiting
  /\ invitation[i].person \notin Members
  /\ Cardinality(Members) < Seats
  /\ Reads(q, [Free EXCEPT !.op = "accept", !.who = invitation[i].person, !.invitation = i])

\* The membership and the invitation in one transaction, which repeats no check.
Accepts(q) ==
  LET p == request[q].who IN
  /\ Writes(q, "accept")
  /\ p \notin Members
  /\ team' = Append(team, p)
  /\ role' = [role EXCEPT ![p] = invitation[request[q].invitation].role]
  /\ invitation' = [invitation EXCEPT ![request[q].invitation].status = "ACCEPTED"]
  /\ UNCHANGED open

(***************************************************************************)
(* Roles, removal and transfer: the target is checked when it is read.     *)
(***************************************************************************)
\* Mutation: any role but one's own can be changed.
Others(by, p) == p # by
\* What can be done to a member: not to oneself, the owner, or who is above.
Below(by, p) == p # by /\ role[p] \in Assignable(role[by])

\* The members whose role and removal the page offers.
Editable(by, p) == Manages(by) /\ p \in Members /\ Below(by, p)

ReadRole(q, by, p, r) ==
  /\ Editable(by, p)
  /\ r \in Assignable(role[by])
  /\ Reads(q, [Free EXCEPT !.op = "role", !.by = by, !.who = p, !.role = r])

ChangesRole(q) ==
  /\ Writes(q, "role")
  /\ request[q].who \in Members
  /\ role' = [role EXCEPT ![request[q].who] = request[q].role]
  /\ UNCHANGED <<open, team, invitation>>

ReadRemove(q, by, p) ==
  /\ Editable(by, p)
  /\ Reads(q, [Free EXCEPT !.op = "remove", !.by = by, !.who = p])

Removes(q) ==
  /\ Writes(q, "remove")
  /\ request[q].who \in Members
  /\ team' = Without(request[q].who)
  /\ role' = [role EXCEPT ![request[q].who] = "VIEWER"]
  /\ UNCHANGED <<open, invitation>>

ReadTransfer(q, by, p) ==
  /\ by \in Members /\ role[by] = "OWNER"
  /\ p \in Members \ {by}
  /\ Reads(q, [Free EXCEPT !.op = "transfer", !.by = by, !.who = p])

\* Both roles in one transaction, found by the identifiers that were read.
Transfers(q) ==
  /\ Writes(q, "transfer")
  /\ {request[q].by, request[q].who} \subseteq Members
  /\ role' = [role EXCEPT ![request[q].by] = "ADMIN", ![request[q].who] = "OWNER"]
  /\ UNCHANGED <<open, team, invitation>>

(***************************************************************************)
(* The end of the organization or of an account.                           *)
(***************************************************************************)
ReadClose(q, by) ==
  /\ by \in Members /\ role[by] = "OWNER"
  /\ Reads(q, [Free EXCEPT !.op = "close", !.by = by])

Gone ==
  /\ open' = FALSE
  /\ team' = << >>
  /\ role' = [p \in People |-> "VIEWER"]
  /\ invitation' = [i \in Invitations |-> NoInvitation]

Closes(q) == Writes(q, "close") /\ Gone

Rank(r) == CASE r = "OWNER" -> 0 [] r = "ADMIN" -> 1 [] r = "AGENT" -> 2 [] OTHER -> 3
\* Who inherits: the highest role, the oldest of those who have it.
Heir(rest) ==
  rest[CHOOSE k \in 1 .. Len(rest) : \A j \in 1 .. Len(rest) :
         \/ Rank(role[rest[k]]) < Rank(role[rest[j]])
         \/ Rank(role[rest[k]]) = Rank(role[rest[j]]) /\ k <= j]

\* Mutation: the organization goes with its owner.
WithOwner(p) == IF role[p] = "OWNER" THEN <<"erase", Nobody>> ELSE <<"leave", Nobody>>
\* planOrganizationOnAccountDeletion, of the members as they were read.
Plan(p) ==
  LET rest == Without(p) IN
  IF rest = << >> THEN <<"erase", Nobody>>
  ELSE IF role[p] # "OWNER" \/ \E k \in 1 .. Len(rest) : role[rest[k]] = "OWNER"
       THEN <<"leave", Nobody>>
  ELSE <<"inherit", Heir(rest)>>

ReadDelete(q, p) ==
  /\ p \in Members
  /\ Reads(q, [Free EXCEPT !.op = Plan(p)[1], !.by = p, !.who = Plan(p)[2]])

\* The account is deleted with its membership, as planned.
Leaves(q) ==
  /\ Writes(q, "leave")
  /\ team' = Without(request[q].by)
  /\ role' = [role EXCEPT ![request[q].by] = "VIEWER"]
  /\ UNCHANGED <<open, invitation>>

\* An heir who left meanwhile inherits nothing: no row is updated.
Inherits(q) ==
  /\ Writes(q, "inherit")
  /\ role' = [p \in People |-> IF p = request[q].by THEN "VIEWER"
                             ELSE IF p = request[q].who /\ p \in Members THEN "OWNER"
                             ELSE role[p]]
  /\ team' = Without(request[q].by)
  /\ UNCHANGED <<open, invitation>>

Erases(q) == Writes(q, "erase") /\ Gone

\* The row to be written is gone, or the person is a member already.
Aborts(q) ==
  LET x == request[q] IN
  /\ x.op # "none"
  /\ \/ ~ open
     \/ x.op = "accept" /\ x.who \in Members
     \/ x.op \in {"role", "remove", "transfer"} /\ ~ ({x.by, x.who} \subseteq Members)
     \/ x.op = "invite" /\ \A i \in Invitations : invitation[i].status # "NONE"
  /\ request' = [request EXCEPT ![q] = Free]
  /\ UNCHANGED <<open, team, role, invitation>>

Next ==
  \/ \E q \in Requests :
       \/ \E by, p \in People :
            \/ \E r \in Roles : ReadInvite(q, by, p, r) \/ ReadRole(q, by, p, r)
            \/ ReadRemove(q, by, p) \/ ReadTransfer(q, by, p)
       \/ \E by \in People :
            \/ \E i \in Invitations : ReadRevoke(q, by, i)
            \/ ReadClose(q, by) \/ ReadDelete(q, by)
       \/ \E i \in Invitations : ReadAccept(q, i) \/ Rejects(q, i)
       \/ Invites(q) \/ Revokes(q) \/ Accepts(q) \/ ChangesRole(q) \/ Removes(q) \/ Transfers(q)
       \/ Closes(q) \/ Leaves(q) \/ Inherits(q) \/ Erases(q) \/ Aborts(q)
  \/ \E i \in Invitations : Expires(i)

Spec == Init /\ [][Next]_vars

(***************************************************************************)
(* Properties.                                                             *)
(***************************************************************************)
\* "la transacción evita que la organización quede un instante con dos propietarios o con
\* ninguno": whatever members join, change, leave or delete, there is one owner.
OneOwner == open => Cardinality({p \in Members : role[p] = "OWNER"}) = 1

\* "para que no se pueda superar el cupo invitando en paralelo": members and invitations
\* that wait never need more seats than the plan has.
SeatsKept == Cardinality(Members) + Cardinality(Waiting) <= Seats

\* "Las organizaciones compartidas nunca se destruyen": an organization with more people
\* than the one who deletes the account only ends when its owner closes it.
SharedKeptStep == (open /\ ~ open') =>
  \/ Len(team) = 1
  \/ \E q \in Requests : request[q].op = "close" /\ request'[q].op = "none"
SharedKept == [][SharedKeptStep]_vars

\* A person who joins has an invitation that was not revoked or refused.
JoinsByInvitationStep == \A p \in People :
  (\E k \in 1 .. Len(team') : team'[k] = p) /\ p \notin Members =>
    \E i \in Invitations : invitation[i].person = p /\ invitation[i].status = "PENDING"
JoinsByInvitation == [][JoinsByInvitationStep]_vars
=================================================================================

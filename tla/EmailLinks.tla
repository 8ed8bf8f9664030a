------------------------------- MODULE EmailLinks -------------------------------
(***************************************************************************)
(* The single-use links that reach one person by mail: the verification of *)
(* the address (auth/email-verification.ts) and the reset of the password, *)
(* whose tokens Better Auth keeps and lib/auth.ts prunes.  A verification  *)
(* token is created in the transaction that deletes the earlier ones; a    *)
(* reset token is created first and the callback deletes the others.       *)
(* A deletion reaches the rows committed before it.                        *)
(***************************************************************************)
EXTENDS Naturals, FiniteSets

CONSTANTS
  MaxLinks,     \* links issued
  Issuers,      \* requests that send a link
  Consumers,    \* requests that open one
  Kind          \* "verification" or "reset"

\* What the constants must be, for the instances of this module.
LinksAssumption == MaxLinks \in Nat /\ Kind \in {"verification", "reset"}

VARIABLES
  link,         \* the rows: not issued, valid, consumed, expired, or deleted
  last,         \* the last link issued
  issuer,       \* the local state of a request that sends: its link, the rows it deletes
  consumer,     \* the local state of a request that opens: its link
  uses,         \* history: times each link took effect
  verified      \* the address is verified

vars == <<link, last, issuer, consumer, uses, verified>>

Links == 1 .. MaxLinks
Valid == {l \in Links : link[l] = "valid"}
Idle == [pc |-> "idle", link |-> 0, old |-> {}]
Free == [pc |-> "idle", link |-> 0]

\* Links and requests keep their types.
TypeOK ==
  /\ link \in [Links -> {"none", "valid", "consumed", "expired", "deleted"}]
  /\ last \in 0 .. MaxLinks
  /\ issuer \in [Issuers -> [pc : {"idle", "issuing"}, link : 0 .. MaxLinks, old : SUBSET Links]]
  /\ consumer \in [Consumers -> [pc : {"idle", "read", "claimed"}, link : 0 .. MaxLinks]]
  /\ verified \in BOOLEAN

Init ==
  /\ link = [l \in Links |-> "none"]
  /\ last = 0
  /\ issuer = [i \in Issuers |-> Idle]
  /\ consumer = [c \in Consumers |-> Free]
  /\ uses = [l \in Links |-> 0]
  /\ verified = FALSE

(***************************************************************************)
(* Issuing.                                                                *)
(***************************************************************************)
\* The transaction of a verification link deletes what it finds; the new row is not seen
\* by others until it commits.
StartsVerification(i) ==
  /\ Kind = "verification"
  /\ ~ verified
  /\ issuer[i].pc = "idle"
  /\ last < MaxLinks
  /\ issuer' = [issuer EXCEPT ![i] =
       [pc |-> "issuing", link |-> 0, old |-> {l \in Links : link[l] # "none"}]]
  /\ UNCHANGED <<link, last, consumer, uses, verified>>

\* Mutation: the earlier links are not deleted.
KeptOld(i) == {}
DeletedOld(i) == issuer[i].old

\* Mutation: with the status of an event that waits.
Queued == "pending"
New == "valid"

CommitsVerification(i) ==
  /\ Kind = "verification"
  /\ issuer[i].pc = "issuing"
  /\ last < MaxLinks
  /\ link' = [l \in Links |-> IF l = last + 1 THEN New
                             ELSE IF l \in DeletedOld(i) THEN "deleted" ELSE link[l]]
  /\ last' = last + 1
  /\ issuer' = [issuer EXCEPT ![i] = Idle]
  /\ UNCHANGED <<consumer, uses, verified>>

\* Better Auth stores the token of a reset, then calls back.
CreatesReset(i) ==
  /\ Kind = "reset"
  /\ issuer[i].pc = "idle"
  /\ last < MaxLinks
  /\ link' = [link EXCEPT ![last + 1] = New]
  /\ last' = last + 1
  /\ issuer' = [issuer EXCEPT ![i] = [pc |-> "issuing", link |-> last + 1, old |-> {}]]
  /\ UNCHANGED <<consumer, uses, verified>>

\* Mutation: the earlier tokens are left as they are.
NoneDeleted(i) == {}
\* Mutation: the token just issued is deleted with the others.
EveryReset(i) == {l \in Links : link[l] # "none"}
\* Every other token of the user, those issued since included.
OtherResets(i) == {l \in Links : link[l] # "none"} \ {issuer[i].link}
PrunesResets(i) ==
  /\ Kind = "reset"
  /\ issuer[i].pc = "issuing"
  /\ link' = [l \in Links |-> IF l \in OtherResets(i) THEN "deleted" ELSE link[l]]
  /\ issuer' = [issuer EXCEPT ![i] = Idle]
  /\ UNCHANGED <<last, consumer, uses, verified>>

(***************************************************************************)
(* Opening, expiry and purge.                                              *)
(***************************************************************************)
ReadsLink(c, l) ==
  /\ consumer[c].pc = "idle"
  /\ l \in Valid
  /\ consumer' = [consumer EXCEPT ![c] = [pc |-> "read", link |-> l]]
  /\ UNCHANGED <<link, last, issuer, uses, verified>>

\* Mutation: the token is consumed by its hash alone.
AnyRow(l) == link[l] # "deleted"
\* The row is there and not consumed; its expiry was checked when it was read.
Unused(l) == link[l] \in {"valid", "expired"}

Claims(c) ==
  /\ consumer[c].pc = "read"
  /\ Unused(consumer[c].link)
  /\ link' = [link EXCEPT ![consumer[c].link] = "consumed"]
  /\ uses' = [uses EXCEPT ![consumer[c].link] = @ + 1]
  /\ consumer' = [consumer EXCEPT ![c].pc = "claimed"]
  /\ UNCHANGED <<last, issuer, verified>>

Refused(c) ==
  /\ consumer[c].pc = "read"
  /\ ~ Unused(consumer[c].link)
  /\ consumer' = [consumer EXCEPT ![c] = Free]
  /\ UNCHANGED <<link, last, issuer, uses, verified>>

TakesEffect(c) ==
  /\ consumer[c].pc = "claimed"
  /\ verified' = TRUE
  /\ consumer' = [consumer EXCEPT ![c] = Free]
  /\ UNCHANGED <<link, last, issuer, uses>>

\* The process ends between the two writes: the link is spent and nothing is verified.
Dies(c) ==
  /\ consumer[c].pc = "claimed"
  /\ consumer' = [consumer EXCEPT ![c] = Free]
  /\ UNCHANGED <<link, last, issuer, uses, verified>>

Expires(l) ==
  /\ link[l] = "valid"
  /\ link' = [link EXCEPT ![l] = "expired"]
  /\ UNCHANGED <<last, issuer, consumer, uses, verified>>

\* purgeStaleVerificationTokens.
Purges ==
  /\ \E l \in Links : link[l] \in {"expired", "consumed"}
  /\ link' = [l \in Links |-> IF link[l] \in {"expired", "consumed"} THEN "deleted" ELSE link[l]]
  /\ UNCHANGED <<last, issuer, consumer, uses, verified>>

Next ==
  \/ \E i \in Issuers : \/ StartsVerification(i) \/ CommitsVerification(i)
                        \/ CreatesReset(i) \/ PrunesResets(i)
  \/ \E c \in Consumers : \/ \E l \in Links : ReadsLink(c, l)
                          \/ Claims(c) \/ Refused(c) \/ TakesEffect(c) \/ Dies(c)
  \/ \E l \in Links : Expires(l)
  \/ Purges

Spec == Init /\ [][Next]_vars

(***************************************************************************)
(* Properties.                                                             *)
(***************************************************************************)
\* "un único uso": whoever opens a link at once, it takes effect once.
SingleUse == \A l \in Links : uses[l] <= 1

\* "el enlace viejo ... deja de servir en cuanto la persona pide otro": when no request is
\* sending one, only the last link sent is valid.
OnlyNewest == (\A i \in Issuers : issuer[i].pc = "idle") => Valid \subseteq {last}

\* The last link sent is not deleted by a request that sent an earlier one.
LastWorksStep == (last' = last /\ last > 0 /\ link[last] = "valid") =>
  link'[last] # "deleted"
LastWorks == [][LastWorksStep]_vars
=================================================================================

----------------------------- MODULE FollowUpOnce -----------------------------
(***************************************************************************)
(* What the automation promises about the follow-ups of a conversation,    *)
(* whatever the queue, the duplicated calls and the crashes underneath:    *)
(* follow-up f exists only once f - 1 was handed to WhatsApp, it is        *)
(* committed to the provider at most once and only while the customer has  *)
(* not answered, and it is handed over at most once and only after it was  *)
(* committed.  A crash may leave it committed for ever: at most once, not  *)
(* exactly once.                                                           *)
(***************************************************************************)
EXTENDS Naturals, TLAPS

CONSTANT Count      \* how many follow-ups the rule allows
VARIABLES
  phase,            \* of each follow-up
  answered          \* the customer answered

Numbers == 1 .. Count
Phase == {"unscheduled", "waiting", "committed", "handed"}

OnceTypeOK == phase \in [Numbers -> Phase] /\ answered \in BOOLEAN

OnceInit ==
  /\ phase = [f \in Numbers |-> IF f = 1 THEN "waiting" ELSE "unscheduled"]
  /\ answered = FALSE

Move(f, from, to) == phase[f] = from /\ phase' = [phase EXCEPT ![f] = to]

Plan(f) ==
  /\ Move(f, "unscheduled", "waiting")
  /\ ~answered
  /\ IF f = 1 THEN TRUE ELSE phase[f - 1] = "handed"
  /\ UNCHANGED answered
Commit(f) == Move(f, "waiting", "committed") /\ ~answered /\ UNCHANGED answered
Hand(f) == Move(f, "committed", "handed") /\ UNCHANGED answered
Answer == answered' = TRUE /\ UNCHANGED phase

OnceNext == Answer \/ \E f \in Numbers : Plan(f) \/ Commit(f) \/ Hand(f)
OnceSpec == OnceInit /\ [][OnceNext]_<<phase, answered>>

\* Follow-ups come one after the other: who is scheduled comes after follow-ups
\* that were all handed over.
OnceInOrder ==
  \A e, f \in Numbers : e < f /\ phase[f] # "unscheduled" => phase[e] = "handed"

\* A follow-up that moves along leaves the order: if it is born, the one before
\* was handed over and so were all the earlier ones; if not, none after it was
\* born yet.
LEMMA MoveKeepsOrder ==
  ASSUME Count \in Nat, OnceTypeOK, OnceInOrder, NEW f \in Numbers,
         NEW from \in Phase \ {"handed"}, NEW to \in Phase \ {"unscheduled"},
         Move(f, from, to), UNCHANGED answered,
         from = "unscheduled" => f = 1 \/ phase[f - 1] = "handed"
  PROVE  (OnceTypeOK /\ OnceInOrder)'
<1>1. OnceTypeOK'
  BY DEF OnceTypeOK, Move
<1>2. \A g \in Numbers : phase'[g] = IF g = f THEN to ELSE phase[g]
  BY DEF OnceTypeOK, Move
<1>3. \A e \in Numbers : e < f => phase[e] = "handed"
  <2>1. ASSUME NEW e \in Numbers, e < f, from = "unscheduled"
        PROVE  phase[e] = "handed"
    <3>1. f - 1 \in Numbers /\ phase[f - 1] = "handed"
      BY <2>1 DEF Numbers
    <3>2. CASE e = f - 1
      BY <3>1, <3>2
    <3>3. CASE e # f - 1
      <4>1. e < f - 1
        BY <2>1, <3>3 DEF Numbers
      <4> QED BY <3>1, <4>1 DEF OnceInOrder
    <3> QED BY <3>2, <3>3
  <2>2. ASSUME NEW e \in Numbers, e < f, from # "unscheduled"
        PROVE  phase[e] = "handed"
    BY <2>2 DEF OnceInOrder, Move
  <2> QED BY <2>1, <2>2
<1>4. \A g \in Numbers : f < g => phase[g] = "unscheduled"
  BY DEF OnceInOrder, Move
<1>5. ASSUME NEW e \in Numbers, NEW g \in Numbers, e < g,
             phase'[g] # "unscheduled"
      PROVE  phase'[e] = "handed"
  <2>1. CASE g = f
    BY <1>2, <1>3, <1>5, <2>1 DEF Numbers
  <2>2. CASE g # f
    BY <1>2, <1>4, <1>5, <2>2 DEF OnceInOrder
  <2> QED BY <2>1, <2>2
<1> QED BY <1>1, <1>5 DEF OnceInOrder

\* A follow-up is born only when every one before it was handed over.
THEOREM InOrder ==
  ASSUME Count \in Nat
  PROVE  OnceSpec => []OnceInOrder
<1>1. OnceInit => OnceTypeOK /\ OnceInOrder
  <2>1. OnceInit => OnceTypeOK
    BY DEF OnceInit, OnceTypeOK, Phase
  <2>2. OnceInit => OnceInOrder
    <3> SUFFICES ASSUME OnceInit, NEW e \in Numbers, NEW f \in Numbers, e < f,
                        phase[f] # "unscheduled"
                 PROVE  FALSE
      BY DEF OnceInOrder
    <3>1. f = 1
      BY DEF OnceInit
    <3> QED BY <3>1 DEF Numbers
  <2> QED BY <2>1, <2>2
<1>2. OnceTypeOK /\ OnceInOrder /\ [OnceNext]_<<phase, answered>> =>
        (OnceTypeOK /\ OnceInOrder)'
  <2> SUFFICES ASSUME OnceTypeOK, OnceInOrder, [OnceNext]_<<phase, answered>>
               PROVE  (OnceTypeOK /\ OnceInOrder)'
    OBVIOUS
  <2>1. CASE Answer \/ UNCHANGED <<phase, answered>>
    BY <2>1 DEF Answer, OnceTypeOK, OnceInOrder
  <2>2. ASSUME NEW f \in Numbers, Plan(f)
        PROVE  (OnceTypeOK /\ OnceInOrder)'
    BY <2>2, MoveKeepsOrder DEF Plan, Phase
  <2>3. ASSUME NEW f \in Numbers, Commit(f) \/ Hand(f)
        PROVE  (OnceTypeOK /\ OnceInOrder)'
    BY <2>3, MoveKeepsOrder DEF Commit, Hand, Phase
  <2> QED BY <2>1, <2>2, <2>3 DEF OnceNext
<1> QED BY <1>1, <1>2, PTL DEF OnceSpec
==============================================================================

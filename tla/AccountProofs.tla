------------------------------ MODULE AccountProofs ------------------------------
(***************************************************************************)
(* Theorems of the composition of accounts, organizations, plans and the   *)
(* panel (MCAccounts): what its invariants and its action properties say   *)
(* of each part holds for every value of the constants.  A part has an     *)
(* inductive invariant, named after it; a theorem puts together the        *)
(* invariants of the parts that its property is about.                     *)
(***************************************************************************)
EXTENDS MCAccounts, TLAPS, FiniteSetTheorems, SequenceTheorems, WellFoundedInduction

\* The part that moves is chosen at the start.
LEMMA PartStays == [Next]_vars => part' = part
BY DEF Next, vars

\* A step of the composition is a step of the component of its part, or leaves it alone.
LEMMA PartsStep ==
  [Next]_vars =>
    /\ part = "team" => [Roster!Next]_(Roster!vars)
    /\ part = "seats" => [Seated!Next]_(Seated!vars)
    /\ part = "throttle" => [Throttle!Next]_(Throttle!vars)
    /\ part = "attempts" => [Attempts!Next]_(Attempts!vars)
    /\ part = "verification" => [Verification!Next]_(Verification!vars)
    /\ part = "reset" => [Reset!Next]_(Reset!vars)
    /\ part = "first" => [First!Next]_(First!vars)
    /\ part = "invited" => [Guest!Next]_(Guest!vars)
    /\ part = "onboarding" => [Onboarding!Next]_(Onboarding!vars)
    /\ part = "skips" => [Skips!Next]_(Skips!vars)
    /\ part = "reminders" => [Reminders!Next]_(Reminders!vars)
    /\ part = "subscription" => [Subscription!Next]_(Subscription!vars)
    /\ part = "plans" => [PlanChange!Next]_(PlanChange!vars)
    /\ part = "documents" => [Documents!Next]_(Documents!vars)
    /\ part = "document" => [Document!Next]_(Document!vars)
    /\ part = "rules" => [Rules!Next]_(Rules!vars)
    /\ part = "probes" => [Probes!Next]_(Probes!vars)
    /\ part = "catalog" => [Catalog!Next]_(Catalog!vars)
    /\ part = "filters" => [Filters!Next]_(Filters!vars)
    /\ part = "catalogs" => [Catalogs!Next]_(Catalogs!vars)
    /\ part = "figures" => [Figures!Next]_(Figures!vars)
BY DEF Next, vars, teamVars, authVars, mailVars, firstVars, onboardingVars, reminderVars,
   billingVars, knowledgeVars, rulesVars, probesVars, catalogVars, metricsVars,
   Roster!vars, Seated!vars, Throttle!vars, Attempts!vars, Verification!vars, Reset!vars,
   First!vars, Guest!vars, Onboarding!vars, Skips!vars, Reminders!vars, Subscription!vars,
   PlanChange!vars, Documents!vars, Document!vars, Rules!vars, Probes!vars, Catalog!vars,
   Filters!vars, Catalogs!vars, Figures!vars

\* The state a part starts from is the one its component starts from.
LEMMA PartsStart ==
  Init =>
    /\ part = "team" => Roster!Init
    /\ part = "seats" => Seated!Init
    /\ part = "throttle" => Throttle!Init
    /\ part = "attempts" => Attempts!Init
    /\ part = "verification" => Verification!Init
    /\ part = "reset" => Reset!Init
    /\ part = "first" => First!Init
    /\ part = "invited" => Guest!Init
    /\ part = "onboarding" => Onboarding!Init
    /\ part = "skips" => Skips!Init
    /\ part = "reminders" => Reminders!Init
    /\ part = "subscription" => Subscription!Init
    /\ part = "plans" => PlanChange!Init
    /\ part = "documents" => Documents!Init
    /\ part = "document" => Document!Init
    /\ part = "rules" => Rules!Init
    /\ part = "probes" => Probes!Init
    /\ part = "catalog" => Catalog!Init
    /\ part = "filters" => Filters!Init
    /\ part = "catalogs" => Catalogs!Init
    /\ part = "figures" => Figures!Init
BY DEF Init

------------------------------------------------------------------------------
(***************************************************************************)
(* The first organization.                                                 *)
(***************************************************************************)
OrgRows(time) == [status : {"free", "open", "deleted"}, by : Persons \cup {NoOne},
                  end : 0 .. time + Duration]
CreationRequests == [pc : {"idle", "creating", "accepting"},
                     person : Persons \cup {NoOne}, org : Orgs \cup {NoOne}]
\* Why a person has one organization: who creates one holds the lock of the person, who
\* had none when the lock was taken, and only its holder adds one.
CreatorsHold ==
  \A r \in Requests : firstRequest[r].pc # "idle" =>
    LET p == firstRequest[r].person IN
    /\ firstRequest[r].pc = "creating" /\ p \in Persons
    /\ lock[p] = r
    /\ \A o \in Orgs : <<p, o>> \notin member
OneEach == \A p \in Persons, a, b \in Orgs : <<p, a>> \in member /\ <<p, b>> \in member => a = b
\* Why a trial ends Duration after the first time: the window of a person is the one of
\* their first organization, and a person who opened none has none.
WindowsOnce ==
  /\ \A p \in Persons :
       \/ firstTrial[p] = 0 /\ opened[p] = MemberTime + 1
       \/ opened[p] \in 0 .. firstNow /\ firstTrial[p] = opened[p] + Duration
  /\ \A o \in Orgs : org[o].by \in Persons =>
       opened[org[o].by] \in 0 .. firstNow /\ org[o].end = opened[org[o].by] + Duration
FirstShape ==
  /\ firstNow \in 0 .. MemberTime
  /\ org \in [Orgs -> OrgRows(MemberTime)]
  /\ member \subseteq Persons \X Orgs
  /\ firstTrial \in [Persons -> 0 .. MemberTime + Duration]
  /\ opened \in [Persons -> 0 .. MemberTime + 1]
  /\ lock \in [Persons -> Requests \cup {NoOne}]
  /\ firstRequest \in [Requests -> CreationRequests]
FirstInv == FirstShape /\ CreatorsHold /\ OneEach /\ WindowsOnce

\* Nobody has an organization, and no request is under way, at the start.
LEMMA FirstInit == First!Init => FirstInv
BY Bounds DEF First!Init, First!Free, First!FirstOrganizationAssumption, FirstInv, FirstShape,
   CreatorsHold, OneEach, WindowsOnce, OrgRows, CreationRequests

\* Creating, accepting, closing and deleting keep who has an organization and who holds a
\* lock.
LEMMA FirstStep == FirstInv /\ [First!Next]_(First!vars) => FirstInv'
<1> SUFFICES ASSUME FirstInv, [First!Next]_(First!vars) PROVE FirstInv'
  OBVIOUS
<1> USE DEF FirstInv
<1>a. /\ NoOne \notin Persons \cup Orgs \cup Requests
      /\ Duration \in Nat \ {0} /\ MemberTime \in Nat
  BY Bounds DEF First!FirstOrganizationAssumption
<1>1. CASE UNCHANGED First!vars
  BY <1>1 DEF First!vars, FirstShape, CreatorsHold, OneEach, WindowsOnce
<1>2. CASE First!Tick
  BY <1>a, <1>2 DEF First!Tick, FirstShape, CreatorsHold, OneEach, WindowsOnce
<1>3. ASSUME NEW r \in Requests, NEW p \in Persons, First!StartsCreate(r, p)
      PROVE  FirstInv'
  BY <1>a, <1>3 DEF First!StartsCreate, First!Exclusive, First!Unattached, First!Memberships,
     FirstShape, CreatorsHold, OneEach, WindowsOnce, CreationRequests
<1>4. ASSUME NEW r \in Requests, NEW o \in Orgs, First!Creates(r, o)
      PROVE  FirstInv'
  <2> DEFINE p == firstRequest[r].person
  <2>1. /\ p \in Persons /\ lock[p] = r /\ \A b \in Orgs : <<p, b>> \notin member
        /\ firstRequest[r].pc = "creating"
    BY <1>4 DEF First!Creates, CreatorsHold
  <2> DEFINE w == First!InheritedWindow(p)
  <2>2. /\ org' = [org EXCEPT ![o] = [status |-> "open", by |-> p, end |-> w]]
        /\ member' = member \cup {<<p, o>>}
        /\ firstTrial' = [firstTrial EXCEPT ![p] = w]
        /\ opened' = [opened EXCEPT ![p] = IF @ > firstNow THEN firstNow ELSE @]
        /\ lock' = [lock EXCEPT ![p] = NoOne]
        /\ firstRequest' = [firstRequest EXCEPT ![r] = First!Free]
        /\ firstNow' = firstNow
    BY <1>4 DEF First!Creates, First!Open
  <2>3. w = IF firstTrial[p] = 0 THEN firstNow + Duration ELSE firstTrial[p]
    BY DEF First!InheritedWindow
  <2>4. /\ opened'[p] \in 0 .. firstNow /\ w = opened'[p] + Duration
        /\ w \in 0 .. MemberTime + Duration
    BY <1>a, <2>1, <2>2, <2>3 DEF FirstShape, WindowsOnce
  <2>5. \A b \in Orgs : org[b].by = p => opened'[p] = opened[p]
    BY <2>1, <2>2 DEF FirstShape, WindowsOnce
  <2> HIDE DEF p, w
  <2>6. FirstShape'
    BY <1>a, <2>1, <2>2, <2>4 DEF FirstShape, OrgRows, CreationRequests, First!Free
  <2>7. CreatorsHold'
    BY <1>a, <2>1, <2>2 DEF FirstShape, CreatorsHold, First!Free
  <2>8. OneEach'
    BY <2>1, <2>2 DEF FirstShape, OneEach
  <2>9. WindowsOnce'
    BY <1>a, <2>1, <2>2, <2>4, <2>5 DEF FirstShape, WindowsOnce
  <2> QED BY <2>6, <2>7, <2>8, <2>9
<1>5. ASSUME NEW r \in Requests, First!RollsBack(r)
      PROVE  FirstInv'
  BY <1>a, <1>5 DEF First!RollsBack, First!Free, FirstShape, CreatorsHold, OneEach,
     WindowsOnce, CreationRequests
<1>6. ASSUME NEW r \in Requests, First!Accepts(r)
      PROVE  FirstInv'
  BY <1>6 DEF First!Accepts, CreatorsHold
<1>7. ASSUME NEW p \in Persons, NEW o \in Orgs, First!Deletes(p, o)
      PROVE  FirstInv'
  <2>1. /\ org' = [org EXCEPT ![o].status = "deleted"]
        /\ member' = {m \in member : m[2] # o}
        /\ UNCHANGED <<firstNow, firstTrial, lock, firstRequest, opened>>
    BY <1>7 DEF First!Deletes
  <2>2. \A b \in Orgs : org'[b].by = org[b].by /\ org'[b].end = org[b].end
    BY <2>1 DEF FirstShape, OrgRows
  <2>3. org' \in [Orgs -> OrgRows(MemberTime)]
    BY <2>1 DEF FirstShape, OrgRows
  <2> QED BY <2>1, <2>2, <2>3 DEF FirstShape, CreatorsHold, OneEach, WindowsOnce
<1> QED BY <1>1, <1>2, <1>3, <1>4, <1>5, <1>6, <1>7 DEF First!Next, First!ReadsInvitation

\* To count is the same in both instances.
LEMMA FirstCounts ==
  \A S : First!Cardinality(S) = Cardinality(S) /\ Guest!Cardinality(S) = Cardinality(S)
BY DEF First!Cardinality, Guest!Cardinality, Cardinality

\* A set of which any two elements are the same has one at most.
LEMMA AtMostOne ==
  ASSUME NEW S, \A a, b \in S : a = b
  PROVE  Cardinality(S) <= 1
<1>1. CASE S = {}
  BY <1>1, FS_EmptySet
<1>2. CASE S # {}
  <2>1. PICK a \in S : S = {a}
    BY <1>2
  <2>2. Cardinality({a}) = 1
    BY FS_Singleton
  <2> QED BY <2>1, <2>2
<1> QED BY <1>1, <1>2

\* The two promises of the first organization follow from what holds of it.
LEMMA FirstHolds == FirstInv => First!OneOrganization /\ First!TrialOnce
<1> SUFFICES ASSUME FirstInv PROVE First!OneOrganization /\ First!TrialOnce
  OBVIOUS
<1>1. First!TrialOnce
  BY DEF First!TrialOnce, FirstInv, WindowsOnce
<1>2. ASSUME NEW p \in Persons PROVE Cardinality(First!Memberships(p)) <= 1
  <2> DEFINE S == First!Memberships(p)
  <2>1. \A a, b \in S : a = b
    BY DEF FirstInv, OneEach, First!Memberships
  <2> HIDE DEF S
  <2>2. Cardinality(S) <= 1
    BY <2>1, AtMostOne
  <2> QED BY <2>2 DEF S
<1> QED BY <1>1, <1>2, FirstCounts DEF First!OneOrganization

\* The same of one request, that a person was invited with: while it is in progress the
\* person has no organization.
GuestInv ==
  /\ firstRequest \in [{"q"} -> CreationRequests]
  /\ firstRequest["q"].pc # "idle" =>
       \A o \in Orgs : <<firstRequest["q"].person, o>> \notin member
  /\ OneEach

\* The person who was invited starts outside of every organization.
LEMMA GuestInit == Guest!Init => GuestInv
BY DEF Guest!Init, Guest!Free, GuestInv, CreationRequests, OneEach

\* A request of the person who was invited keeps that it is the only one.
LEMMA GuestStep == GuestInv /\ [Guest!Next]_(Guest!vars) => GuestInv'
<1> SUFFICES ASSUME GuestInv, [Guest!Next]_(Guest!vars) PROVE GuestInv'
  OBVIOUS
<1>1. CASE UNCHANGED Guest!vars \/ Guest!Tick
  BY <1>1 DEF Guest!vars, Guest!Tick, GuestInv, OneEach
<1>2. ASSUME NEW r \in {"q"}, NEW p \in Persons, Guest!StartsCreate(r, p)
      PROVE  GuestInv'
  BY <1>2 DEF Guest!StartsCreate, Guest!Unattached, Guest!Memberships, GuestInv, OneEach,
     CreationRequests
<1>3. ASSUME NEW r \in {"q"}, NEW o \in Orgs, Guest!Creates(r, o)
      PROVE  GuestInv'
  <2>1. /\ \A b \in Orgs : <<firstRequest["q"].person, b>> \notin member
        /\ member' = member \cup {<<firstRequest["q"].person, o>>}
        /\ firstRequest' = [firstRequest EXCEPT !["q"] = Guest!Free]
    BY <1>3 DEF Guest!Creates, GuestInv
  <2> QED BY <2>1 DEF GuestInv, OneEach, Guest!Free, CreationRequests
<1>4. ASSUME NEW r \in {"q"}, Guest!RollsBack(r)
      PROVE  GuestInv'
  BY <1>4 DEF Guest!RollsBack, GuestInv, OneEach, Guest!Free, CreationRequests
<1>5. ASSUME NEW r \in {"q"}, NEW p \in Persons, NEW o \in Orgs,
             Guest!ReadsInvitation(r, p, o)
      PROVE  GuestInv'
  BY <1>5 DEF Guest!ReadsInvitation, Guest!Unattached, Guest!Memberships, GuestInv, OneEach,
     CreationRequests
<1>6. ASSUME NEW r \in {"q"}, Guest!Accepts(r)
      PROVE  GuestInv'
  <2>1. /\ \A b \in Orgs : <<firstRequest["q"].person, b>> \notin member
        /\ member' \in {member, member \cup {<<firstRequest["q"].person,
                                               firstRequest["q"].org>>}}
        /\ firstRequest' = [firstRequest EXCEPT !["q"] = Guest!Free]
    BY <1>6 DEF Guest!Accepts, GuestInv
  <2> QED BY <2>1 DEF GuestInv, OneEach, Guest!Free, CreationRequests
<1>7. ASSUME NEW p \in Persons, NEW o \in Orgs, Guest!Deletes(p, o)
      PROVE  GuestInv'
  BY <1>7 DEF Guest!Deletes, GuestInv, OneEach
<1> QED BY <1>1, <1>2, <1>3, <1>4, <1>5, <1>6, <1>7 DEF Guest!Next

\* The person who was invited is a member of one organization at most.
LEMMA GuestHolds == GuestInv => Guest!OneOrganization
<1> SUFFICES ASSUME GuestInv, NEW p \in Persons
             PROVE  Cardinality(Guest!Memberships(p)) <= 1
  BY FirstCounts DEF Guest!OneOrganization
<1> DEFINE S == Guest!Memberships(p)
<1>1. \A a, b \in S : a = b
  BY DEF GuestInv, OneEach, Guest!Memberships
<1> HIDE DEF S
<1>2. Cardinality(S) <= 1
  BY <1>1, AtMostOne
<1> QED BY <1>2 DEF S

------------------------------------------------------------------------------
(***************************************************************************)
(* The guided configuration.                                               *)
(***************************************************************************)
\* The tables hold the data of the steps in the middle alone.
OnboardingInv == data \subseteq 2 .. 6

\* The configuration starts with no data, or with that of three steps in the middle.
LEMMA OnboardingInit == Onboarding!Init => OnboardingInv
BY DEF Onboarding!Init, OnboardingInv

\* The data of a step comes and goes, of the steps in the middle alone.
LEMMA OnboardingStep ==
  OnboardingInv /\ [Onboarding!Next]_(Onboarding!vars) => OnboardingInv'
BY DEF OnboardingInv, Onboarding!Next, Onboarding!vars, Onboarding!Visits, Onboarding!Saves,
   Onboarding!Clears, Onboarding!ReadsSkipped, Onboarding!WritesSkipped,
   Onboarding!ReadsFinish, Onboarding!WritesFinish

\* A required step is pending when it is not done, and the last page comes after all.
LEMMA FinishIsOpen == Onboarding!FinishAgrees
BY DEF Onboarding!FinishAgrees, Onboarding!Locked, Onboarding!CanFinish, Onboarding!Pending,
   Onboarding!Required, Onboarding!Steps, Onboarding!Optional, Onboarding!Finish

\* Of some of the steps there is a first one.
LEMMA FirstOfSteps ==
  ASSUME NEW S, S \subseteq 1 .. 7, S # {}
  PROVE  \E s \in S : \A t \in S : s <= t
<1>1. PICK x \in S : TRUE
  OBVIOUS
<1>2. x \in {1, 2, 3, 4, 5, 6, 7}
  OBVIOUS
<1>3. \A t \in S : t \in {1, 2, 3, 4, 5, 6, 7}
  OBVIOUS
<1>4. CASE 1 \in S BY <1>4
<1>5. CASE 1 \notin S /\ 2 \in S BY <1>3, <1>5
<1>6. CASE 1 \notin S /\ 2 \notin S /\ 3 \in S BY <1>3, <1>6
<1>7. CASE 1 \notin S /\ 2 \notin S /\ 3 \notin S /\ 4 \in S BY <1>3, <1>7
<1>8. CASE 1 \notin S /\ 2 \notin S /\ 3 \notin S /\ 4 \notin S /\ 5 \in S BY <1>3, <1>8
<1>9. CASE /\ 1 \notin S /\ 2 \notin S /\ 3 \notin S /\ 4 \notin S /\ 5 \notin S
  BY <1>1, <1>3, <1>9
<1> QED BY <1>4, <1>5, <1>6, <1>7, <1>8, <1>9

\* While the configuration is open, some step is pending and not locked, and its page is shown.
LEMMA OnboardingHolds == OnboardingInv => Onboarding!RedirectEndsOpen
<1> SUFFICES ASSUME OnboardingInv, ~ Onboarding!Record.completed
             PROVE  ~ Onboarding!Redirects(Onboarding!NextStep)
  BY DEF Onboarding!RedirectEndsOpen, Onboarding!RedirectEnds
<1> DEFINE Steps == 1 .. 7
           waiting == {s \in Onboarding!Required : Onboarding!Pending(s)}
           ready == {s \in Onboarding!Steps : Onboarding!Pending(s) /\ ~ Onboarding!Locked(s)}
<1>1. Onboarding!Pending(7) /\ ~ Onboarding!Pending(1)
  BY DEF Onboarding!Pending, Onboarding!Done, Onboarding!Finish, Onboarding!Optional,
     OnboardingInv
<1>2. ready # {}
  <2>1. waiting \subseteq 1 .. 7 /\ 7 \in waiting
    BY <1>1 DEF Onboarding!Required, Onboarding!Steps, Onboarding!Optional
  <2>2. PICK s \in waiting : \A t \in waiting : s <= t
    <3> HIDE DEF waiting
    <3> QED BY <2>1, FirstOfSteps
  <2>3. ~ Onboarding!Locked(s) /\ s \in Onboarding!Steps
    BY <2>1, <2>2 DEF Onboarding!Locked, Onboarding!Required, Onboarding!Steps
  <2> QED BY <2>2, <2>3
<1>3. PICK s \in ready : \A t \in ready : s <= t
  <2>1. ready \subseteq 1 .. 7
    BY DEF Onboarding!Steps
  <2> HIDE DEF ready
  <2> QED BY <1>2, <2>1, FirstOfSteps
<1>4. Onboarding!NextStep \in ready
  <2>1. Onboarding!NextStep = CHOOSE m \in ready : \A t \in ready : m <= t
    BY <1>2 DEF Onboarding!NextStep
  <2> HIDE DEF ready
  <2> QED BY <1>3, <2>1
<1>5. Onboarding!NextStep # 1 /\ ~ Onboarding!Locked(Onboarding!NextStep)
  BY <1>1, <1>4
<1>6. Onboarding!NextStep = Onboarding!Finish => Onboarding!CanFinish
  BY <1>5, FinishIsOpen DEF Onboarding!FinishAgrees
<1> QED BY <1>5, <1>6 DEF Onboarding!Redirects

\* The organization of a person in the composition: one each, one trial each, however many
\* requests create, accept and delete at once; and the guided configuration always has a
\* page to show, and its end when nothing required is left.
THEOREM OrganizationKeeps == Spec => []OrganizationKept
<1> DEFINE F == part = "first" => FirstInv
           G == part = "invited" => GuestInv
           O == part = "onboarding" => OnboardingInv
<1>1. Init => F /\ G /\ O
  BY PartsStart, FirstInit, GuestInit, OnboardingInit
<1>2. F /\ G /\ O /\ [Next]_vars => F' /\ G' /\ O'
  BY PartStays, PartsStep, FirstStep, GuestStep, OnboardingStep
<1>3. F /\ G /\ O => OrganizationKept
  BY FirstHolds, GuestHolds, OnboardingHolds, FinishIsOpen DEF OrganizationKept
<1> QED BY <1>1, <1>2, <1>3, PTL DEF Spec

------------------------------------------------------------------------------
(***************************************************************************)
(* The documents.                                                          *)
(***************************************************************************)
\* Why the file of a document is there: every file is stored under a key of its own, the
\* keys to be erased were read from the row before it changed, and none is the key of a
\* file still to be written in the row.
Storing == {"create", "replace"}
Erasing == {"replace", "erase", "remove", "erased"}
StatusOfDocument == {"NONE", "UPLOADED", "PROCESSING", "READY", "FAILED", "DISABLED"}
FilesKept ==
  /\ Documents!Exists => doc.key \in files
  /\ \A r \in Requests : knowledgeRequest[r].pc \in Storing =>
       knowledgeRequest[r].new \in files /\ knowledgeRequest[r].new # doc.key
  /\ \A r, s \in Requests :
       /\ knowledgeRequest[r].pc \in Storing /\ knowledgeRequest[s].pc \in Storing /\ r # s =>
            knowledgeRequest[r].new # knowledgeRequest[s].new
       /\ knowledgeRequest[r].pc \in Storing /\ knowledgeRequest[s].pc \in Erasing =>
            knowledgeRequest[r].new # knowledgeRequest[s].key
  /\ \A r \in Requests :
       knowledgeRequest[r].pc \in {"erase", "erased"} /\ Documents!Exists =>
         doc.key # knowledgeRequest[r].key
FilesNumbered ==
  /\ uploads \in Nat /\ files \subseteq 1 .. uploads /\ doc.key \in 0 .. uploads
  /\ \A r \in Requests : /\ knowledgeRequest[r].key \in 0 .. uploads
                         /\ knowledgeRequest[r].new \in 0 .. uploads
DocumentRows == [status : StatusOfDocument, enabled : BOOLEAN, key : Nat, chunks : Nat]
Places == {"idle", "create", "replace", "erase", "remove", "erased", "enable", "disable",
           "retry", "after", "mark", "load", "commit", "fail", "clear"}
KnowledgeRequests(who) ==
  [who -> [pc : Places, key : Nat, new : Nat]]
DocumentsInv ==
  /\ doc \in DocumentRows /\ knowledgeRequest \in KnowledgeRequests(Requests)
  /\ FilesNumbered /\ FilesKept

\* No file is stored and no key is taken at the start.
LEMMA DocumentsInit == Documents!Init => DocumentsInv
BY DEF Documents!Init, Documents!Free, Documents!Absent, Documents!Exists, DocumentsInv,
   FilesNumbered, FilesKept, DocumentRows, KnowledgeRequests, Places, StatusOfDocument, Storing,
   Erasing

\* A request that moves without storing anything keeps what it remembers, or forgets it.
DocumentMoves(r) ==
  /\ knowledgeRequest' \in KnowledgeRequests(Requests)
  /\ \A s \in Requests \ {r} : knowledgeRequest'[s] = knowledgeRequest[s]
  /\ knowledgeRequest'[r].pc \notin Storing
  /\ knowledgeRequest'[r].key \in {0, doc.key, knowledgeRequest[r].key}
  /\ knowledgeRequest'[r].new \in {0, knowledgeRequest[r].new}
  /\ knowledgeRequest'[r].pc \in Erasing =>
       \/ knowledgeRequest'[r].pc = "remove" /\ knowledgeRequest'[r].key = doc.key
       \/ knowledgeRequest[r].pc \in Erasing /\ knowledgeRequest'[r].key = knowledgeRequest[r].key
\* The row keeps its file, takes the one a request had stored for it, or ends.
RowMoves(r) ==
  \/ doc'.status = "NONE" /\ doc'.key \in {0, doc.key}
  \/ Documents!Exists /\ doc'.key = doc.key
  \/ knowledgeRequest[r].pc \in Storing /\ doc'.key = knowledgeRequest[r].new

\* Such a step keeps the files, if it removes none but the one it had to erase.
LEMMA DocumentMovesKeep ==
  ASSUME DocumentsInv, NEW r \in Requests, DocumentMoves(r), doc' \in DocumentRows, RowMoves(r),
         uploads' = uploads,
         \/ /\ files' = files
            /\ knowledgeRequest'[r].pc \in {"erase", "erased"} =>
                 doc'.status = "NONE" \/ doc'.key # knowledgeRequest'[r].key
         \/ /\ knowledgeRequest[r].pc \in {"erase", "erased"} /\ doc' = doc
            /\ files' = files \ {knowledgeRequest[r].key}
            /\ knowledgeRequest'[r].pc \notin Erasing
  PROVE  DocumentsInv'
<1>1. FilesNumbered'
  <2>1. /\ uploads' \in Nat /\ files' \subseteq 1 .. uploads'
    BY DEF DocumentsInv, FilesNumbered
  <2>2. doc'.key \in 0 .. uploads'
    BY DEF DocumentsInv, FilesNumbered, RowMoves
  <2>3. ASSUME NEW s \in Requests
        PROVE  /\ knowledgeRequest'[s].key \in 0 .. uploads'
               /\ knowledgeRequest'[s].new \in 0 .. uploads'
    <3>1. CASE s = r
      BY <3>1 DEF DocumentsInv, FilesNumbered, DocumentMoves
    <3>2. CASE s # r
      BY <3>2 DEF DocumentsInv, FilesNumbered, DocumentMoves
    <3> QED BY <3>1, <3>2
  <2> QED BY <2>1, <2>2, <2>3 DEF FilesNumbered
<1>2. FilesKept'
  <2>1. \A s \in Requests : knowledgeRequest'[s].pc \in Storing =>
          s # r /\ knowledgeRequest[s].pc \in Storing
               /\ knowledgeRequest'[s].new = knowledgeRequest[s].new
    BY DEF DocumentMoves
  <2>2. \A s \in Requests : knowledgeRequest[s].pc \in Storing =>
          knowledgeRequest[s].new # 0 /\ knowledgeRequest[s].new \in files
    BY DEF DocumentsInv, FilesNumbered, FilesKept
  <2>3. \A s \in Requests : knowledgeRequest'[s].pc \in Storing =>
          knowledgeRequest'[s].new \in files' /\ knowledgeRequest'[s].new # doc'.key
    BY <2>1, <2>2 DEF DocumentsInv, FilesKept, RowMoves, Erasing
  <2>4. \A s, t \in Requests :
       /\ knowledgeRequest'[s].pc \in Storing /\ knowledgeRequest'[t].pc \in Storing /\ s # t =>
            knowledgeRequest'[s].new # knowledgeRequest'[t].new
       /\ knowledgeRequest'[s].pc \in Storing /\ knowledgeRequest'[t].pc \in Erasing =>
            knowledgeRequest'[s].new # knowledgeRequest'[t].key
    BY <2>1, <2>2 DEF DocumentsInv, FilesKept, DocumentMoves
  <2>5. doc'.status # "NONE" => doc'.key \in files'
    <3>1. doc'.status # "NONE" => doc'.key \in files
      BY DEF DocumentsInv, FilesKept, RowMoves
    <3> QED BY <3>1 DEF DocumentsInv, FilesKept, Documents!Exists
  <2>6. ASSUME NEW s \in Requests, knowledgeRequest'[s].pc \in {"erase", "erased"},
               doc'.status # "NONE"
        PROVE  doc'.key # knowledgeRequest'[s].key
    <3>1. CASE s = r
      BY <2>6, <3>1 DEF Erasing
    <3>2. CASE s # r
      <4>1. knowledgeRequest'[s] = knowledgeRequest[s]
        BY <3>2 DEF DocumentMoves
      <4> QED BY <2>6, <4>1 DEF DocumentsInv, FilesKept, RowMoves, Erasing
    <3> QED BY <3>1, <3>2
  <2> QED BY <2>3, <2>4, <2>5, <2>6 DEF FilesKept, Documents!Exists
<1> QED BY <1>1, <1>2 DEF DocumentsInv, DocumentMoves

\* How a request moves from one place to another, and how it ends.
LEMMA DocumentsGo ==
  ASSUME DocumentsInv, NEW r \in Requests
  PROVE  /\ \A pc : Documents!At(r, pc) <=> knowledgeRequest[r].pc = pc
         /\ \A pc \in Places : Documents!Goes(r, pc) =>
              /\ knowledgeRequest' \in KnowledgeRequests(Requests)
              /\ \A s \in Requests \ {r} : knowledgeRequest'[s] = knowledgeRequest[s]
              /\ knowledgeRequest'[r].pc = pc
              /\ knowledgeRequest'[r].key = knowledgeRequest[r].key
              /\ knowledgeRequest'[r].new = knowledgeRequest[r].new
         /\ Documents!Stops(r) =>
              /\ knowledgeRequest' \in KnowledgeRequests(Requests)
              /\ \A s \in Requests \ {r} : knowledgeRequest'[s] = knowledgeRequest[s]
              /\ knowledgeRequest'[r] = [pc |-> "idle", key |-> 0, new |-> 0]
BY DEF Documents!Goes, Documents!Stops, Documents!At, Documents!Free, DocumentsInv,
   KnowledgeRequests, Places

\* A request that asks for something, or reads the document, keeps the files.
LEMMA DocumentsAsk ==
  ASSUME DocumentsInv, NEW r \in Requests,
         \/ Documents!AsksRetry(r) \/ Documents!AsksToggle(r) \/ Documents!AsksDelete(r)
         \/ Documents!Reads(r) \/ Documents!Dies(r)
         \/ \E readable \in BOOLEAN : Documents!Extracts(r, readable)
  PROVE  DocumentsInv'
<1>1. doc' = doc /\ uploads' = uploads /\ files' = files
  BY DEF Documents!AsksRetry, Documents!AsksToggle, Documents!AsksDelete,
     Documents!Reads, Documents!Dies, Documents!Extracts
<1>2. DocumentMoves(r) /\ knowledgeRequest'[r].pc \notin {"erase", "erased"}
  <2>1. CASE Documents!AsksRetry(r)
    BY <2>1, DocumentsGo DEF Documents!AsksRetry, DocumentMoves, Places, Storing, Erasing
  <2>2. CASE Documents!AsksToggle(r)
    <3>1. PICK pc \in {"enable", "disable"} : Documents!Goes(r, pc)
      BY <2>2 DEF Documents!AsksToggle, Documents!Offered
    <3> QED BY <2>2, <3>1, DocumentsGo DEF DocumentMoves, Places, Storing, Erasing
  <2>3. CASE Documents!AsksDelete(r)
    BY <2>3 DEF Documents!AsksDelete, DocumentMoves, Storing, Erasing, DocumentsInv,
       KnowledgeRequests, Places, DocumentRows
  <2>4. CASE Documents!Reads(r) /\ Documents!Exists
    BY <2>4 DEF Documents!Reads, DocumentMoves, Storing, Erasing, DocumentsInv,
       KnowledgeRequests, Places, DocumentRows
  <2>5. CASE Documents!Reads(r) /\ ~ Documents!Exists
    <3>1. Documents!Stops(r)
      BY <2>5 DEF Documents!Reads, Documents!Stops
    <3> QED BY <3>1, DocumentsGo DEF DocumentMoves, Storing, Erasing
  <2>6. CASE Documents!Dies(r)
    BY <2>6, DocumentsGo DEF Documents!Dies, DocumentMoves, Storing, Erasing
  <2>7. CASE \E readable \in BOOLEAN : Documents!Extracts(r, readable)
    <3>1. PICK pc \in {"commit", "fail"} : Documents!Goes(r, pc)
      BY <2>7 DEF Documents!Extracts
    <3> QED BY <2>7, <3>1, DocumentsGo DEF DocumentMoves, Places, Storing, Erasing
  <2> QED BY <2>1, <2>2, <2>3, <2>4, <2>5, <2>6, <2>7
<1>3. doc' \in DocumentRows /\ RowMoves(r)
  BY <1>1 DEF DocumentsInv, RowMoves, DocumentRows, Documents!Exists
<1> QED BY <1>1, <1>2, <1>3, DocumentMovesKeep

\* A request that only changes the status, the flag or the fragments keeps the files.
LEMMA DocumentsMark ==
  ASSUME DocumentsInv, NEW r \in Requests,
         \/ Documents!Retries(r) \/ Documents!Toggles(r) \/ Documents!Marks(r)
         \/ Documents!Commits(r) \/ Documents!MarksFailed(r) \/ Documents!Clears(r)
  PROVE  DocumentsInv'
<1>1. uploads' = uploads /\ files' = files
  BY DEF Documents!Retries, Documents!Toggles, Documents!Marks, Documents!Commits,
     Documents!MarksFailed, Documents!Clears
<1>2. \/ \E pc \in {"after", "load", "fail", "clear"} : Documents!Goes(r, pc)
      \/ Documents!Stops(r)
  BY DEF Documents!Retries, Documents!Toggles, Documents!Marks, Documents!Commits,
     Documents!MarksFailed, Documents!Clears
<1>3. DocumentMoves(r) /\ knowledgeRequest'[r].pc \notin {"erase", "erased"}
  <2>1. CASE Documents!Stops(r)
    BY <2>1, DocumentsGo DEF DocumentMoves, Storing, Erasing
  <2>2. CASE \E pc \in {"after", "load", "fail", "clear"} : Documents!Goes(r, pc)
    <3>1. PICK pc \in {"after", "load", "fail", "clear"} : Documents!Goes(r, pc)
      BY <2>2
    <3> QED BY <3>1, DocumentsGo DEF DocumentMoves, Places, Storing, Erasing
  <2> QED BY <1>2, <2>1, <2>2
<1>4. /\ doc' \in DocumentRows /\ doc'.key = doc.key
      /\ doc'.status = "NONE" \/ Documents!Exists
  <2>1. doc \in DocumentRows /\ \A s \in Requests : knowledgeRequest[s].key \in Nat
    BY DEF DocumentsInv, KnowledgeRequests
  <2>2. CASE Documents!Retries(r) \/ Documents!Marks(r) \/ Documents!MarksFailed(r)
    BY <2>1, <2>2 DEF Documents!Retries, Documents!Marks, Documents!MarksFailed,
       Documents!Exists, Documents!Processing, DocumentRows, StatusOfDocument
  <2>3. CASE Documents!Toggles(r)
    BY <2>1, <2>3 DEF Documents!Toggles, Documents!Switched, Documents!At, Documents!Exists,
       DocumentRows, StatusOfDocument
  <2>4. CASE Documents!Commits(r)
    BY <2>1, <2>4 DEF Documents!Commits, Documents!Exists, DocumentRows, StatusOfDocument
  <2>5. CASE Documents!Clears(r)
    BY <2>1, <2>5 DEF Documents!Clears, Documents!Exists, DocumentRows, StatusOfDocument
  <2> QED BY <2>2, <2>3, <2>4, <2>5
<1>5. RowMoves(r)
  BY <1>4 DEF RowMoves
<1> QED BY <1>1, <1>3, <1>4, <1>5, DocumentMovesKeep

\* Storing, replacing and erasing keep the file of the row out of the keys to be erased.
LEMMA DocumentsStep == DocumentsInv /\ [Documents!Next]_(Documents!vars) => DocumentsInv'
<1> SUFFICES ASSUME DocumentsInv, [Documents!Next]_(Documents!vars) PROVE DocumentsInv'
  OBVIOUS
<1>1. CASE UNCHANGED Documents!vars
  BY <1>1 DEF Documents!vars, Documents!Exists, DocumentsInv, FilesNumbered, FilesKept
<1>2. ASSUME NEW r \in Requests, Documents!Stores(r) PROVE DocumentsInv'
  <2>1. /\ uploads' = uploads + 1 /\ files' = files \cup {uploads + 1} /\ doc' = doc
        /\ knowledgeRequest[r].pc = "idle"
        /\ \E pc \in Storing : knowledgeRequest' =
             [knowledgeRequest EXCEPT ![r] = [pc |-> pc, key |-> doc.key, new |-> uploads + 1]]
    BY <1>2 DEF Documents!Stores, Documents!At, Storing
  <2>2. PICK pc \in Storing : knowledgeRequest' =
             [knowledgeRequest EXCEPT ![r] = [pc |-> pc, key |-> doc.key, new |-> uploads + 1]]
    BY <2>1
  <2>3. /\ knowledgeRequest' \in KnowledgeRequests(Requests)
        /\ \A s \in Requests \ {r} : knowledgeRequest'[s] = knowledgeRequest[s]
        /\ knowledgeRequest'[r] = [pc |-> pc, key |-> doc.key, new |-> uploads + 1]
    BY <2>2 DEF DocumentsInv, KnowledgeRequests, FilesNumbered, Storing, DocumentRows, Places
  <2>4. FilesNumbered'
    BY <2>1, <2>3 DEF DocumentsInv, FilesNumbered
  <2>5. \A n \in 0 .. uploads : n # uploads + 1
    BY DEF DocumentsInv, FilesNumbered
  <2>6. FilesKept'
    BY <2>1, <2>3, <2>5 DEF DocumentsInv, FilesNumbered, FilesKept, Documents!Exists, Storing
  <2> QED BY <2>1, <2>3, <2>4, <2>6 DEF DocumentsInv
<1> USE DEF DocumentMoves, RowMoves, Storing, Erasing
<1>3. ASSUME NEW r \in Requests, Documents!Creates(r) \/ Documents!Replaces(r)
      PROVE  DocumentsInv'
  <2>1. /\ uploads' = uploads /\ files' = files
        /\ knowledgeRequest[r].pc \in Storing
        /\ \E pc \in {"after", "erase"} : Documents!Goes(r, pc)
        /\ knowledgeRequest'[r].pc = "erase" => knowledgeRequest[r].pc = "replace"
    BY <1>3, DocumentsGo DEF Documents!Creates, Documents!Replaces, Places
  <2>2. DocumentMoves(r)
    BY <2>1, DocumentsGo DEF Places
  <2>3. /\ doc' \in DocumentRows
        /\ \/ doc'.key = knowledgeRequest[r].new
           \/ doc' = doc /\ doc.status = "NONE"
    <3>1. doc \in DocumentRows /\ knowledgeRequest[r].new \in Nat
      BY DEF DocumentsInv, KnowledgeRequests
    <3>2. \/ doc' = doc /\ doc.status = "NONE"
          \/ doc' = Documents!Uploaded(knowledgeRequest[r].new)
      BY <1>3 DEF Documents!Creates, Documents!Replaces, Documents!Replaced,
         Documents!Exists
    <3>3. /\ Documents!Uploaded(knowledgeRequest[r].new) \in DocumentRows
          /\ Documents!Uploaded(knowledgeRequest[r].new).key = knowledgeRequest[r].new
      BY <3>1 DEF Documents!Uploaded, DocumentRows, StatusOfDocument
    <3> QED BY <3>1, <3>2, <3>3
  <2>4. RowMoves(r)
    BY <2>1, <2>3
  <2>5. knowledgeRequest'[r].pc \in {"erase", "erased"} =>
          doc'.status = "NONE" \/ doc'.key # knowledgeRequest'[r].key
    BY <2>1, <2>3, DocumentsGo DEF Places, DocumentsInv, FilesKept
  <2> QED BY <2>1, <2>2, <2>3, <2>4, <2>5, DocumentMovesKeep
<1>4. ASSUME NEW r \in Requests, Documents!Erases(r) \/ Documents!DeletesFile(r)
      PROVE  DocumentsInv'
  <2>1. /\ uploads' = uploads /\ files' = files \ {knowledgeRequest[r].key} /\ doc' = doc
        /\ knowledgeRequest[r].pc \in {"erase", "erased"}
        /\ Documents!Goes(r, "after") \/ Documents!Stops(r)
    BY <1>4, DocumentsGo DEF Documents!Erases, Documents!DeletesFile, Documents!PreviousFile
  <2>2. DocumentMoves(r) /\ knowledgeRequest'[r].pc \notin Erasing
    BY <2>1, DocumentsGo DEF Places
  <2>3. doc' \in DocumentRows /\ RowMoves(r)
    BY <2>1 DEF DocumentsInv, Documents!Exists
  <2> QED BY <2>1, <2>2, <2>3, DocumentMovesKeep
<1>5. ASSUME NEW r \in Requests, Documents!Deletes(r) PROVE DocumentsInv'
  <2>1. /\ uploads' = uploads /\ files' = files
        /\ doc' = [status |-> "NONE", enabled |-> FALSE, key |-> 0, chunks |-> 0]
        /\ knowledgeRequest[r].pc = "remove"
        /\ Documents!Goes(r, "erased") \/ Documents!Stops(r)
    BY <1>5, DocumentsGo DEF Documents!Deletes, Documents!Absent
  <2>2. DocumentMoves(r)
    BY <2>1, DocumentsGo DEF Places
  <2>3. doc' \in DocumentRows /\ RowMoves(r)
    BY <2>1 DEF DocumentRows, StatusOfDocument
  <2> QED BY <2>1, <2>2, <2>3, DocumentMovesKeep
<1> QED BY <1>1, <1>2, <1>3, <1>4, <1>5, DocumentsAsk, DocumentsMark
        DEF Documents!Next, Documents!Works

\* The document of a row has its file.
LEMMA DocumentsHold == DocumentsInv => Documents!RowHasFile
BY DEF DocumentsInv, FilesKept, Documents!RowHasFile

\* One request at a time: what it does to the document is known from where it is.  A document
\* that can be found, or enabled, has the fragments of its file; a request that is to process
\* it works on that file; and nobody processes a document that is disabled.
DocumentAt(d, q) ==
  /\ d.status # "NONE" => d.key # 0
  /\ d.status = "DISABLED" => d.enabled = FALSE
  /\ d.status \notin {"NONE", "DISABLED"} => d.enabled = TRUE
  /\ d.status \in {"READY", "DISABLED"} => d.chunks # 0 /\ d.chunks = d.key
  /\ q.pc \in Storing => q.new # 0
  /\ q.pc = "enable" => d.status = "DISABLED"
  /\ q.pc = "disable" => d.status = "READY"
  /\ q.pc \in {"retry", "erase", "after", "mark", "load", "commit", "fail"} =>
       d.status # "DISABLED"
  /\ q.pc \in {"mark", "load", "commit", "fail"} => d.status # "NONE"
  /\ q.pc \in {"mark", "load", "commit"} => q.key = d.key /\ d.key # 0
  /\ q.pc = "clear" => d.status = "FAILED"
DocumentInv ==
  /\ doc \in DocumentRows /\ knowledgeRequest \in KnowledgeRequests({"q"}) /\ uploads \in Nat
  /\ DocumentAt(doc, knowledgeRequest["q"])

\* There is no document, with no fragments, at the start.
LEMMA DocumentInit == Document!Init => DocumentInv
BY DEF Document!Init, Document!Free, Document!Absent, DocumentInv, DocumentAt, DocumentRows,
   KnowledgeRequests, Places, StatusOfDocument, Storing

\* Every request keeps the fragments of a document those of its file while it is ready.
LEMMA DocumentStep == DocumentInv /\ [Document!Next]_(Document!vars) => DocumentInv'
<1> SUFFICES ASSUME DocumentInv, [Document!Next]_(Document!vars) PROVE DocumentInv'
  OBVIOUS
<1>1. CASE UNCHANGED Document!vars
  BY <1>1 DEF Document!vars, DocumentInv
<1> DEFINE q == knowledgeRequest["q"]
\* The request moves from one place to another, or ends.
<1>a. /\ \A pc \in Places : Document!Goes("q", pc) =>
            /\ knowledgeRequest' \in KnowledgeRequests({"q"})
            /\ knowledgeRequest'["q"].pc = pc
            /\ knowledgeRequest'["q"].key = q.key /\ knowledgeRequest'["q"].new = q.new
      /\ Document!Stops("q") =>
            knowledgeRequest' \in KnowledgeRequests({"q"}) /\ knowledgeRequest'["q"].pc = "idle"
      /\ \A pc : Document!At("q", pc) <=> q.pc = pc
  BY DEF Document!Goes, Document!Stops, Document!At, Document!Free, DocumentInv,
     KnowledgeRequests, Places
<1>b. /\ doc \in DocumentRows /\ knowledgeRequest \in KnowledgeRequests({"q"}) /\ uploads \in Nat
      /\ DocumentAt(doc, q) /\ q.key \in Nat /\ q.new \in Nat
  BY DEF DocumentInv, KnowledgeRequests
<1> USE DEF DocumentAt, Document!Exists, DocumentRows, StatusOfDocument, Storing, Places
<1>2. CASE Document!Stores("q")
  <2>1. /\ uploads' = uploads + 1 /\ doc' = doc
        /\ \E pc \in {"create", "replace"} : knowledgeRequest' =
             [knowledgeRequest EXCEPT !["q"] =
               [pc |-> pc, key |-> doc.key, new |-> uploads + 1]]
    BY <1>2 DEF Document!Stores
  <2>2. PICK pc \in {"create", "replace"} : knowledgeRequest' =
             [knowledgeRequest EXCEPT !["q"] =
               [pc |-> pc, key |-> doc.key, new |-> uploads + 1]]
    BY <2>1
  <2>3. /\ knowledgeRequest' \in KnowledgeRequests({"q"})
        /\ knowledgeRequest'["q"] = [pc |-> pc, key |-> doc.key, new |-> uploads + 1]
    BY <1>b, <2>2 DEF KnowledgeRequests
  <2> QED BY <1>b, <2>1, <2>3 DEF DocumentInv
<1>3. CASE Document!Creates("q")
  BY <1>a, <1>b, <1>3 DEF Document!Creates, Document!Uploaded, DocumentInv
<1>4. CASE Document!Replaces("q")
  BY <1>a, <1>b, <1>4 DEF Document!Replaces, Document!Uploaded, Document!Replaced, DocumentInv
<1>5. CASE Document!Erases("q")
  BY <1>a, <1>b, <1>5 DEF Document!Erases, DocumentInv
<1>6. CASE Document!AsksRetry("q")
  BY <1>a, <1>b, <1>6 DEF Document!AsksRetry, Document!Offered, DocumentInv
<1>7. CASE Document!AsksToggle("q")
  <2>1. PICK what \in Document!Offered \ {"retry"} : Document!Goes("q", what)
    BY <1>7 DEF Document!AsksToggle
  <2>2. /\ \/ what = "enable" /\ doc.status = "DISABLED"
           \/ what = "disable" /\ doc.status = "READY"
        /\ doc' = doc /\ uploads' = uploads
    BY <1>7, <2>1 DEF Document!Offered, Document!AsksToggle
  <2> QED BY <1>a, <1>b, <2>1, <2>2 DEF DocumentInv
<1>8. CASE Document!AsksDelete("q")
  <2>1. /\ knowledgeRequest' \in KnowledgeRequests({"q"})
        /\ knowledgeRequest'["q"] = [pc |-> "remove", key |-> doc.key, new |-> 0]
    BY <1>b, <1>8 DEF Document!AsksDelete, KnowledgeRequests
  <2> QED BY <1>b, <1>8, <2>1 DEF Document!AsksDelete, DocumentInv
<1>9. CASE Document!Retries("q")
  BY <1>a, <1>b, <1>9 DEF Document!Retries, DocumentInv
<1>10. CASE Document!Toggles("q")
  <2>1. CASE Document!At("q", "enable")
    <3>1. doc' = [doc EXCEPT !.enabled = TRUE, !.status = "READY"]
      BY <1>a, <1>b, <1>10, <2>1 DEF Document!Toggles, Document!Switched
    <3> QED BY <1>a, <1>b, <1>10, <2>1, <3>1 DEF Document!Toggles, DocumentInv
  <2>2. CASE ~ Document!At("q", "enable")
    <3>0. Document!At("q", "enable") = FALSE
      BY <2>2 DEF Document!At
    <3>1. doc' = [doc EXCEPT !.enabled = FALSE, !.status = "DISABLED"] /\ q.pc = "disable"
      BY <1>a, <1>b, <1>10, <3>0 DEF Document!Toggles, Document!Switched
    <3> QED BY <1>a, <1>b, <1>10, <3>1 DEF Document!Toggles, DocumentInv
  <2> QED BY <2>1, <2>2
<1>11. CASE Document!Deletes("q")
  BY <1>a, <1>b, <1>11 DEF Document!Deletes, Document!Absent, DocumentInv
<1>12. CASE Document!DeletesFile("q") \/ Document!Dies("q")
  BY <1>a, <1>b, <1>12 DEF Document!DeletesFile, Document!Dies, DocumentInv
<1>13. CASE Document!Reads("q")
  <2>1. /\ knowledgeRequest' \in KnowledgeRequests({"q"})
        /\ knowledgeRequest'["q"] = IF Document!Exists
              THEN [pc |-> "mark", key |-> doc.key, new |-> 0]
              ELSE [pc |-> "idle", key |-> 0, new |-> 0]
    BY <1>b, <1>13 DEF Document!Reads, Document!Free, KnowledgeRequests
  <2> QED BY <1>a, <1>b, <1>13, <2>1 DEF Document!Reads, DocumentInv
<1>14. CASE Document!Marks("q")
  BY <1>a, <1>b, <1>14 DEF Document!Marks, Document!Processing, DocumentInv
<1>15. CASE Document!Commits("q")
  BY <1>a, <1>b, <1>15 DEF Document!Commits, DocumentInv
<1>16. CASE \E readable \in BOOLEAN : Document!Extracts("q", readable)
  <2>1. PICK pc \in {"commit", "fail"} : Document!Goes("q", pc)
    BY <1>16 DEF Document!Extracts
  <2> QED BY <1>a, <1>b, <1>16, <2>1 DEF Document!Extracts, DocumentInv
<1>17. CASE Document!MarksFailed("q")
  BY <1>a, <1>b, <1>17 DEF Document!MarksFailed, DocumentInv
<1>18. CASE Document!Clears("q")
  BY <1>a, <1>b, <1>18 DEF Document!Clears, DocumentInv
<1> QED BY <1>1, <1>2, <1>3, <1>4, <1>5, <1>6, <1>7, <1>8, <1>9, <1>10, <1>11, <1>12, <1>13,
           <1>14, <1>15, <1>16, <1>17, <1>18 DEF Document!Next, Document!Works

\* A ready document has its fragments, they are of its file, and its flag is its status.
LEMMA DocumentHolds ==
  DocumentInv => Document!ReadyHasChunks /\ Document!CurrentText /\ Document!FlagAgrees
<1>1. DocumentInv => Document!ReadyHasChunks /\ Document!CurrentText
  BY DEF DocumentInv, DocumentAt, Document!ReadyHasChunks, Document!CurrentText, Document!Searchable
<1>2. ASSUME DocumentInv, Document!Exists
      PROVE  doc.enabled <=> doc.status # "DISABLED"
  <2>1. CASE doc.status = "DISABLED"
    <3>1. doc.enabled = FALSE
      BY <1>2, <2>1 DEF DocumentInv, DocumentAt
    <3> QED BY <2>1, <3>1
  <2>2. CASE doc.status # "DISABLED"
    <3>1. doc.enabled = TRUE
      BY <1>2, <2>2 DEF DocumentInv, DocumentAt, Document!Exists
    <3> QED BY <2>2, <3>1
  <2> QED BY <2>1, <2>2
<1> QED BY <1>1, <1>2 DEF Document!FlagAgrees

\* The documents in the composition: the file of a document is in the storage whatever is
\* replaced and deleted at once; and, one request after another, a document is READY with the
\* fragments of its own file, and its flag and its status agree.
THEOREM KnowledgeKeeps == Spec => []KnowledgeKept
<1> DEFINE D == part = "documents" => DocumentsInv
           E == part = "document" => DocumentInv
<1>1. Init => D /\ E
  BY PartsStart, DocumentsInit, DocumentInit
<1>2. D /\ E /\ [Next]_vars => D' /\ E'
  BY PartStays, PartsStep, DocumentsStep, DocumentStep
<1>3. D /\ E => KnowledgeKept
  BY DocumentsHold, DocumentHolds DEF KnowledgeKept
<1> QED BY <1>1, <1>2, <1>3, PTL DEF Spec

------------------------------------------------------------------------------
(***************************************************************************)
(* The figures.                                                            *)
(***************************************************************************)
\* To be a multiple below is to be a quotient below, for every length of a day.
LEMMA Quotient ==
  ASSUME NEW n \in Nat, NEW d \in Nat \ {0}
  PROVE  /\ n \div d \in Nat
         /\ \A k \in Nat : k <= n \div d <=> k * d <= n
<1> DEFINE q == n \div d
<1>1. q \in Nat /\ q * d <= n /\ n < (q + 1) * d
  OBVIOUS
<1>2. ASSUME NEW k \in Nat PROVE k <= q <=> k * d <= n
  <2> HIDE DEF q
  <2>1. ASSUME k <= q PROVE k * d <= n
    <3>1. k * d <= q * d
      BY <1>1, <2>1
    <3>2. k * d \in Nat /\ q * d \in Nat
      BY <1>1
    <3> QED BY <1>1, <3>1, <3>2
  <2>2. ASSUME ~ (k <= q) PROVE ~ (k * d <= n)
    <3>1. q + 1 <= k
      BY <1>1, <2>2
    <3>2. (q + 1) * d <= k * d
      BY <1>1, <3>1
    <3>3. k * d \in Nat /\ (q + 1) * d \in Nat
      BY <1>1
    <3> QED BY <1>1, <3>2, <3>3
  <2> QED BY <2>1, <2>2
<1> QED BY <1>1, <1>2

ConversationRows == [status : {"NONE", "OPEN", "PENDING", "CLOSED"}, mode : {"AI", "HUMAN"},
                     created : Nat, closed : Nat, takeover : Nat]
\* A conversation was opened from the second day on, and has a date of closing while closed.
FiguresInv ==
  /\ metricsNow \in DayTicks .. FiguresTime
  /\ conversation \in [Conversations -> ConversationRows]
  /\ \A c \in Conversations :
       /\ conversation[c].status # "NONE" =>
            conversation[c].created \in DayTicks .. FiguresTime
       /\ conversation[c].closed # 0 <=> conversation[c].status = "CLOSED"

\* A day has a length, and one day at least passes before the last instant.
LEMMA FiguresConstants ==
  /\ DayTicks \in Nat \ {0} /\ Offset \in Nat /\ Offset < DayTicks
  /\ FiguresTime \in Nat /\ DayTicks <= FiguresTime
BY Bounds DEF Figures!MetricsAssumption

\* There are no conversations at the start.
LEMMA FiguresInit == Figures!Init => FiguresInv
BY FiguresConstants DEF Figures!Init, Figures!NoConversation, FiguresInv, ConversationRows

\* A conversation that opens, closes or opens again is dated.
LEMMA FiguresStep == FiguresInv /\ [Figures!Next]_(Figures!vars) => FiguresInv'
<1> SUFFICES ASSUME FiguresInv, [Figures!Next]_(Figures!vars) PROVE FiguresInv'
  OBVIOUS
<1>1. CASE UNCHANGED Figures!vars \/ Figures!Tick
  BY <1>1, FiguresConstants DEF Figures!vars, Figures!Tick, FiguresInv
<1>2. \A c \in Conversations : conversation[c] \in ConversationRows
  BY DEF FiguresInv
<1>3. ASSUME NEW c \in Conversations, NEW row, row \in ConversationRows,
             metricsNow' = metricsNow, conversation' = [conversation EXCEPT ![c] = row],
             row.status # "NONE" => row.created \in DayTicks .. FiguresTime,
             row.closed = 0 => row.status # "CLOSED",
             row.closed # 0 => row.status = "CLOSED"
      PROVE  FiguresInv'
  <2>1. conversation' \in [Conversations -> ConversationRows]
    BY <1>3 DEF FiguresInv
  <2>2. \A d \in Conversations : conversation'[d] = IF d = c THEN row ELSE conversation[d]
    BY <1>3 DEF FiguresInv
  <2> QED BY <1>3, <2>1, <2>2 DEF FiguresInv
<1>4. ASSUME NEW c \in Conversations, Figures!Opens(c)
      PROVE  FiguresInv'
  <2> DEFINE row == [conversation[c] EXCEPT !.status = "OPEN", !.created = metricsNow]
  <2>1. /\ conversation[c].status = "NONE" /\ metricsNow' = metricsNow
        /\ conversation' = [conversation EXCEPT ![c] = row]
    BY <1>4 DEF Figures!Opens, Figures!Status
  <2>2. /\ row \in ConversationRows /\ row.created = metricsNow /\ row.status = "OPEN"
        /\ row.closed = conversation[c].closed
    <3>1. metricsNow \in Nat
      BY FiguresConstants DEF FiguresInv
    <3> QED BY <1>2, <3>1 DEF ConversationRows
  <2>3. conversation[c].closed = 0
    BY <2>1 DEF FiguresInv
  <2> HIDE DEF row
  <2> QED BY <1>3, <2>1, <2>2, <2>3 DEF FiguresInv
<1>5. ASSUME NEW c \in Conversations, Figures!Takes(c) \/ Figures!GivesBack(c)
      PROVE  FiguresInv'
  <2>1. PICK mode \in {"AI", "HUMAN"}, t \in Nat :
        /\ metricsNow' = metricsNow
        /\ conversation' = [conversation EXCEPT ![c] =
             [conversation[c] EXCEPT !.mode = mode, !.takeover = t]]
    <3>1. CASE Figures!Takes(c)
      <4>1. metricsNow \in Nat
        BY FiguresConstants DEF FiguresInv
      <4> QED BY <3>1, <4>1 DEF Figures!Takes
    <3>2. CASE Figures!GivesBack(c)
      BY <3>2 DEF Figures!GivesBack
    <3> QED BY <1>5, <3>1, <3>2
  <2> DEFINE row == [conversation[c] EXCEPT !.mode = mode, !.takeover = t]
  <2>2. /\ row \in ConversationRows /\ row.created = conversation[c].created
        /\ row.status = conversation[c].status /\ row.closed = conversation[c].closed
    BY <1>2 DEF ConversationRows
  <2> HIDE DEF row
  <2> QED BY <1>3, <2>1, <2>2 DEF FiguresInv, row
<1>6. ASSUME NEW c \in Conversations, NEW status \in Figures!Assigned,
             Figures!SetsStatus(c, status)
      PROVE  FiguresInv'
  <2> DEFINE row == [conversation[c] EXCEPT !.status = status,
                       !.closed = Figures!ClosedAt(c, status)]
  <2>1. /\ conversation[c].status # "NONE" /\ metricsNow' = metricsNow
        /\ conversation' = [conversation EXCEPT ![c] = row]
    BY <1>6 DEF Figures!SetsStatus, Figures!Status
  <2>2. metricsNow \in Nat \ {0}
    BY FiguresConstants DEF FiguresInv
  <2>3. /\ Figures!ClosedAt(c, status) \in Nat
        /\ Figures!ClosedAt(c, status) = 0 => status # "CLOSED"
        /\ Figures!ClosedAt(c, status) # 0 => status = "CLOSED"
    BY <2>2 DEF Figures!ClosedAt
  <2>4. /\ row \in ConversationRows /\ row.created = conversation[c].created
        /\ row.status = status /\ row.closed = Figures!ClosedAt(c, status)
    BY <1>2, <2>3 DEF ConversationRows, Figures!Assigned
  <2> HIDE DEF row
  <2> QED BY <1>3, <2>1, <2>3, <2>4 DEF FiguresInv
<1> QED BY <1>1, <1>4, <1>5, <1>6 DEF Figures!Next

\* The day of an instant is the last that begins before it.
LEMMA DayOfInstant ==
  ASSUME NEW t \in DayTicks .. FiguresTime
  PROVE  /\ Figures!DayOf(t) \in Nat
         /\ \A k \in Nat : k <= Figures!DayOf(t) <=> k * DayTicks + Offset <= t
<1>1. t - Offset \in Nat
  BY FiguresConstants
<1>2. \A k \in Nat : k * DayTicks \in Nat
  BY FiguresConstants
<1>3. /\ (t - Offset) \div DayTicks \in Nat
      /\ \A k \in Nat : k <= (t - Offset) \div DayTicks <=> k * DayTicks <= t - Offset
  BY <1>1, Quotient, FiguresConstants
<1>4. Figures!DayOf(t) = (t - Offset) \div DayTicks
  BY DEF Figures!DayOf
<1> QED BY <1>2, <1>3, <1>4, FiguresConstants

\* The three promises of the figures follow from the types of the conversations.
LEMMA FiguresHold ==
  FiguresInv => Figures!DayIsItsRange /\ Figures!TodayIsOneDay /\ Figures!ResolvedAreClosed
<1> SUFFICES ASSUME FiguresInv
             PROVE  /\ Figures!DayIsItsRange /\ Figures!TodayIsOneDay
                    /\ Figures!ResolvedAreClosed
  OBVIOUS
<1> DEFINE At(c) == conversation[c].created
           DayC(c) == Figures!DayOf(At(c))
<1>1. Figures!ResolvedAreClosed
  BY DEF Figures!ResolvedAreClosed, Figures!Resolved, Figures!Status, FiguresInv
<1>2. \A c \in Conversations : conversation[c].status # "NONE" =>
        /\ At(c) \in DayTicks .. FiguresTime /\ At(c) \in 0 .. FiguresTime /\ DayC(c) \in Nat
        /\ \A k \in Nat : k <= DayC(c) <=> k * DayTicks + Offset <= At(c)
  BY DayOfInstant, FiguresConstants DEF FiguresInv
<1>3. ASSUME NEW first \in Figures!Days, NEW final \in Figures!Days, first <= final
      PROVE  Figures!Received(Figures!Custom(first, final)) =
               UNION {Figures!OfDay(0 .. FiguresTime, day) : day \in first .. final}
  <2>1. first \in Nat /\ final \in Nat /\ final + 1 \in Nat
    <3>1. FiguresTime \div DayTicks \in Nat
      BY Quotient, FiguresConstants
    <3> QED BY <3>1 DEF Figures!Days
  <2>2. \A k \in Nat : k * DayTicks + Offset \in Nat
    BY FiguresConstants
  <2> DEFINE low == first * DayTicks + Offset
             high == (final + 1) * DayTicks + Offset
  <2>3. Figures!Custom(first, final) = low .. high - 1 /\ low \in Nat /\ high \in Nat
    <3>1. low \in Nat
      BY <2>1, <2>2
    <3>2. high \in Nat
      BY <2>1, <2>2
    <3>3. Figures!Custom(first, final) = low .. high - 1
      BY <2>1, <3>1, <3>2, FiguresConstants DEF Figures!Custom
    <3> QED BY <3>1, <3>2, <3>3
  <2>4. ASSUME NEW c \in Conversations, conversation[c].status # "NONE"
        PROVE  At(c) \in low .. high - 1 <=> DayC(c) \in first .. final
    <3>1. /\ At(c) \in Nat /\ DayC(c) \in Nat
          /\ first <= DayC(c) <=> low <= At(c)
          /\ final + 1 <= DayC(c) <=> high <= At(c)
      BY <1>2, <2>1, <2>4, FiguresConstants
    <3> HIDE DEF At, DayC, low, high
    <3> QED BY <2>1, <2>3, <3>1
  <2> HIDE DEF low, high, At, DayC
  <2>5. ASSUME NEW c \in Figures!Received(Figures!Custom(first, final))
        PROVE  \E day \in first .. final : c \in Figures!OfDay(0 .. FiguresTime, day)
    <3>1. c \in Conversations /\ conversation[c].status # "NONE" /\ At(c) \in low .. high - 1
      BY <2>3, <2>5 DEF Figures!Received, Figures!Status, At
    <3>2. DayC(c) \in first .. final
      BY <2>4, <3>1
    <3>3. c \in Figures!OfDay(0 .. FiguresTime, DayC(c))
      BY <1>2, <3>1 DEF Figures!OfDay, Figures!Received, Figures!Status, At, DayC
    <3> QED BY <3>2, <3>3
  <2>6. ASSUME NEW day \in first .. final, NEW c \in Figures!OfDay(0 .. FiguresTime, day)
        PROVE  c \in Figures!Received(Figures!Custom(first, final))
    <3>1. c \in Conversations /\ conversation[c].status # "NONE" /\ DayC(c) = day
      BY <2>6 DEF Figures!OfDay, Figures!Received, Figures!Status, At, DayC
    <3>2. At(c) \in low .. high - 1
      BY <2>4, <3>1
    <3> QED BY <2>3, <3>1, <3>2 DEF Figures!Received, Figures!Status, At
  <2> QED BY <2>5, <2>6
<1>4. Figures!TodayIsOneDay
  <2> DEFINE today == Figures!DayOf(metricsNow)
  <2>1. /\ metricsNow \in Nat /\ today \in Nat
        /\ \A k \in Nat : k <= today <=> k * DayTicks + Offset <= metricsNow
    BY DayOfInstant, FiguresConstants DEF FiguresInv
  <2>2. \A k \in Nat : k * DayTicks + Offset \in Nat
    BY FiguresConstants
  <2>3. Figures!Today = today * DayTicks + Offset .. metricsNow - 1
    BY DEF Figures!Today, Figures!LocalMidnight
  <2>4. ASSUME NEW c \in Conversations, conversation[c].status # "NONE"
        PROVE  At(c) \in Figures!Today <=> DayC(c) = today /\ At(c) < metricsNow
    <3>1. /\ At(c) \in Nat /\ DayC(c) \in Nat
          /\ \A k \in Nat : k <= DayC(c) <=> k * DayTicks + Offset <= At(c)
      BY <1>2, <2>4, FiguresConstants
    <3> HIDE DEF At, DayC, today
    <3>2. today <= DayC(c) <=> today * DayTicks + Offset <= At(c)
      BY <2>1, <3>1
    <3>3. DayC(c) * DayTicks + Offset <= At(c)
      BY <3>1
    <3>4. At(c) < metricsNow => DayC(c) <= today
      <4>1. DayC(c) * DayTicks + Offset \in Nat
        BY <2>2, <3>1
      <4>2. At(c) < metricsNow => DayC(c) * DayTicks + Offset <= metricsNow
        BY <2>1, <3>1, <3>3, <4>1
      <4> QED BY <2>1, <3>1, <4>2
    <3>5. today * DayTicks + Offset \in Nat
      BY <2>1, <2>2
    <3> DEFINE midnight == today * DayTicks + Offset
    <3> HIDE DEF midnight
    <3> QED BY <2>1, <2>3, <3>1, <3>2, <3>4, <3>5 DEF midnight
  <2> HIDE DEF today
  <2> QED BY <1>2, <2>4 DEF Figures!TodayIsOneDay, Figures!Received, Figures!OfDay,
         Figures!Status, today
<1> QED BY <1>1, <1>3, <1>4 DEF Figures!DayIsItsRange

------------------------------------------------------------------------------
(***************************************************************************)
(* The test of the connection.                                             *)
(***************************************************************************)
ProbeRows == [fp : Configs, after : Nat, status : Probes!Statuses, attempts : Nat, max : Nat,
              run : Nat, sent : Nat]
ProbePlaces == {"idle", "emit", "limit", "after", "send", "record", "close", "callback"}
ProbeRequests == [pc : ProbePlaces, id : Nat, fp : Configs \cup {0}, ok : BOOLEAN]
ConnectionRows == [status : {"DISCONNECTED", "ERROR", "CONNECTED"}, enabled : BOOLEAN,
                   fp : Configs \cup {0}]
\* Why a probe is sent once: one that waits was never attempted, and it has one attempt when
\* it is claimed, so that it never waits again.
SentByClaim ==
  /\ \A i \in DOMAIN probe :
       /\ probe[i].status = "PENDING" => probe[i].attempts = 0 /\ probe[i].sent = 0
       /\ probe[i].status # "PENDING" =>
            probe[i].attempts = 1 /\ probe[i].max = 1 /\ probe[i].sent \in {0, 1}
  /\ \A r \in Requests :
       /\ probesRequest[r].pc = "after" => probe[probesRequest[r].id].max = 1
       /\ probesRequest[r].pc = "send" =>
            /\ probe[probesRequest[r].id].sent = 0
            /\ probe[probesRequest[r].id].status # "PENDING"
  /\ \A r, s \in Requests :
       probesRequest[r].pc = "send" /\ probesRequest[s].pc = "send" /\ r # s =>
         probesRequest[r].id # probesRequest[s].id
\* Why a connection is enabled: a probe of the configuration it names succeeded.
EnabledByProbe ==
  connection.enabled /\ connection.status = "CONNECTED" =>
    \E i \in DOMAIN probe : probe[i].fp = connection.fp /\ probe[i].status = "SUCCEEDED"
ProbesShape ==
  /\ config \in Configs /\ probe \in Seq(ProbeRows)
  /\ connection \in ConnectionRows
  /\ probesRequest \in [Requests -> ProbeRequests]
  /\ \A r \in Requests :
       /\ probesRequest[r].pc \notin {"idle", "emit"} => probesRequest[r].id \in DOMAIN probe
       /\ probesRequest[r].pc = "emit" => probesRequest[r].fp \in Configs
       /\ probesRequest[r].pc = "callback" => probesRequest[r].fp = config
ProbesInv == ProbesShape /\ SentByClaim /\ EnabledByProbe

\* No probe was sent and the connection is off at the start.
LEMMA ProbesInit == Probes!Init => ProbesInv
<1> SUFFICES ASSUME Probes!Init PROVE ProbesInv
  OBVIOUS
<1>1. /\ probe \in Seq(ProbeRows) /\ DOMAIN probe = {}
  BY DEF Probes!Init
<1>2. connection \in ConnectionRows /\ ~ connection.enabled
  BY DEF Probes!Init, ConnectionRows
<1>3. /\ probesRequest \in [Requests -> ProbeRequests]
      /\ \A r \in Requests : probesRequest[r].pc = "idle"
  BY DEF Probes!Init, Probes!Free, ProbeRequests, ProbePlaces
<1> QED BY <1>1, <1>2, <1>3 DEF Probes!Init, ProbesInv, ProbesShape, SentByClaim,
       EnabledByProbe

\* What a probe is after one of its fields, or more, were written.
LEMMA ProbeTurns ==
  ASSUME probe \in Seq(ProbeRows), NEW i \in DOMAIN probe, NEW row \in ProbeRows,
         probe' = [probe EXCEPT ![i] = row]
  PROVE  /\ probe' \in Seq(ProbeRows) /\ DOMAIN probe' = DOMAIN probe
         /\ \A j \in DOMAIN probe : probe'[j] = IF j = i THEN row ELSE probe[j]
BY ExceptSeq, LenProperties

\* What a request is after it moved.
LEMMA ProbeRequestTurns ==
  ASSUME probesRequest \in [Requests -> ProbeRequests], NEW r \in Requests,
         NEW row \in ProbeRequests, probesRequest' = [probesRequest EXCEPT ![r] = row]
  PROVE  /\ probesRequest' \in [Requests -> ProbeRequests]
         /\ \A s \in Requests : probesRequest'[s] = IF s = r THEN row ELSE probesRequest[s]
OBVIOUS

\* A request that ended is idle.
LEMMA ProbeFree == Probes!Free \in ProbeRequests /\ Probes!Free.pc = "idle"
BY DEF Probes!Free, ProbeRequests, ProbePlaces

\* A step that leaves the probes and the connection, and moves a request.
LEMMA ProbesIdle ==
  ASSUME ProbesInv, NEW r \in Requests, NEW row \in ProbeRequests,
         probesRequest' = [probesRequest EXCEPT ![r] = row],
         row.pc \notin {"after", "send", "callback"} \/
           (row.pc = "callback" /\ row.fp = config),
         row.pc \notin {"idle", "emit"} => row.id \in DOMAIN probe,
         row.pc = "emit" => row.fp \in Configs,
         UNCHANGED <<config, probe>>, connection' \in ConnectionRows,
         connection'.enabled => connection' = connection
  PROVE  ProbesInv'
<1>1. /\ probesRequest' \in [Requests -> ProbeRequests]
      /\ \A s \in Requests : probesRequest'[s] = IF s = r THEN row ELSE probesRequest[s]
  BY ProbeRequestTurns DEF ProbesInv, ProbesShape
<1>2. ProbesShape'
  BY <1>1 DEF ProbesInv, ProbesShape
<1>3. SentByClaim'
  BY <1>1 DEF ProbesInv, SentByClaim
<1>4. EnabledByProbe'
  BY DEF ProbesInv, EnabledByProbe
<1> QED BY <1>2, <1>3, <1>4 DEF ProbesInv

\* What becomes of a probe: it is claimed once, and what succeeded stays so.
ProbeMoves(old, new) ==
  /\ new.fp = old.fp
  /\ old.max = 1 => new.max = 1
  /\ old.status # "PENDING" => new.status # "PENDING" /\ new.attempts = old.attempts
  /\ new.status = "PENDING" => new.attempts = 0 /\ new.sent = 0
  /\ old.status = "PENDING" /\ new.status # "PENDING" => new.attempts = 1 /\ new.max = 1
  /\ old.status = "SUCCEEDED" => new.status = "SUCCEEDED"
\* What becomes of a request that writes a probe: it sends only what it claimed.
WriterMoves(row, i, old, new) ==
  /\ row \in ProbeRequests /\ row.pc \notin {"emit", "callback"}
  /\ row.pc # "idle" => row.id = i
  /\ row.pc = "after" => new.max = 1
  /\ row.pc = "send" => new.sent = 0 /\ old.status = "PENDING" /\ new.status # "PENDING"

\* A step that writes a probe and the connection, and moves a request of it or none.
LEMMA ProbesWrite ==
  ASSUME ProbesInv, NEW i \in DOMAIN probe, NEW new \in ProbeRows,
         probe' = [probe EXCEPT ![i] = new], config' = config, ProbeMoves(probe[i], new),
         \/ /\ probesRequest' = probesRequest /\ new.sent = probe[i].sent
         \/ \E r \in Requests, row \in ProbeRequests :
              /\ probesRequest' = [probesRequest EXCEPT ![r] = row]
              /\ probesRequest[r].id = i /\ WriterMoves(row, i, probe[i], new)
              /\ \/ new.sent = probe[i].sent
                 \/ /\ probesRequest[r].pc = "send" /\ row.pc # "send"
                    /\ new.sent = probe[i].sent + 1,
         connection' \in ConnectionRows,
         connection' = connection \/ connection'.status # "CONNECTED"
           \/ (connection'.fp = new.fp /\ new.status = "SUCCEEDED")
  PROVE  ProbesInv'
<1>1. /\ probe' \in Seq(ProbeRows) /\ DOMAIN probe' = DOMAIN probe
      /\ \A j \in DOMAIN probe : probe'[j] = IF j = i THEN new ELSE probe[j]
  BY ProbeTurns DEF ProbesInv, ProbesShape
<1>2. EnabledByProbe'
  <2> SUFFICES ASSUME connection'.enabled, connection'.status = "CONNECTED"
               PROVE  \E j \in DOMAIN probe' : /\ probe'[j].fp = connection'.fp
                                               /\ probe'[j].status = "SUCCEEDED"
    BY DEF EnabledByProbe
  <2>1. CASE connection' = connection
    <3>1. PICK j \in DOMAIN probe : probe[j].fp = connection.fp /\ probe[j].status = "SUCCEEDED"
      BY <2>1 DEF ProbesInv, EnabledByProbe
    <3> QED BY <1>1, <2>1, <3>1 DEF ProbeMoves
  <2>2. CASE connection'.fp = new.fp /\ new.status = "SUCCEEDED"
    BY <1>1, <2>2
  <2> QED BY <2>1, <2>2
<1>3. ASSUME probesRequest' = probesRequest, new.sent = probe[i].sent
      PROVE  ProbesInv'
  <2>1. ProbesShape'
    BY <1>1, <1>3 DEF ProbesInv, ProbesShape
  <2>2. SentByClaim'
    <3>1. ASSUME NEW j \in DOMAIN probe
          PROVE  /\ probe'[j].status = "PENDING" => probe'[j].attempts = 0 /\ probe'[j].sent = 0
                 /\ probe'[j].status # "PENDING" =>
                      probe'[j].attempts = 1 /\ probe'[j].max = 1 /\ probe'[j].sent \in {0, 1}
      BY <1>1, <1>3 DEF ProbesInv, SentByClaim, ProbeMoves
    <3>2. ASSUME NEW s \in Requests
          PROVE  /\ probesRequest[s].pc = "after" => probe'[probesRequest[s].id].max = 1
                 /\ probesRequest[s].pc = "send" =>
                      /\ probe'[probesRequest[s].id].sent = 0
                      /\ probe'[probesRequest[s].id].status # "PENDING"
      BY <1>1, <1>3 DEF ProbesInv, SentByClaim, ProbesShape, ProbeMoves
    <3> QED BY <1>1, <1>3, <3>1, <3>2 DEF ProbesInv, SentByClaim
  <2> QED BY <1>2, <2>1, <2>2 DEF ProbesInv
<1>4. ASSUME NEW r \in Requests, NEW row \in ProbeRequests,
             probesRequest' = [probesRequest EXCEPT ![r] = row], probesRequest[r].id = i,
             WriterMoves(row, i, probe[i], new),
             \/ new.sent = probe[i].sent
             \/ /\ probesRequest[r].pc = "send" /\ row.pc # "send"
                /\ new.sent = probe[i].sent + 1
      PROVE  ProbesInv'
  <2>1. /\ probesRequest' \in [Requests -> ProbeRequests]
        /\ \A s \in Requests : probesRequest'[s] = IF s = r THEN row ELSE probesRequest[s]
    BY <1>4, ProbeRequestTurns DEF ProbesInv, ProbesShape
  <2>2. ProbesShape'
    BY <1>1, <1>4, <2>1 DEF ProbesInv, ProbesShape, WriterMoves
  <2>3. ASSUME NEW j \in DOMAIN probe
        PROVE  /\ probe'[j].status = "PENDING" => probe'[j].attempts = 0 /\ probe'[j].sent = 0
               /\ probe'[j].status # "PENDING" =>
                    probe'[j].attempts = 1 /\ probe'[j].max = 1 /\ probe'[j].sent \in {0, 1}
    BY <1>1, <1>4 DEF ProbesInv, SentByClaim, ProbeMoves
  <2>4. ASSUME NEW s \in Requests, probesRequest'[s].pc = "after"
        PROVE  probe'[probesRequest'[s].id].max = 1
    BY <1>1, <1>4, <2>1, <2>4 DEF ProbesInv, SentByClaim, ProbesShape, ProbeMoves, WriterMoves
  <2>5. ASSUME NEW s \in Requests, probesRequest'[s].pc = "send"
        PROVE  /\ probe'[probesRequest'[s].id].sent = 0
               /\ probe'[probesRequest'[s].id].status # "PENDING"
    BY <1>1, <1>4, <2>1, <2>5 DEF ProbesInv, SentByClaim, ProbesShape, ProbeMoves, WriterMoves
  <2>6. ASSUME NEW s \in Requests, NEW t \in Requests, s # t,
               probesRequest'[s].pc = "send", probesRequest'[t].pc = "send"
        PROVE  probesRequest'[s].id # probesRequest'[t].id
    BY <1>1, <1>4, <2>1, <2>6 DEF ProbesInv, SentByClaim, ProbesShape, WriterMoves
  <2>7. SentByClaim'
    BY <1>1, <2>3, <2>4, <2>5, <2>6 DEF SentByClaim
  <2> QED BY <1>2, <2>2, <2>7 DEF ProbesInv
<1> QED BY <1>3, <1>4

\* What was attempted once may not be again.
AttemptsOf(p) ==
  /\ p.status = "PENDING" => p.attempts = 0 /\ p.sent = 0
  /\ p.status # "PENDING" => p.attempts = 1 /\ p.max = 1 /\ p.sent \in {0, 1}

\* One that is interrupted is over, or was not being delivered.
LEMMA InterruptedMoves ==
  ASSUME NEW p \in ProbeRows, AttemptsOf(p)
  PROVE  LET new == Probes!Interrupted(p) IN
         new \in ProbeRows /\ ProbeMoves(p, new) /\ new.sent = p.sent
<1>1. CASE p.status # "PROCESSING"
  BY <1>1 DEF Probes!Interrupted, ProbeMoves, AttemptsOf
<1>2. CASE p.status = "PROCESSING"
  <2> DEFINE new == [p EXCEPT !.status = "DEAD_LETTER", !.run = 0]
  <2>1. Probes!Interrupted(p) = new
    <3>1. p.attempts >= p.max
      BY <1>2 DEF AttemptsOf
    <3> QED BY <1>2, <3>1, Zenon DEF Probes!Interrupted
  <2>2. new \in ProbeRows /\ ProbeMoves(p, new) /\ new.sent = p.sent
    BY <1>2 DEF ProbeRows, Probes!Statuses, ProbeMoves
  <2> QED BY <2>1, <2>2
<1> QED BY <1>1, <1>2

\* One that is claimed, and one that n8n receives.
LEMMA ClaimedMoves ==
  ASSUME NEW p \in ProbeRows, AttemptsOf(p)
  PROVE  /\ p.status = "PENDING" /\ p.max = 1 =>
              LET new == [p EXCEPT !.status = "PROCESSING", !.attempts = p.attempts + 1,
                                   !.run = p.attempts + 1]
              IN  /\ new \in ProbeRows /\ ProbeMoves(p, new) /\ new.sent = p.sent
                  /\ new.sent = 0 /\ new.status = "PROCESSING"
         /\ p.status # "PENDING" =>
              LET new == [p EXCEPT !.sent = p.sent + 1]
              IN  /\ new \in ProbeRows /\ ProbeMoves(p, new) /\ new.sent = p.sent + 1
<1>1. ASSUME p.status = "PENDING", p.max = 1
      PROVE  LET new == [p EXCEPT !.status = "PROCESSING", !.attempts = p.attempts + 1,
                                  !.run = p.attempts + 1]
             IN  /\ new \in ProbeRows /\ ProbeMoves(p, new) /\ new.sent = p.sent
                 /\ new.sent = 0 /\ new.status = "PROCESSING"
  <2>1. p.attempts + 1 = 1 /\ p.sent = 0
    BY <1>1 DEF AttemptsOf
  <2> DEFINE new == [p EXCEPT !.status = "PROCESSING", !.attempts = p.attempts + 1,
                              !.run = p.attempts + 1]
  <2>2. /\ new.fp = p.fp /\ new.status = "PROCESSING" /\ new.attempts = p.attempts + 1
        /\ new.max = p.max /\ new.sent = p.sent
    BY DEF ProbeRows
  <2>3. new \in ProbeRows
    <3>1. p.attempts + 1 \in Nat
      BY <2>1
    <3> QED BY <3>1 DEF ProbeRows, Probes!Statuses
  <2>4. ProbeMoves(p, new)
    <3> HIDE DEF new
    <3> QED BY <1>1, <2>1, <2>2 DEF ProbeMoves
  <2> QED BY <2>1, <2>2, <2>3, <2>4
<1>2. ASSUME p.status # "PENDING"
      PROVE  LET new == [p EXCEPT !.sent = p.sent + 1]
             IN  /\ new \in ProbeRows /\ ProbeMoves(p, new) /\ new.sent = p.sent + 1
  <2>1. p.sent + 1 \in Nat
    BY DEF ProbeRows
  <2> QED BY <1>2, <2>1 DEF ProbeRows, ProbeMoves
<1> QED BY <1>1, <1>2

\* Every step of a probe keeps the invariant.
LEMMA ProbesStep == ProbesInv /\ [Probes!Next]_(Probes!vars) => ProbesInv'
<1> SUFFICES ASSUME ProbesInv, [Probes!Next]_(Probes!vars) PROVE ProbesInv'
  OBVIOUS
<1>a. /\ probe \in Seq(ProbeRows) /\ probesRequest \in [Requests -> ProbeRequests]
      /\ connection \in ConnectionRows /\ config \in Configs
      /\ \A i \in DOMAIN probe : probe[i] \in ProbeRows /\ AttemptsOf(probe[i])
      /\ \A r \in Requests : /\ probesRequest[r] \in ProbeRequests
                             /\ probesRequest[r].pc \notin {"idle", "emit"} =>
                                  probesRequest[r].id \in DOMAIN probe
  BY LenProperties DEF ProbesInv, ProbesShape, SentByClaim, AttemptsOf
<1>1. CASE UNCHANGED Probes!vars
  BY <1>1 DEF Probes!vars, ProbesInv, ProbesShape, SentByClaim, EnabledByProbe
<1>2. CASE Probes!Redeploys
  BY <1>2 DEF Probes!Redeploys, ProbesInv, ProbesShape, SentByClaim, EnabledByProbe
<1>3. ASSUME NEW i \in DOMAIN probe, Probes!Reclaims(i)
      PROVE  ProbesInv'
  <2> DEFINE new == Probes!Interrupted(probe[i])
  <2>1. /\ new \in ProbeRows /\ ProbeMoves(probe[i], new) /\ new.sent = probe[i].sent
    BY <1>a, InterruptedMoves
  <2>2. /\ probe' = [probe EXCEPT ![i] = new]
        /\ UNCHANGED <<config, connection, probesRequest>>
    BY <1>3 DEF Probes!Reclaims
  <2> HIDE DEF new
  <2> QED BY <1>a, <2>1, <2>2, ProbesWrite
<1>4. ASSUME NEW r \in Requests, NEW recent \in BOOLEAN, Probes!Asks(r, recent)
      PROVE  ProbesInv'
  <2> DEFINE row == [Probes!Free EXCEPT
                       !.pc = IF Probes!Reused(recent) THEN "limit" ELSE "emit",
                       !.id = Len(probe),
                       !.fp = IF Probes!Reused(recent) THEN 0 ELSE config]
  <2>1. /\ probesRequest' = [probesRequest EXCEPT ![r] = row]
        /\ UNCHANGED <<config, probe, connection>>
    BY <1>4 DEF Probes!Asks
  <2>2. Len(probe) \in Nat
    BY <1>a, LenProperties
  <2>3. /\ row \in ProbeRequests /\ row.id = Len(probe) /\ row.pc \in {"limit", "emit"}
        /\ row.pc = "limit" => Probes!Reused(recent)
        /\ row.pc = "emit" => row.fp = config
    BY <1>a, <2>2 DEF Probes!Free, ProbeRequests, ProbePlaces
  <2>4. Probes!Reused(recent) => Len(probe) \in DOMAIN probe
    BY <1>a, LenProperties, EmptySeq DEF Probes!Reused
  <2> HIDE DEF row
  <2> QED BY <1>a, <2>1, <2>3, <2>4, ProbesIdle
<1>5. ASSUME NEW r \in Requests, Probes!Limits(r)
      PROVE  ProbesInv'
  <2> DEFINE i == probesRequest[r].id
             new == Probes!Limited(probe[i])
             row == IF probe[i].status = "PENDING" THEN [probesRequest[r] EXCEPT !.pc = "after"]
                    ELSE Probes!Free
  <2>1. /\ probe' = [probe EXCEPT ![i] = new] /\ UNCHANGED <<config, connection>>
        /\ probesRequest' = [probesRequest EXCEPT ![r] = row] /\ i \in DOMAIN probe
    BY <1>a, <1>5 DEF Probes!Limits
  <2>2. /\ new \in ProbeRows /\ ProbeMoves(probe[i], new) /\ new.sent = probe[i].sent
        /\ probe[i].status = "PENDING" => new.max = 1
    BY <1>a, <2>1 DEF Probes!Limited, ProbeMoves, ProbeRows, ProbesInv, SentByClaim
  <2>3. WriterMoves(row, i, probe[i], new) /\ row \in ProbeRequests
    BY <1>a, <2>2, ProbeFree DEF WriterMoves, ProbeRequests, ProbePlaces
  <2> HIDE DEF i, new, row
  <2> QED BY <1>a, <2>1, <2>2, <2>3, ProbesWrite DEF i
<1>6. ASSUME NEW r \in Requests, Probes!Claims(r)
      PROVE  ProbesInv'
  <2> DEFINE i == probesRequest[r].id
             new == [probe[i] EXCEPT !.status = "PROCESSING", !.attempts = probe[i].attempts + 1,
                                     !.run = probe[i].attempts + 1]
             row == [probesRequest[r] EXCEPT !.pc = "send"]
  <2>a. i \in DOMAIN probe /\ probesRequest[r].pc = "after"
    BY <1>a, <1>6 DEF Probes!Claims
  <2>1. CASE probe[i].status = "PENDING"
    <3>1. /\ probe' = [probe EXCEPT ![i] = new] /\ UNCHANGED <<config, connection>>
          /\ probesRequest' = [probesRequest EXCEPT ![r] = row]
      BY <1>a, <1>6, <2>1, <2>a DEF Probes!Claims
    <3>2. /\ new \in ProbeRows /\ ProbeMoves(probe[i], new) /\ new.sent = probe[i].sent
          /\ new.sent = 0 /\ new.status = "PROCESSING"
      BY <1>a, <2>1, <2>a, ClaimedMoves DEF ProbesInv, SentByClaim
    <3>3. WriterMoves(row, i, probe[i], new) /\ row \in ProbeRequests
      BY <1>a, <2>1, <3>2 DEF WriterMoves, ProbeRequests, ProbePlaces
    <3> HIDE DEF i, new, row
    <3> QED BY <1>a, <2>a, <3>1, <3>2, <3>3, ProbesWrite DEF i
  <2>2. CASE probe[i].status # "PENDING"
    BY <1>a, <1>6, <2>2, ProbeFree, ProbesIdle DEF Probes!Claims
  <2> QED BY <2>1, <2>2
<1>7. ASSUME NEW r \in Requests, NEW received \in BOOLEAN, NEW ok \in BOOLEAN,
             Probes!Sends(r, received, ok)
      PROVE  ProbesInv'
  <2> DEFINE i == probesRequest[r].id
             new == [probe[i] EXCEPT !.sent = probe[i].sent + 1]
             row == [probesRequest[r] EXCEPT !.pc = "record", !.ok = ok]
  <2>1. /\ i \in DOMAIN probe /\ probesRequest[r].pc = "send"
        /\ probesRequest' = [probesRequest EXCEPT ![r] = row] /\ UNCHANGED <<config, connection>>
    BY <1>a, <1>7 DEF Probes!Sends
  <2>2. row \in ProbeRequests /\ row.pc = "record" /\ row.id = i
    BY <1>a DEF ProbeRequests, ProbePlaces
  <2>3. CASE received
    <3>1. probe' = [probe EXCEPT ![i] = new]
      BY <1>a, <1>7, <2>1, <2>3 DEF Probes!Sends
    <3>2. /\ new \in ProbeRows /\ ProbeMoves(probe[i], new) /\ new.sent = probe[i].sent + 1
      BY <1>a, <2>1, ClaimedMoves DEF ProbesInv, SentByClaim
    <3>3. WriterMoves(row, i, probe[i], new)
      BY <2>2 DEF WriterMoves
    <3> HIDE DEF i, new, row
    <3> QED BY <1>a, <2>1, <2>2, <3>1, <3>2, <3>3, ProbesWrite DEF i
  <2>4. CASE ~ received
    <3>1. probe' = probe
      BY <1>7, <2>4 DEF Probes!Sends
    <3> HIDE DEF i, new, row
    <3> QED BY <1>a, <2>1, <2>2, <3>1, ProbesIdle
  <2> QED BY <2>3, <2>4
<1>8. ASSUME NEW r \in Requests, Probes!Records(r)
      PROVE  ProbesInv'
  <2> DEFINE row == IF probesRequest[r].ok THEN Probes!Free
                    ELSE [probesRequest[r] EXCEPT !.pc = "close"]
  <2>1. /\ probesRequest[r].pc = "record" /\ probesRequest' = [probesRequest EXCEPT ![r] = row]
        /\ UNCHANGED <<config, probe>>
    BY <1>8 DEF Probes!Records
  <2>2. /\ row \in ProbeRequests /\ row.pc \in {"idle", "close"}
        /\ row.pc = "close" => row.id = probesRequest[r].id
    BY <1>a, ProbeFree DEF ProbeRequests, ProbePlaces
  <2>3. connection' \in ConnectionRows /\ (connection'.enabled => connection' = connection)
    BY <1>a, <1>8 DEF Probes!Records, ConnectionRows
  <2> HIDE DEF row
  <2> QED BY <1>a, <2>1, <2>2, <2>3, ProbesIdle
<1>9. ASSUME NEW r \in Requests, NEW retryable \in BOOLEAN, Probes!Closes(r, retryable)
      PROVE  ProbesInv'
  <2> DEFINE i == probesRequest[r].id
             new == IF retryable \/ probe[i].status # "PROCESSING"
                      THEN Probes!Interrupted(probe[i])
                      ELSE [probe[i] EXCEPT !.status = "FAILED", !.run = 0]
  <2>1. /\ i \in DOMAIN probe /\ UNCHANGED <<config, connection>>
        /\ probesRequest' = [probesRequest EXCEPT ![r] = Probes!Free]
    BY <1>a, <1>9 DEF Probes!Closes
  <2>2. probe' = [probe EXCEPT ![i] = new]
    BY <1>a, <1>9, <2>1 DEF Probes!Closes
  <2>3. /\ new \in ProbeRows /\ ProbeMoves(probe[i], new) /\ new.sent = probe[i].sent
    <3>1. CASE retryable \/ probe[i].status # "PROCESSING"
      BY <1>a, <2>1, <3>1, InterruptedMoves
    <3>2. CASE ~ retryable /\ probe[i].status = "PROCESSING"
      BY <1>a, <2>1, <3>2 DEF ProbeMoves, ProbeRows, Probes!Statuses
    <3> QED BY <3>1, <3>2
  <2>4. WriterMoves(Probes!Free, i, probe[i], new)
    BY ProbeFree DEF WriterMoves
  <2> HIDE DEF i, new
  <2> QED BY <1>a, <2>1, <2>2, <2>3, <2>4, ProbeFree, ProbesWrite DEF i
<1>10. ASSUME NEW r \in Requests, NEW i \in DOMAIN probe, NEW ok \in BOOLEAN,
              Probes!ReadsCallback(r, i, ok)
       PROVE  ProbesInv'
  <2> DEFINE row == [pc |-> "callback", id |-> i, fp |-> config, ok |-> ok]
  <2>1. i \in Nat
    BY <1>a, LenProperties
  <2>2. row \in ProbeRequests /\ row.pc = "callback" /\ row.fp = config /\ row.id = i
    BY <1>a, <2>1 DEF ProbeRequests, ProbePlaces
  <2>3. probesRequest' = [probesRequest EXCEPT ![r] = row] /\ UNCHANGED <<config, probe, connection>>
    BY <1>10 DEF Probes!ReadsCallback
  <2> HIDE DEF row
  <2> QED BY <1>a, <2>2, <2>3, ProbesIdle
<1>11. ASSUME NEW r \in Requests, Probes!AppliesCallback(r)
       PROVE  ProbesInv'
  <2> DEFINE i == probesRequest[r].id
             new == [probe[i] EXCEPT !.status = Probes!Outcome(r), !.run = 0]
  <2>1. /\ i \in DOMAIN probe /\ probesRequest[r].pc = "callback" /\ config' = config
        /\ probesRequest' = [probesRequest EXCEPT ![r] = Probes!Free]
    BY <1>a, <1>11 DEF Probes!AppliesCallback
  <2>2. CASE probe[i].status = "PROCESSING" /\ probe[i].run = probe[i].attempts
    <3>1. probe' = [probe EXCEPT ![i] = new] /\ connection' = Probes!Verdict(r)
      BY <1>a, <1>11, <2>1, <2>2 DEF Probes!AppliesCallback
    <3>2. /\ new \in ProbeRows /\ ProbeMoves(probe[i], new) /\ new.sent = probe[i].sent
          /\ new.status = Probes!Outcome(r)
      BY <1>a, <2>1, <2>2 DEF Probes!Outcome, ProbeMoves, ProbeRows, Probes!Statuses,
         ProbesInv, SentByClaim
    <3>3. /\ connection' \in ConnectionRows
          /\ connection' = connection \/ connection'.status # "CONNECTED"
               \/ (connection'.fp = new.fp /\ new.status = "SUCCEEDED")
      BY <1>a, <2>1, <3>1, <3>2 DEF Probes!Verdict, Probes!Matches, Probes!Outcome,
         Probes!Refused, ConnectionRows, ProbeRequests, ProbeMoves
    <3>4. WriterMoves(Probes!Free, i, probe[i], new)
      BY ProbeFree DEF WriterMoves
    <3> HIDE DEF i, new
    <3> QED BY <1>a, <2>1, <3>1, <3>2, <3>3, <3>4, ProbeFree, ProbesWrite DEF i
  <2>3. CASE ~ (probe[i].status = "PROCESSING" /\ probe[i].run = probe[i].attempts)
    BY <1>a, <1>11, <2>3, ProbeFree, ProbesIdle DEF Probes!AppliesCallback
  <2> QED BY <2>2, <2>3
<1>12. ASSUME NEW r \in Requests, Probes!Dies(r)
       PROVE  ProbesInv'
  BY <1>a, <1>12, ProbeFree, ProbesIdle DEF Probes!Dies
<1>13. ASSUME NEW r \in Requests, Probes!Emits(r)
       PROVE  ProbesInv'
  <2> DEFINE chained == Probes!Chained(probesRequest[r].id)
  <2>a. probesRequest[r].pc = "emit" /\ UNCHANGED <<config, connection>>
    BY <1>13 DEF Probes!Emits
  <2>b. chained \subseteq DOMAIN probe
    BY DEF Probes!Chained
  <2>1. CASE chained # {}
    <3> DEFINE i == CHOOSE j \in chained : TRUE
               row == [Probes!Free EXCEPT !.pc = "limit", !.id = i]
    <3>1. i \in DOMAIN probe /\ i \in Nat
      BY <1>a, <2>1, <2>b, LenProperties
    <3>2. probe' = probe /\ probesRequest' = [probesRequest EXCEPT ![r] = row]
      BY <1>13, <2>1 DEF Probes!Emits
    <3> HIDE DEF i
    <3>3. row \in ProbeRequests /\ row.pc = "limit" /\ row.id = i
      BY <3>1 DEF Probes!Free, ProbeRequests, ProbePlaces
    <3> HIDE DEF row
    <3> QED BY <1>a, <2>a, <3>1, <3>2, <3>3, ProbesIdle
  <2>2. CASE chained = {}
    <3> DEFINE new == [fp |-> probesRequest[r].fp, after |-> probesRequest[r].id,
                       status |-> "PENDING", attempts |-> 0, max |-> 2, run |-> 0, sent |-> 0]
               newest == Len(probe')
               row == [Probes!Free EXCEPT !.pc = "limit", !.id = newest]
    <3>1. probe' = Append(probe, new) /\ probesRequest' = [probesRequest EXCEPT ![r] = row]
      BY <1>13, <2>2 DEF Probes!Emits
    <3>2. new \in ProbeRows /\ new.status = "PENDING" /\ new.attempts = 0 /\ new.sent = 0
      BY <1>a, <2>a DEF ProbeRows, Probes!Statuses, ProbesInv, ProbesShape, ProbeRequests
    <3> HIDE DEF new
    <3>3. /\ Len(probe) \in Nat /\ DOMAIN probe = 1 .. Len(probe)
          /\ probe' \in Seq(ProbeRows) /\ Len(probe') = Len(probe) + 1
          /\ DOMAIN probe' = 1 .. Len(probe) + 1
          /\ \A j \in DOMAIN probe : probe'[j] = probe[j]
          /\ probe'[Len(probe) + 1] = new
      BY <1>a, <3>1, <3>2, AppendProperties, LenProperties
    <3> HIDE DEF newest
    <3>b. newest = Len(probe) + 1 /\ newest \in Nat
      BY <3>3 DEF newest
    <3>4. row \in ProbeRequests /\ row.pc = "limit" /\ row.id = Len(probe) + 1
      BY <3>b DEF Probes!Free, ProbeRequests, ProbePlaces
    <3> HIDE DEF row
    <3>5. /\ probesRequest' \in [Requests -> ProbeRequests]
          /\ \A s \in Requests : probesRequest'[s] = IF s = r THEN row ELSE probesRequest[s]
      BY <1>a, <3>1, <3>4
    <3>6. DOMAIN probe \subseteq DOMAIN probe' /\ Len(probe) + 1 \in DOMAIN probe'
          /\ \A j \in DOMAIN probe' : j \in DOMAIN probe \/ j = Len(probe) + 1
      BY <3>3
    <3>7. ProbesShape'
      BY <1>a, <2>a, <3>3, <3>4, <3>5, <3>6 DEF ProbesInv, ProbesShape
    <3>8. SentByClaim'
      BY <1>a, <3>2, <3>3, <3>4, <3>5, <3>6 DEF ProbesInv, SentByClaim
    <3>9. EnabledByProbe'
      BY <2>a, <3>3, <3>6 DEF ProbesInv, EnabledByProbe
    <3> QED BY <3>7, <3>8, <3>9 DEF ProbesInv
  <2> QED BY <2>1, <2>2
<1> QED BY <1>1, <1>2, <1>3, <1>4, <1>5, <1>6, <1>7, <1>8, <1>9, <1>10, <1>11, <1>12, <1>13
       DEF Probes!Next

\* A connection is ready by a probe of its configuration, and none was sent twice.
LEMMA ProbesHold == ProbesInv => Probes!ReadyByProbe /\ Probes!SentOnce
BY DEF ProbesInv, ProbesShape, SentByClaim, EnabledByProbe, Probes!ReadyByProbe, Probes!Ready,
   Probes!SentOnce

\* What was verified is lost to the newest probe alone.
LEMMA ProbesStepKeeps == ProbesInv /\ Probes!Next => Probes!NotDegradedStep
<1> SUFFICES ASSUME ProbesInv, Probes!Next, Probes!Ready, ~ Probes!Ready', config' = config
             PROVE  \E i \in DOMAIN probe :
                      /\ probe[i].fp = config /\ (\A j \in Probes!Equivalent(i) : j <= i)
                      /\ probe[i].status # probe'[i].status
  BY DEF Probes!NotDegradedStep
<1>1. connection' # connection
  BY DEF Probes!Ready
<1>2. PICK r \in Requests : Probes!AppliesCallback(r)
  BY <1>1 DEF Probes!Next, Probes!Redeploys, Probes!Reclaims, Probes!Asks, Probes!Emits,
     Probes!Limits, Probes!Claims, Probes!Sends, Probes!Records, Probes!Closes, Probes!Dies,
     Probes!ReadsCallback, Probes!Ready
<1> DEFINE i == probesRequest[r].id
<1>3. /\ i \in DOMAIN probe /\ probesRequest[r].fp = config
      /\ probe[i].status = "PROCESSING" /\ probe[i] \in ProbeRows
      /\ probe' = [probe EXCEPT ![i].status = Probes!Outcome(r), ![i].run = 0]
      /\ connection' = Probes!Verdict(r)
  BY <1>1, <1>2, LenProperties DEF Probes!AppliesCallback, ProbesInv, ProbesShape
<1>4. Probes!Matches(r) /\ Probes!Latest(i) /\ ~ probesRequest[r].ok
  BY <1>1, <1>3 DEF Probes!Verdict, Probes!Ready, Probes!Spoilable
<1>5. probe'[i].status # "PROCESSING"
  BY <1>3 DEF ProbesInv, ProbesShape, ProbeRows, Probes!Outcome
<1> QED BY <1>3, <1>4, <1>5 DEF Probes!Matches, Probes!Latest

------------------------------------------------------------------------------
(***************************************************************************)
(* The search and the filters.                                             *)
(***************************************************************************)
\* Why the address follows: what the member chose last is in the navigation that is on its
\* way, or is the address with the text that waits, or is the address.
FiltersInv ==
  /\ filter \in [url : Filters!Params, move : [to : Filters!Params, set : BOOLEAN],
                 timer : [q : {"", "x"}, base : Filters!Params, set : BOOLEAN]]
  /\ wanted \in Filters!Params
  /\ filter.timer.set =>
       /\ ~ filter.move.set /\ filter.timer.base = filter.url
       /\ wanted.q = filter.timer.q /\ wanted.status = filter.url.status
  /\ filter.move.set => filter.move.to = wanted
  /\ Filters!Still => filter.url = wanted

\* The address has no search and no filter at the start, and none was chosen.
LEMMA FiltersInit == Filters!Init => FiltersInv
<1> SUFFICES ASSUME Filters!Init PROVE FiltersInv
  OBVIOUS
<1>1. /\ filter = [url |-> Filters!NoParams, timer |-> Filters!NoTimer, move |-> Filters!NoMove]
      /\ wanted = Filters!NoParams
  BY DEF Filters!Init
<1>2. Filters!NoParams \in Filters!Params
  BY DEF Filters!NoParams, Filters!Params
<1>3. /\ Filters!NoTimer = [q |-> "", base |-> Filters!NoParams, set |-> FALSE]
      /\ Filters!NoMove = [to |-> Filters!NoParams, set |-> FALSE]
  BY DEF Filters!NoTimer, Filters!NoMove
<1>4. ~ filter.timer.set /\ ~ filter.move.set /\ filter.url = wanted
  BY <1>1, <1>3
<1>5. filter \in [url : Filters!Params, move : [to : Filters!Params, set : BOOLEAN],
                 timer : [q : {"", "x"}, base : Filters!Params, set : BOOLEAN]]
  BY <1>1, <1>2, <1>3
<1> QED BY <1>1, <1>2, <1>4, <1>5 DEF FiltersInv, Filters!Still

\* Two records of a search and a filter are the same when their fields are.
LEMMA SameFields ==
  ASSUME NEW S, NEW T, NEW a \in [q : S, status : T], NEW b \in [q : S, status : T],
         a.q = b.q, a.status = b.status
  PROVE  a = b
OBVIOUS

\* A search and a filter are the same when their parts are.
LEMMA SameParams ==
  ASSUME NEW a \in Filters!Params, NEW b \in Filters!Params, a.q = b.q, a.status = b.status
  PROVE  a = b
<1> DEFINE S == {"", "x"}
           T == {"", "activos"}
<1>1. a \in [q : S, status : T] /\ b \in [q : S, status : T]
  BY DEF Filters!Params
<1> HIDE DEF S, T
<1> QED BY <1>1, SameFields

\* A choice starts when the former one has arrived, and its navigation has both parts.
LEMMA FiltersStep == FiltersInv /\ [Filters!Next]_(Filters!vars) => FiltersInv'
<1> SUFFICES ASSUME FiltersInv, [Filters!Next]_(Filters!vars) PROVE FiltersInv'
  OBVIOUS
<1>1. CASE UNCHANGED <<filter, wanted>>
  BY <1>1 DEF FiltersInv, Filters!Still
<1>2. ASSUME NEW text \in {"", "x"}, Filters!Types(text)
      PROVE  FiltersInv'
  <2>1. /\ ~ filter.move.set /\ wanted' = [wanted EXCEPT !.q = text]
        /\ filter' = [filter EXCEPT !.timer = [q |-> text, base |-> filter.url, set |-> TRUE]]
    BY <1>2 DEF Filters!Types
  <2>2. wanted.status = filter.url.status
    BY <2>1 DEF FiltersInv, Filters!Still
  <2>3. /\ wanted' \in Filters!Params /\ wanted'.q = text /\ wanted'.status = wanted.status
    BY <2>1 DEF FiltersInv, Filters!Params
  <2>4. /\ filter'.url = filter.url /\ filter'.move = filter.move
        /\ filter'.timer = [q |-> text, base |-> filter.url, set |-> TRUE]
    BY <2>1 DEF FiltersInv
  <2>5. filter' \in [url : Filters!Params, move : [to : Filters!Params, set : BOOLEAN],
                     timer : [q : {"", "x"}, base : Filters!Params, set : BOOLEAN]]
    BY <2>1 DEF FiltersInv
  <2> QED BY <2>1, <2>2, <2>3, <2>4, <2>5 DEF FiltersInv, Filters!Still
<1>3. CASE Filters!Fires
  <2> DEFINE to == [filter.timer.base EXCEPT !["q"] = filter.timer.q]
  <2>1. /\ filter.timer.set /\ wanted' = wanted
        /\ filter' = [filter EXCEPT !.timer = Filters!NoTimer, !.move = [to |-> to, set |-> TRUE]]
    BY <1>3 DEF Filters!Fires, Filters!With
  <2>2. /\ filter.timer.base = filter.url /\ filter.url \in Filters!Params
        /\ wanted.q = filter.timer.q /\ wanted.status = filter.url.status
        /\ filter.timer.q \in {"", "x"} /\ wanted \in Filters!Params
    BY <2>1 DEF FiltersInv
  <2>3. to \in Filters!Params /\ to.q = filter.timer.q /\ to.status = filter.url.status
    BY <2>2 DEF Filters!Params
  <2>4. to = wanted
    <3> HIDE DEF to
    <3> QED BY <2>2, <2>3, SameParams
  <2> HIDE DEF to
  <2>5. /\ filter'.url = filter.url /\ filter'.move = [to |-> wanted, set |-> TRUE]
        /\ filter'.timer = Filters!NoTimer
    BY <2>1, <2>4 DEF FiltersInv
  <2>6. filter' \in [url : Filters!Params, move : [to : Filters!Params, set : BOOLEAN],
                     timer : [q : {"", "x"}, base : Filters!Params, set : BOOLEAN]]
    BY <2>1, <2>2, <2>4 DEF FiltersInv, Filters!NoTimer, Filters!NoParams, Filters!Params
  <2> QED BY <2>1, <2>5, <2>6 DEF FiltersInv, Filters!Still, Filters!NoTimer
<1>4. ASSUME NEW to \in Filters!Params, ~ filter.timer.set, wanted' = to,
             filter' = [filter EXCEPT !.move = [to |-> to, set |-> TRUE]]
      PROVE  FiltersInv'
  <2>1. /\ filter'.url = filter.url /\ filter'.move = [to |-> to, set |-> TRUE]
        /\ filter'.timer = filter.timer
    BY <1>4 DEF FiltersInv
  <2>2. filter' \in [url : Filters!Params, move : [to : Filters!Params, set : BOOLEAN],
                     timer : [q : {"", "x"}, base : Filters!Params, set : BOOLEAN]]
    BY <1>4 DEF FiltersInv
  <2> QED BY <1>4, <2>1, <2>2 DEF FiltersInv, Filters!Still
<1>5. ASSUME NEW value \in {"", "activos"}, Filters!Selects(value)
      PROVE  FiltersInv'
  <2> DEFINE to == [filter.url EXCEPT !["status"] = value]
  <2>1. /\ ~ filter.timer.set /\ filter.url = wanted /\ wanted' = [wanted EXCEPT !.status = value]
        /\ filter' = [filter EXCEPT !.move = [to |-> to, set |-> TRUE]]
    BY <1>5 DEF Filters!Selects, Filters!With, FiltersInv, Filters!Still
  <2>2. /\ to \in Filters!Params /\ to.q = wanted.q /\ to.status = value
        /\ wanted' \in Filters!Params /\ wanted'.q = wanted.q /\ wanted'.status = value
    BY <2>1 DEF FiltersInv, Filters!Params
  <2> HIDE DEF to
  <2>3. wanted' = to
    BY <2>2, SameParams
  <2> QED BY <1>4, <2>1, <2>2, <2>3
<1>6. CASE Filters!ClearsAll
  <2>1. Filters!NoParams \in Filters!Params
    BY DEF Filters!NoParams, Filters!Params
  <2> QED BY <1>4, <1>6, <2>1 DEF Filters!ClearsAll, Filters!Still
<1>7. CASE Filters!Arrives
  <2>1. /\ filter.move.set /\ filter.move.to = wanted /\ wanted' = wanted
        /\ filter' = [filter EXCEPT !.url = filter.move.to, !.move = Filters!NoMove]
    BY <1>7 DEF Filters!Arrives, FiltersInv
  <2>2. /\ filter'.url = wanted /\ filter'.move = Filters!NoMove /\ filter'.timer = filter.timer
        /\ ~ filter.timer.set
    BY <2>1 DEF FiltersInv
  <2>3. filter' \in [url : Filters!Params, move : [to : Filters!Params, set : BOOLEAN],
                     timer : [q : {"", "x"}, base : Filters!Params, set : BOOLEAN]]
    BY <2>1 DEF FiltersInv, Filters!NoMove, Filters!NoParams, Filters!Params
  <2> QED BY <2>1, <2>2, <2>3 DEF FiltersInv, Filters!Still, Filters!NoMove
<1> QED BY <1>1, <1>2, <1>3, <1>5, <1>6, <1>7 DEF Filters!Next, Filters!vars, Filters!notFilter,
       Filters!Opens, Filters!Closes, Filters!Confirms, Filters!Reloads, Filters!Submits,
       Filters!Toggles, Filters!AsksDelete, Filters!Creates, Filters!Writes, Filters!Refuses,
       Filters!Renders, Filters!Answered

------------------------------------------------------------------------------
(***************************************************************************)
(* A rule that several people edit.                                        *)
(***************************************************************************)
\* Why a first save keeps what others wrote: a panel that was not saved since it was loaded,
\* at the version of the row, has the row but for the fields that were edited.
RulePanels ==
  [pc : {"closed", "open", "saved"}, version : Nat, form : [Fields -> Values],
   edited : SUBSET Fields, loaded : BOOLEAN]
RulesInv ==
  /\ rule \in [version : Nat, content : [Fields -> Values]]
  /\ panel \in [Requests -> RulePanels]
  /\ \A e \in Requests :
       /\ panel[e].version <= rule.version
       /\ panel[e].pc = "saved" => panel[e].version < rule.version
       /\ panel[e].pc = "open" /\ panel[e].loaded /\ panel[e].version = rule.version =>
            \A f \in Fields \ panel[e].edited : panel[e].form[f] = rule.content[f]

\* No panel was loaded at the start.
LEMMA RulesInit == Rules!Init => RulesInv
BY Bounds DEF Rules!Init, Rules!Closed, Rules!RuleEditingAssumption, RulesInv, RulePanels

\* What a panel loaded is the rule of its version, until somebody saves.
LEMMA RulesStep == RulesInv /\ [Rules!Next]_(Rules!vars) => RulesInv'
<1> SUFFICES ASSUME RulesInv, [Rules!Next]_(Rules!vars) PROVE RulesInv'
  OBVIOUS
<1>a. /\ rule.version \in Nat /\ rule.content \in [Fields -> Values]
      /\ \A e \in Requests : panel[e] \in RulePanels
  BY DEF RulesInv
<1>1. CASE UNCHANGED Rules!vars
  BY <1>1 DEF Rules!vars, RulesInv
<1>2. ASSUME NEW e \in Requests, NEW new \in RulePanels, rule' = rule,
             panel' = [panel EXCEPT ![e] = new],
             new.version <= rule.version, new.pc = "open",
             new.loaded /\ new.version = rule.version =>
               \A f \in Fields \ new.edited : new.form[f] = rule.content[f]
      PROVE  RulesInv'
  <2>1. /\ panel' \in [Requests -> RulePanels]
        /\ \A d \in Requests : panel'[d] = IF d = e THEN new ELSE panel[d]
    BY <1>2 DEF RulesInv
  <2>2. ASSUME NEW d \in Requests
        PROVE  /\ panel'[d].version <= rule.version
               /\ panel'[d].pc = "saved" => panel'[d].version < rule.version
               /\ panel'[d].pc = "open" /\ panel'[d].loaded /\ panel'[d].version = rule.version =>
                    \A f \in Fields \ panel'[d].edited : panel'[d].form[f] = rule.content[f]
    <3>1. CASE d = e
      BY <1>2, <2>1, <3>1
    <3>2. CASE d # e
      BY <2>1, <3>2 DEF RulesInv
    <3> QED BY <3>1, <3>2
  <2> QED BY <1>2, <2>1, <2>2 DEF RulesInv
<1>3. ASSUME NEW e \in Requests, Rules!Loads(e)
      PROVE  RulesInv'
  <2> DEFINE new == [pc |-> "open", version |-> rule.version, form |-> rule.content,
                     edited |-> {}, loaded |-> TRUE]
  <2>1. new \in RulePanels
    BY <1>a DEF RulePanels
  <2>2. panel' = [panel EXCEPT ![e] = new] /\ rule' = rule
    BY <1>3 DEF Rules!Loads
  <2>3. /\ new.pc = "open" /\ new.version = rule.version /\ new.form = rule.content
        /\ rule.version <= rule.version
    BY <1>a
  <2> HIDE DEF new
  <2> QED BY <1>2, <2>1, <2>2, <2>3
<1>4. ASSUME NEW e \in Requests, NEW f \in Fields, NEW value \in Values, Rules!Edits(e, f, value)
      PROVE  RulesInv'
  <2> DEFINE new == [panel[e] EXCEPT !.form = [panel[e].form EXCEPT ![f] = value],
                                     !.edited = panel[e].edited \cup {f}]
  <2>1. panel' = [panel EXCEPT ![e] = new] /\ rule' = rule /\ panel[e].pc = "open"
    BY <1>4 DEF Rules!Edits, RulesInv, RulePanels
  <2>2. /\ new \in RulePanels /\ new.pc = panel[e].pc /\ new.version = panel[e].version
        /\ new.loaded = panel[e].loaded /\ new.edited = panel[e].edited \cup {f}
        /\ \A g \in Fields : g # f => new.form[g] = panel[e].form[g]
    BY <1>a DEF RulePanels
  <2> HIDE DEF new
  <2> QED BY <1>2, <2>1, <2>2 DEF RulesInv
<1>5. ASSUME NEW e \in Requests, Rules!Saves(e)
      PROVE  RulesInv'
  <2> DEFINE new == [panel[e] EXCEPT !.pc = "saved"]
  <2>1. /\ rule' = [version |-> rule.version + 1, content |-> panel[e].form]
        /\ panel' = [panel EXCEPT ![e] = new]
    BY <1>5 DEF Rules!Saves, Rules!Saved
  <2>2. /\ new \in RulePanels /\ new.pc = "saved" /\ new.version = panel[e].version
        /\ panel[e].form \in [Fields -> Values]
    BY <1>a DEF RulePanels
  <2>3. /\ rule' \in [version : Nat, content : [Fields -> Values]]
        /\ rule'.version = rule.version + 1
    BY <1>a, <2>1, <2>2
  <2>4. /\ panel' \in [Requests -> RulePanels]
        /\ \A d \in Requests : panel'[d] = IF d = e THEN new ELSE panel[d]
    BY <2>1, <2>2 DEF RulesInv
  <2>5. \A d \in Requests : panel'[d].version < rule'.version
    <3>1. \A d \in Requests : panel'[d].version = panel[d].version
      BY <2>2, <2>4
    <3>2. \A d \in Requests : panel[d].version <= rule.version /\ panel[d].version \in Nat
      BY <1>a DEF RulesInv, RulePanels
    <3> QED BY <1>a, <2>3, <3>1, <3>2
  <2>6. \A d \in Requests : panel'[d].version \in Nat /\ rule'.version \in Nat
    BY <2>3, <2>4 DEF RulePanels
  <2> QED BY <2>3, <2>4, <2>5, <2>6 DEF RulesInv
<1>6. ASSUME NEW e \in Requests, Rules!ReadsBack(e)
      PROVE  RulesInv'
  <2> DEFINE new == [pc |-> "open", version |-> rule.version, edited |-> {}, loaded |-> FALSE,
                     form |-> [f \in Fields |-> IF f \in Refreshed THEN rule.content[f]
                                                ELSE panel[e].form[f]]]
  <2>1. panel' = [panel EXCEPT ![e] = new] /\ rule' = rule
    BY <1>6 DEF Rules!ReadsBack
  <2>2. /\ new \in RulePanels /\ new.pc = "open" /\ new.version = rule.version
        /\ ~ new.loaded /\ rule.version <= rule.version
    BY <1>a DEF RulePanels
  <2> HIDE DEF new
  <2> QED BY <1>2, <2>1, <2>2
<1>7. ASSUME NEW e \in Requests, Rules!Unanswered(e)
      PROVE  RulesInv'
  <2> DEFINE new == [panel[e] EXCEPT !.pc = "open"]
  <2>1. panel' = [panel EXCEPT ![e] = new] /\ rule' = rule /\ panel[e].pc = "saved"
    BY <1>7 DEF Rules!Unanswered
  <2>2. new \in RulePanels /\ new.version = panel[e].version /\ new.pc = "open"
    BY <1>a DEF RulePanels
  <2>3. /\ panel[e].version <= rule.version /\ panel[e].version # rule.version
    <3>1. panel[e].version \in Nat /\ panel[e].version < rule.version
      BY <1>a, <2>1 DEF RulesInv, RulePanels
    <3> QED BY <1>a, <3>1
  <2> HIDE DEF new
  <2> QED BY <1>2, <1>a, <2>1, <2>2, <2>3
<1> QED BY <1>1, <1>3, <1>4, <1>5, <1>6, <1>7 DEF Rules!Next

\* A panel becomes saved by the commit of its own form.
LEMMA RulesStepKeeps == RulesInv /\ Rules!Next => Rules!FirstSaveKeepsStep
<1> SUFFICES ASSUME RulesInv, Rules!Next, NEW e \in Requests, Rules!Commits(e), panel[e].loaded
             PROVE  Rules!OnlyEdited(e)
  BY DEF Rules!FirstSaveKeepsStep
<1>1. Rules!Saves(e)
  <2>1. PICK d \in Requests :
          \/ Rules!Loads(d) \/ Rules!Saves(d) \/ Rules!ReadsBack(d) \/ Rules!Unanswered(d)
          \/ \E f \in Fields, value \in Values : Rules!Edits(d, f, value)
    BY DEF Rules!Next
  <2>2. panel[e].pc = "open" /\ panel'[e].pc = "saved" /\ panel \in [Requests -> RulePanels]
    BY DEF Rules!Commits, RulesInv
  <2>3. CASE Rules!Loads(d)
    BY <2>2, <2>3 DEF Rules!Loads
  <2>4. CASE Rules!ReadsBack(d)
    BY <2>2, <2>4 DEF Rules!ReadsBack
  <2>5. CASE Rules!Unanswered(d)
    BY <2>2, <2>5 DEF Rules!Unanswered, RulePanels
  <2>6. CASE \E f \in Fields, value \in Values : Rules!Edits(d, f, value)
    BY <2>2, <2>6 DEF Rules!Edits, RulePanels
  <2>7. CASE Rules!Saves(d)
    <3>1. d = e
      BY <2>2, <2>7 DEF Rules!Saves
    <3> QED BY <2>7, <3>1
  <2> QED BY <2>1, <2>3, <2>4, <2>5, <2>6, <2>7
<1> QED BY <1>1 DEF Rules!Saves, Rules!Expected, Rules!OnlyEdited, RulesInv

------------------------------------------------------------------------------
(***************************************************************************)
(* The tables of several members.                                          *)
(***************************************************************************)
\* The rows are those of the catalogue.
CatalogsInv == item = [i \in Catalogs!Items |-> item[i]]

\* Every item is unborn at the start.
LEMMA CatalogsInit == Catalogs!Init => CatalogsInv
BY DEF Catalogs!Init, CatalogsInv

\* Every request keeps one row for each item.
LEMMA CatalogsStep == CatalogsInv /\ [Catalogs!Next]_(Catalogs!vars) => CatalogsInv'
<1> SUFFICES ASSUME CatalogsInv, [Catalogs!Next]_(Catalogs!vars) PROVE CatalogsInv'
  OBVIOUS
<1>1. CASE item' = item
  BY <1>1 DEF CatalogsInv
<1>2. ASSUME NEW m \in CatalogMembers, NEW i \in Catalogs!Items, Catalogs!Creates(m, i)
      PROVE  CatalogsInv'
  BY <1>2 DEF Catalogs!Creates, CatalogsInv
<1>3. ASSUME NEW m \in CatalogMembers, Catalogs!Writes(m)
      PROVE  CatalogsInv'
  <2>1. PICK new : item' = [item EXCEPT ![Catalogs!Head1(m).of] = new]
    BY <1>3 DEF Catalogs!Writes
  <2> QED BY <2>1 DEF CatalogsInv
<1> QED BY <1>1, <1>2, <1>3 DEF Catalogs!Next, Catalogs!vars, Catalogs!notTable,
       Catalogs!Opens, Catalogs!Closes, Catalogs!Confirms, Catalogs!Reloads, Catalogs!Submits,
       Catalogs!Toggles, Catalogs!AsksDelete, Catalogs!Refuses, Catalogs!Renders,
       Catalogs!Answered, Catalogs!Types, Catalogs!Selects, Catalogs!Fires,
       Catalogs!ClearsAll, Catalogs!Arrives

\* What was deleted is neither unborn, to be created, nor live, to be written.
LEMMA CatalogsStepKeeps == CatalogsInv /\ Catalogs!Next => Catalogs!DeletedStaysStep
<1> SUFFICES ASSUME CatalogsInv, Catalogs!Next, NEW i \in Catalogs!Items,
                    item[i].status = "deleted"
             PROVE  item'[i].status = "deleted"
  BY DEF Catalogs!DeletedStaysStep
<1>1. CASE item' = item
  BY <1>1
<1>2. ASSUME NEW m \in CatalogMembers, NEW j \in Catalogs!Items, Catalogs!Creates(m, j)
      PROVE  item'[i] = item[i]
  <2>1. item[j].status = "unborn"
    BY <1>2 DEF Catalogs!Creates, Catalogs!Unborn
  <2>2. i # j
    BY <2>1
  <2> QED BY <1>2, <2>2 DEF Catalogs!Creates, CatalogsInv
<1>3. ASSUME NEW m \in CatalogMembers, Catalogs!Writes(m)
      PROVE  item'[i] = item[i]
  <2>1. item[Catalogs!Head1(m).of].status = "live"
    BY <1>3 DEF Catalogs!Writes, Catalogs!Found, Catalogs!Live
  <2>2. i # Catalogs!Head1(m).of
    BY <2>1
  <2> QED BY <1>3, <2>2 DEF Catalogs!Writes, CatalogsInv
<1> QED BY <1>1, <1>2, <1>3 DEF Catalogs!Next, Catalogs!notTable,
       Catalogs!Opens, Catalogs!Closes, Catalogs!Confirms, Catalogs!Reloads, Catalogs!Submits,
       Catalogs!Toggles, Catalogs!AsksDelete, Catalogs!Refuses, Catalogs!Renders,
       Catalogs!Answered, Catalogs!Types, Catalogs!Selects, Catalogs!Fires,
       Catalogs!ClearsAll, Catalogs!Arrives

------------------------------------------------------------------------------
(***************************************************************************)
(* The table of one member.                                                *)
(***************************************************************************)
CatalogRows == [status : {"unborn", "live", "deleted"}, active : BOOLEAN, text : Nat]
Tables == [Catalog!Items -> CatalogRows]
CatalogCalls == [op : {"create", "update", "toggle", "delete"}, of : Nat, active : BOOLEAN,
                 text : Nat, base : CatalogRows, pc : {"sent", "ran", "rendered", "failed"},
                 view : Tables]
CatalogForms == [of : 0 .. Catalog!New, sent : BOOLEAN]
CatalogPages == [shown : Tables, form : CatalogForms, deleting : Nat, queue : Seq(CatalogCalls)]
\* Why a save overwrites what its form showed: a member who waits has one request on its way,
\* and until it runs the table shows the rows as they are.
OnItsWay(rows, p, call) ==
  /\ p.queue = <<call>>
  /\ p.form.of # 0 => p.form.sent
  /\ p.deleting # 0 => call.op = "delete"
  /\ call.pc \in {"sent", "failed"} => p.shown = rows
  /\ call.pc = "rendered" => call.view = rows
  /\ call.pc = "sent" /\ call.op = "update" => rows[call.of] = call.base
Agrees(rows, p) ==
  /\ p.form.of # 0 => p.deleting = 0
  /\ \/ p.queue = <<>> /\ p.shown = rows
     \/ \E call \in CatalogCalls : OnItsWay(rows, p, call)
CatalogInv ==
  /\ item \in Tables /\ submits \in Nat
  /\ page \in [{"m"} -> CatalogPages]
  /\ Agrees(item, page["m"])

\* The bounds of the table are numbers.
LEMMA CatalogConstants == MaxItems \in Nat /\ MaxSubmits \in Nat
BY Bounds DEF Catalog!CatalogAssumption

\* A form that was closed, and one that was sent or answered.
LEMMA FormTurns ==
  /\ Catalog!NoForm \in CatalogForms /\ Catalog!NoForm.of = 0
  /\ \A f \in CatalogForms, b \in BOOLEAN :
       /\ [f EXCEPT !.sent = b] \in CatalogForms /\ [f EXCEPT !.sent = b].of = f.of
       /\ [f EXCEPT !.sent = TRUE].sent
  /\ \A i \in 0 .. Catalog!New : [of |-> i, sent |-> FALSE] \in CatalogForms
<1>1. 0 \in 0 .. Catalog!New
  BY CatalogConstants DEF Catalog!New
<1> QED BY <1>1 DEF Catalog!NoForm, CatalogForms

\* The rows of a table start and stay rows.
LEMMA CatalogInit == Catalog!Init => CatalogInv
<1> SUFFICES ASSUME Catalog!Init PROVE CatalogInv
  OBVIOUS
<1>1. item \in Tables
  BY DEF Catalog!Init, Catalog!Unborn, Tables, CatalogRows
<1>2. page = [m \in {"m"} |-> [shown |-> item, form |-> Catalog!NoForm, deleting |-> 0,
                               queue |-> <<>>]]
  BY DEF Catalog!Init
<1>3. <<>> \in Seq(CatalogCalls)
  OBVIOUS
<1>4. page \in [{"m"} -> CatalogPages]
  BY <1>1, <1>2, <1>3, FormTurns DEF CatalogPages
<1>5. Agrees(item, page["m"])
  BY <1>2, FormTurns DEF Agrees
<1> QED BY <1>1, <1>4, <1>5 DEF Catalog!Init, CatalogInv

\* A queue of one request.
LEMMA OneCall ==
  ASSUME NEW call \in CatalogCalls
  PROVE  /\ <<call>> # <<>> /\ <<call>>[1] = call /\ <<call>> \in Seq(CatalogCalls)
         /\ Tail(<<call>>) = <<>> /\ Append(<<>>, call) = <<call>> /\ 1 \in DOMAIN <<call>>
         /\ \A d \in CatalogCalls : [<<call>> EXCEPT ![1] = d] = <<d>>
OBVIOUS

\* A step leaves the page of the member as it says.
LEMMA PageTurns ==
  ASSUME CatalogInv, NEW p \in CatalogPages, page' = [page EXCEPT !["m"] = p],
         item' \in Tables, submits' \in Nat, Agrees(item', p)
  PROVE  CatalogInv'
BY DEF CatalogInv

\* A request that was just sent.
LEMMA SentCall ==
  ASSUME NEW op \in {"create", "update", "toggle", "delete"}, NEW i \in Nat,
         NEW active \in BOOLEAN, NEW text \in Nat, NEW base \in CatalogRows
  PROVE  /\ Catalog!Sent(op, i, active, text, base) \in CatalogCalls
         /\ Catalog!Sent(op, i, active, text, base).op = op
         /\ Catalog!Sent(op, i, active, text, base).of = i
         /\ Catalog!Sent(op, i, active, text, base).pc = "sent"
         /\ Catalog!Sent(op, i, active, text, base).base = base
<1>1. [j \in Catalog!Items |-> Catalog!Unborn] \in Tables
  BY DEF Tables, CatalogRows, Catalog!Unborn
<1> QED BY <1>1 DEF Catalog!Sent, CatalogCalls

\* A member who has no request on its way sends one.
LEMMA CallStarts ==
  ASSUME CatalogInv, NEW call \in CatalogCalls, NEW p \in CatalogPages,
         page' = [page EXCEPT !["m"] = p], item' = item, submits' \in Nat,
         page["m"].queue = <<>>, p.queue = <<call>>, p.shown = page["m"].shown,
         p.form.of # 0 => p.form.sent /\ p.deleting = 0,
         p.deleting # 0 => call.op = "delete",
         call.pc = "sent", call.op = "update" => call.base = page["m"].shown[call.of]
  PROVE  CatalogInv'
<1>1. page["m"].shown = item
  BY OneCall DEF CatalogInv, Agrees, OnItsWay
<1>2. Agrees(item, p)
  BY <1>1 DEF Agrees, OnItsWay
<1> QED BY <1>2, PageTurns DEF CatalogInv

\* The head of the queue moves, with the rows or not.
LEMMA CallMoves ==
  ASSUME CatalogInv, NEW call \in CatalogCalls, NEW new \in CatalogCalls, item' \in Tables,
         OnItsWay(item, page["m"], call), submits' = submits,
         page' = [page EXCEPT !["m"] = [page["m"] EXCEPT !.queue = <<new>>]],
         new.op = call.op, new.pc # "sent",
         new.pc = "failed" => item' = item /\ call.pc = "sent",
         new.pc = "rendered" => new.view = item'
  PROVE  CatalogInv'
<1> DEFINE p == [page["m"] EXCEPT !.queue = <<new>>]
<1>1. page["m"] \in CatalogPages
  BY DEF CatalogInv
<1>3. /\ p \in CatalogPages /\ p.queue = <<new>> /\ p.form = page["m"].form
      /\ p.deleting = page["m"].deleting /\ p.shown = page["m"].shown
  BY <1>1, OneCall DEF CatalogPages
<1>2. page' = [page EXCEPT !["m"] = p]
  OBVIOUS
<1> HIDE DEF p
<1>4. Agrees(item', p)
  BY <1>3 DEF Agrees, OnItsWay, CatalogInv
<1> QED BY <1>2, <1>3, <1>4, PageTurns DEF CatalogInv

\* The table, the open form and the call that is on its way agree with the row, whatever
\* the member does.
LEMMA CatalogStep == CatalogInv /\ [Catalog!Next]_(Catalog!vars) => CatalogInv'
<1> SUFFICES ASSUME CatalogInv, [Catalog!Next]_(Catalog!vars) PROVE CatalogInv'
  OBVIOUS
<1> DEFINE p == page["m"]
<1>a. /\ p \in CatalogPages /\ page \in [{"m"} -> CatalogPages] /\ item \in Tables
      /\ submits \in Nat
  BY DEF CatalogInv
<1>b. ASSUME p.queue # <<>>
      PROVE  \E call \in CatalogCalls :
               OnItsWay(item, p, call) /\ p.queue[1] = call
  BY <1>b, OneCall DEF CatalogInv, Agrees, OnItsWay
<1>c. ASSUME p.queue = <<>>
      PROVE  p.shown = item /\ (p.form.of # 0 => p.deleting = 0)
  BY <1>c, OneCall DEF CatalogInv, Agrees, OnItsWay
<1>1. CASE UNCHANGED <<item, page, submits>>
  BY <1>1 DEF CatalogInv
<1>d. Catalog!New = MaxItems + 1 /\ Catalog!Items = 1 .. MaxItems /\ MaxItems \in Nat
  BY CatalogConstants DEF Catalog!New, Catalog!Items
<1>2. ASSUME NEW i \in Catalog!Items \cup {Catalog!New}, Catalog!Opens("m", i)
      PROVE  CatalogInv'
  <2> DEFINE new == [p EXCEPT !.form = [of |-> i, sent |-> FALSE]]
  <2>1. /\ page' = [page EXCEPT !["m"] = new] /\ UNCHANGED <<item, submits>>
        /\ p.queue = <<>> /\ p.deleting = 0
    BY <1>a, <1>2 DEF Catalog!Opens, Catalog!Waits, Catalog!Modal
  <2>2. i \in 0 .. Catalog!New
    BY <1>d
  <2>3. /\ new \in CatalogPages /\ new.queue = <<>> /\ new.shown = p.shown /\ new.deleting = 0
    BY <1>a, <2>1, <2>2, FormTurns DEF CatalogPages
  <2>4. Agrees(item, new)
    <3> HIDE DEF new
    <3> QED BY <1>c, <2>1, <2>3 DEF Agrees
  <2> HIDE DEF new
  <2> QED BY <1>a, <2>1, <2>3, <2>4, PageTurns
<1>3. CASE Catalog!Closes("m")
  <2> DEFINE new == [p EXCEPT !.form = Catalog!NoForm, !.deleting = 0]
  <2>1. /\ page' = [page EXCEPT !["m"] = new] /\ UNCHANGED <<item, submits>> /\ p.queue = <<>>
    BY <1>a, <1>3 DEF Catalog!Closes, Catalog!Waits
  <2>2. /\ new \in CatalogPages /\ new.queue = <<>> /\ new.shown = p.shown /\ new.form.of = 0
    BY <1>a, <2>1, FormTurns DEF CatalogPages
  <2>3. Agrees(item, new)
    <3> HIDE DEF new
    <3> QED BY <1>c, <2>1, <2>2 DEF Agrees
  <2> HIDE DEF new
  <2> QED BY <1>a, <2>1, <2>2, <2>3, PageTurns
<1>4. ASSUME NEW active \in BOOLEAN, Catalog!Submits("m", active)
      PROVE  CatalogInv'
  <2> DEFINE i == p.form.of
             text == submits + 1
             call == IF i = Catalog!New
                       THEN Catalog!Sent("create", 0, active, text, Catalog!Unborn)
                       ELSE Catalog!Sent("update", i, active, text, p.shown[i])
             form == [p.form EXCEPT !.sent = TRUE]
             new == [p EXCEPT !.form = form, !.queue = <<call>>]
  <2>1. /\ i # 0 /\ ~ p.form.sent /\ submits' = text /\ item' = item /\ text \in Nat
    BY <1>a, <1>4 DEF Catalog!Submits
  <2>2. p.queue = <<>>
    BY <1>b, <2>1 DEF OnItsWay
  <2>3. p.form \in CatalogForms /\ i \in 0 .. Catalog!New /\ p.shown \in Tables
    BY <1>a DEF CatalogPages, CatalogForms
  <2>4. /\ call \in CatalogCalls /\ (call.op = "update" => call.base = p.shown[call.of])
        /\ call.pc = "sent"
    <3>1. CASE i = Catalog!New
      <4>1. Catalog!Unborn \in CatalogRows
        BY DEF Catalog!Unborn, CatalogRows
      <4> QED BY <2>1, <3>1, <4>1, SentCall
    <3>2. CASE i # Catalog!New
      <4>1. i \in Catalog!Items /\ i \in Nat
        BY <1>d, <2>1, <2>3, <3>2
      <4>2. p.shown[i] \in CatalogRows
        BY <2>3, <4>1 DEF Tables
      <4> HIDE DEF i
      <4> QED BY <2>1, <3>2, <4>1, <4>2, SentCall
    <3> QED BY <3>1, <3>2
  <2>5. page' = [page EXCEPT !["m"] = new]
    <3>1. page' = [page EXCEPT !["m"] = [p EXCEPT !.form = form, !.queue = Append(@, call)]]
      BY <1>a, <1>4, <2>1 DEF Catalog!Submits, CatalogPages
    <3>2. Append(p.queue, call) = <<call>>
      BY <2>2, <2>4, OneCall
    <3> QED BY <1>a, <3>1, <3>2 DEF CatalogPages
  <2>b. form \in CatalogForms /\ form.sent
    BY <2>3, FormTurns
  <2> HIDE DEF call, form
  <2>6. /\ new \in CatalogPages /\ new.queue = <<call>> /\ new.shown = p.shown
        /\ new.form.sent /\ new.deleting = p.deleting
    BY <1>a, <2>4, <2>b, OneCall DEF CatalogPages
  <2>7. p.form.of # 0 /\ p.deleting = 0
    BY <1>c, <2>1, <2>2
  <2> HIDE DEF new, i
  <2> QED BY <1>a, <2>1, <2>2, <2>4, <2>5, <2>6, <2>7, CallStarts
<1>5. ASSUME NEW i \in Catalog!Items, Catalog!Toggles("m", i)
      PROVE  CatalogInv'
  <2> DEFINE active == ~ p.shown[i].active
             call == Catalog!Sent("toggle", i, active, 0, Catalog!Unborn)
             new == [p EXCEPT !.queue = <<call>>]
  <2>1. /\ p.queue = <<>> /\ p.form.of = 0 /\ p.deleting = 0 /\ UNCHANGED <<item, submits>>
    BY <1>5 DEF Catalog!Toggles, Catalog!Waits, Catalog!Modal
  <2>2. call \in CatalogCalls /\ call.op = "toggle" /\ call.pc = "sent"
    <3>1. Catalog!Unborn \in CatalogRows /\ i \in Nat
      BY <1>d DEF Catalog!Unborn, CatalogRows
    <3>2. active \in BOOLEAN
      OBVIOUS
    <3> HIDE DEF active
    <3> QED BY <3>1, <3>2, SentCall
  <2>3. page' = [page EXCEPT !["m"] = new]
    <3>1. page' = [page EXCEPT !["m"] = [p EXCEPT !.queue = Append(@, call)]]
      BY <1>a, <1>5 DEF Catalog!Toggles
    <3> HIDE DEF call
    <3>2. Append(p.queue, call) = <<call>>
      BY <2>1, <2>2, OneCall
    <3> QED BY <1>a, <3>1, <3>2 DEF CatalogPages
  <2> HIDE DEF call
  <2>4. /\ new \in CatalogPages /\ new.queue = <<call>> /\ new.shown = p.shown
        /\ new.form = p.form /\ new.deleting = p.deleting
    BY <1>a, <2>2, OneCall DEF CatalogPages
  <2> HIDE DEF new
  <2> QED BY <1>a, <2>1, <2>2, <2>3, <2>4, CallStarts
<1>6. ASSUME NEW i \in Catalog!Items, Catalog!AsksDelete("m", i)
      PROVE  CatalogInv'
  <2> DEFINE new == [p EXCEPT !.deleting = i]
  <2>1. /\ page' = [page EXCEPT !["m"] = new] /\ UNCHANGED <<item, submits>>
        /\ p.queue = <<>> /\ p.form.of = 0
    BY <1>a, <1>6 DEF Catalog!AsksDelete, Catalog!Waits, Catalog!Modal
  <2>2. /\ new \in CatalogPages /\ new.queue = <<>> /\ new.shown = p.shown /\ new.form = p.form
    BY <1>a, <1>d, <2>1 DEF CatalogPages
  <2>3. Agrees(item, new)
    <3> HIDE DEF new
    <3> QED BY <1>c, <2>1, <2>2 DEF Agrees
  <2> HIDE DEF new
  <2> QED BY <1>a, <2>1, <2>2, <2>3, PageTurns
<1>7. CASE Catalog!Confirms("m")
  <2> DEFINE active == FALSE
             call == Catalog!Sent("delete", p.deleting, active, 0, Catalog!Unborn)
             new == [p EXCEPT !.queue = <<call>>]
  <2>1. /\ p.deleting # 0 /\ ~ Catalog!Pending("m") /\ UNCHANGED <<item, submits>>
    BY <1>7 DEF Catalog!Confirms
  <2>2. p.queue = <<>>
    <3> SUFFICES ASSUME p.queue # <<>> PROVE FALSE
      OBVIOUS
    <3>1. PICK head \in CatalogCalls : OnItsWay(item, p, head) /\ p.queue[1] = head
      BY <1>b
    <3> QED BY <2>1, <3>1, OneCall DEF Catalog!Pending, OnItsWay
  <2>3. call \in CatalogCalls /\ call.op = "delete" /\ call.pc = "sent"
    <3>1. Catalog!Unborn \in CatalogRows /\ p.deleting \in Nat
      BY <1>a DEF Catalog!Unborn, CatalogRows, CatalogPages
    <3>2. active \in BOOLEAN
      OBVIOUS
    <3> HIDE DEF active
    <3> QED BY <3>1, <3>2, SentCall
  <2>4. page' = [page EXCEPT !["m"] = new]
    <3>1. page' = [page EXCEPT !["m"] = [p EXCEPT !.queue = Append(@, call)]]
      BY <1>a, <1>7 DEF Catalog!Confirms
    <3> HIDE DEF call
    <3>2. Append(p.queue, call) = <<call>>
      BY <2>2, <2>3, OneCall
    <3> QED BY <1>a, <3>1, <3>2 DEF CatalogPages
  <2> HIDE DEF call
  <2>5. /\ new \in CatalogPages /\ new.queue = <<call>> /\ new.shown = p.shown
        /\ new.form = p.form /\ new.deleting = p.deleting
    BY <1>a, <2>3, OneCall DEF CatalogPages
  <2>6. p.form.of = 0
    BY <1>c, <2>1, <2>2
  <2> HIDE DEF new
  <2> QED BY <1>a, <2>1, <2>2, <2>3, <2>4, <2>5, <2>6, CallStarts
<1>8. CASE Catalog!Reloads("m")
  <2> DEFINE new == [p EXCEPT !.shown = item]
  <2>1. /\ page' = [page EXCEPT !["m"] = new] /\ UNCHANGED <<item, submits>> /\ p.queue = <<>>
        /\ p.form.of = 0
    BY <1>a, <1>8 DEF Catalog!Reloads, Catalog!Modal
  <2>2. /\ new \in CatalogPages /\ new.queue = <<>> /\ new.shown = item /\ new.form = p.form
    BY <1>a, <2>1 DEF CatalogPages
  <2>3. Agrees(item, new)
    <3> HIDE DEF new
    <3> QED BY <2>1, <2>2 DEF Agrees
  <2> HIDE DEF new
  <2> QED BY <1>a, <2>1, <2>2, <2>3, PageTurns
<1>9. ASSUME p.queue # <<>>, NEW table \in Tables, item' = table, submits' = submits,
             NEW pc \in {"ran", "failed"}, Catalog!Moves("m", pc),
             pc = "failed" => table = item /\ p.queue[1].pc = "sent"
      PROVE  CatalogInv'
  <2>1. PICK call \in CatalogCalls : OnItsWay(item, p, call) /\ p.queue[1] = call
    BY <1>9, <1>b
  <2> DEFINE new == [call EXCEPT !.pc = pc]
  <2>2. new \in CatalogCalls /\ new.op = call.op /\ new.pc = pc
    BY DEF CatalogCalls
  <2>3. page' = [page EXCEPT !["m"] = [p EXCEPT !.queue = <<new>>]]
    <3>1. page' = [page EXCEPT !["m"] = [p EXCEPT !.queue = [p.queue EXCEPT ![1] = new]]]
      BY <1>a, <1>9, <2>1 DEF Catalog!Moves
    <3>2. [p.queue EXCEPT ![1] = new] = <<new>>
      BY <2>1, <2>2, OneCall DEF OnItsWay
    <3> QED BY <3>1, <3>2
  <2> HIDE DEF new
  <2> QED BY <1>9, <2>1, <2>2, <2>3, CallMoves
<1>10. ASSUME NEW i \in Catalog!Items, Catalog!Creates("m", i)
       PROVE  CatalogInv'
  <2>1. PICK call \in CatalogCalls : OnItsWay(item, p, call) /\ p.queue[1] = call
    BY <1>10, <1>b DEF Catalog!Creates
  <2>2. /\ item' = [item EXCEPT ![i] = [status |-> "live", active |-> call.active,
                                        text |-> call.text]]
        /\ p.queue # <<>> /\ Catalog!Moves("m", "ran") /\ submits' = submits
    BY <1>10, <2>1 DEF Catalog!Creates, Catalog!Head1
  <2>3. [status |-> "live", active |-> call.active, text |-> call.text] \in CatalogRows
    BY DEF CatalogCalls, CatalogRows
  <2>4. item' \in Tables
    BY <1>a, <2>2, <2>3 DEF Tables
  <2> QED BY <1>9, <2>2, <2>4
<1>11. CASE Catalog!Writes("m")
  <2>1. PICK call \in CatalogCalls : OnItsWay(item, p, call) /\ p.queue[1] = call
    BY <1>11, <1>b DEF Catalog!Writes
  <2>2. /\ item' = [item EXCEPT ![call.of] =
             CASE call.op = "update" -> [status |-> "live", active |-> call.active,
                                         text |-> call.text]
               [] call.op = "toggle" -> [item[call.of] EXCEPT !.active = call.active]
               [] call.op = "delete" -> [item[call.of] EXCEPT !.status = "deleted"]]
        /\ p.queue # <<>> /\ Catalog!Moves("m", "ran") /\ submits' = submits
        /\ call.op # "create"
    BY <1>11, <2>1 DEF Catalog!Writes, Catalog!Head1
  <2>3. call.op \in {"update", "toggle", "delete"} /\ call.active \in BOOLEAN /\ call.text \in Nat
    BY <2>2 DEF CatalogCalls
  <2>4. item' \in Tables
    <3>1. CASE call.op = "update"
      <4>1. item' = [item EXCEPT ![call.of] = [status |-> "live", active |-> call.active,
                                               text |-> call.text]]
        BY <2>2, <3>1
      <4>2. [status |-> "live", active |-> call.active, text |-> call.text] \in CatalogRows
        BY <2>3 DEF CatalogRows
      <4> QED BY <1>a, <4>1, <4>2 DEF Tables
    <3>2. CASE call.op = "toggle"
      <4>1. item' = [item EXCEPT ![call.of] = [item[call.of] EXCEPT !.active = call.active]]
        BY <2>2, <3>2
      <4> QED BY <1>a, <2>3, <4>1 DEF Tables, CatalogRows
    <3>3. CASE call.op = "delete"
      <4>1. item' = [item EXCEPT ![call.of] = [item[call.of] EXCEPT !.status = "deleted"]]
        BY <2>2, <3>3
      <4> QED BY <1>a, <4>1 DEF Tables, CatalogRows
    <3> QED BY <2>3, <3>1, <3>2, <3>3
  <2> QED BY <1>9, <2>2, <2>4
<1>12. CASE Catalog!Refuses("m")
  BY <1>9, <1>12, <1>a DEF Catalog!Refuses, Catalog!Head1
<1>13. CASE Catalog!Renders("m")
  <2>1. PICK call \in CatalogCalls : OnItsWay(item, p, call) /\ p.queue[1] = call
    BY <1>13, <1>b DEF Catalog!Renders
  <2> DEFINE new == [call EXCEPT !.pc = "rendered", !.view = item]
  <2>2. new \in CatalogCalls /\ new.op = call.op /\ new.pc = "rendered" /\ new.view = item
    BY <1>a DEF CatalogCalls
  <2>3. /\ page' = [page EXCEPT !["m"] = [p EXCEPT !.queue = <<new>>]]
        /\ UNCHANGED <<item, submits>>
    <3> DEFINE call1 == [call EXCEPT !.pc = "rendered"]
               p1 == [p EXCEPT !.queue = <<call1>>]
               page1 == [page EXCEPT !["m"] = p1]
    <3>1. call1 \in CatalogCalls /\ new = [call1 EXCEPT !.view = item]
      BY DEF CatalogCalls
    <3>2. p.queue = <<call>>
      BY <2>1 DEF OnItsWay
    <3>3. [<<call>> EXCEPT ![1] = call1] = <<call1>> /\ [<<call1>> EXCEPT ![1] = new] = <<new>>
      BY <2>2, <3>1, OneCall
    <3>4. page1 = [page EXCEPT !["m"].queue[1].pc = "rendered"]
      BY <1>a, <2>1, <3>2, <3>3 DEF CatalogPages
    <3>5. page' = [page1 EXCEPT !["m"].queue[1].view = item] /\ UNCHANGED <<item, submits>>
      BY <1>13, <3>4 DEF Catalog!Renders, Catalog!Revalidated
    <3>6. page1["m"] = p1 /\ p1.queue = <<call1>> /\ p1.queue[1] = call1
      BY <1>a, <3>1, OneCall DEF CatalogPages
    <3> HIDE DEF page1, p1, call1
    <3>7. page' = [page1 EXCEPT !["m"] = [p1 EXCEPT !.queue = <<new>>]]
      BY <3>1, <3>3, <3>5, <3>6
    <3>8. [p1 EXCEPT !.queue = <<new>>] = [p EXCEPT !.queue = <<new>>]
      BY <1>a DEF p1, CatalogPages
    <3>9. page' = [page1 EXCEPT !["m"] = [p EXCEPT !.queue = <<new>>]]
      BY <3>7, <3>8
    <3> QED BY <1>a, <3>5, <3>9 DEF page1
  <2> HIDE DEF new
  <2> QED BY <1>a, <2>1, <2>2, <2>3, CallMoves
<1>14. CASE Catalog!Answered("m")
  <2>1. PICK call \in CatalogCalls : OnItsWay(item, p, call) /\ p.queue[1] = call
    BY <1>14, <1>b DEF Catalog!Answered
  <2> DEFINE done == call.pc = "rendered"
             new == [shown |-> IF done THEN call.view ELSE p.shown, queue |-> Tail(p.queue),
                     form |-> IF call.op \notin {"create", "update"} THEN p.form
                              ELSE IF done THEN Catalog!NoForm
                              ELSE [p.form EXCEPT !.sent = FALSE],
                     deleting |-> IF done /\ call.op = "delete" THEN 0 ELSE p.deleting]
  <2>2. /\ page' = [page EXCEPT !["m"] = new] /\ UNCHANGED <<item, submits>>
        /\ call.pc \in {"rendered", "failed"}
    BY <1>14, <2>1 DEF Catalog!Answered, Catalog!Head1
  <2>3. /\ p.form \in CatalogForms /\ p.shown \in Tables
        /\ p.deleting \in Nat /\ call.view \in Tables
    BY <1>a DEF CatalogPages, CatalogCalls
  <2>4. new.queue = <<>> /\ new.shown = item
    BY <2>1, <2>2, OneCall DEF OnItsWay
  <2>5. /\ new.form \in CatalogForms
        /\ new.form.of \in {0, p.form.of}
    <3>1. [p.form EXCEPT !.sent = FALSE] \in CatalogForms
      BY <2>3, FormTurns
    <3>2. [p.form EXCEPT !.sent = FALSE].of = p.form.of
      BY <2>3, FormTurns
    <3> QED BY <2>3, <3>1, <3>2, FormTurns
  <2>6. new.deleting \in {0, p.deleting}
    OBVIOUS
  <2>7. new \in CatalogPages
    <3>1. <<>> \in Seq(CatalogCalls)
      OBVIOUS
    <3>2. new.shown \in Tables /\ new.deleting \in Nat
      BY <2>3, <2>4, <2>6, <1>a
    <3> QED BY <2>4, <2>5, <3>1, <3>2 DEF CatalogPages
  <2>8. Agrees(item, new)
    <3>1. p.form.of # 0 => p.deleting = 0
      BY DEF CatalogInv, Agrees
    <3> HIDE DEF new
    <3> QED BY <2>4, <2>5, <2>6, <3>1 DEF Agrees
  <2> HIDE DEF new
  <2> QED BY <1>a, <2>2, <2>7, <2>8, PageTurns
<1> QED BY <1>1, <1>2, <1>3, <1>4, <1>5, <1>6, <1>7, <1>8, <1>10, <1>11, <1>12, <1>13, <1>14
       DEF Catalog!Next, Catalog!vars, Catalog!notTable, Catalog!Types, Catalog!Selects,
       Catalog!Fires, Catalog!ClearsAll, Catalog!Arrives

\* What an update that has not run found in its form is still in the row.
LEMMA CatalogStepKeeps == CatalogInv => Catalog!OverwritesWhatItShowedStep
<1> SUFFICES ASSUME CatalogInv, page["m"].queue # <<>>, Catalog!Head1("m").op = "update",
                    Catalog!Head1("m").pc = "sent"
             PROVE  item[Catalog!Head1("m").of] = Catalog!Head1("m").base
  BY DEF Catalog!OverwritesWhatItShowedStep
<1>1. PICK call \in CatalogCalls : OnItsWay(item, page["m"], call)
  BY DEF CatalogInv, Agrees
<1>2. Catalog!Head1("m") = call
  BY <1>1, OneCall DEF OnItsWay, Catalog!Head1
<1> QED BY <1>1, <1>2 DEF OnItsWay

------------------------------------------------------------------------------
(***************************************************************************)
(* What the panel shows and what its steps do.                             *)
(***************************************************************************)
\* The panel in the composition: events are sent only after a probe that succeeded and each
\* probe once, the address follows the choices, and the figures of a day are of that day.
THEOREM PanelKeeps == Spec => []PanelKept
<1> DEFINE P == part = "probes" => ProbesInv
           F == part = "filters" => FiltersInv
           G == part = "figures" => FiguresInv
<1>1. Init => P /\ F /\ G
  BY PartsStart, ProbesInit, FiltersInit, FiguresInit
<1>2. P /\ F /\ G /\ [Next]_vars => P' /\ F' /\ G'
  BY PartStays, PartsStep, ProbesStep, FiltersStep, FiguresStep
<1>3. P /\ F /\ G => PanelKept
  BY ProbesHold, FiguresHold DEF PanelKept, FiltersInv, Filters!FollowsChoices
<1> QED BY <1>1, <1>2, <1>3, PTL DEF Spec

\* The step of a part of the panel is a step of its component.
LEMMA PanelTurns ==
  Next => /\ part = "rules" => Rules!Next
          /\ part = "probes" => Probes!Next
          /\ part = "catalog" => Catalog!Next
          /\ part = "catalogs" => Catalogs!Next
BY DEF Next

\* In the composition no step of the panel saves over what another changed, degrades a
\* verified connection, overwrites a row it did not show or brings a deleted one back.
THEOREM PanelStepsKeep == Spec => PanelSteps
<1> DEFINE R == part = "rules" => RulesInv
           P == part = "probes" => ProbesInv
           C == part = "catalog" => CatalogInv
           D == part = "catalogs" => CatalogsInv
           Keeps == /\ part = "rules" => Rules!FirstSaveKeepsStep
                    /\ part = "probes" => Probes!NotDegradedStep
                    /\ part = "catalog" => Catalog!OverwritesWhatItShowedStep
                    /\ part = "catalogs" => Catalogs!DeletedStaysStep
<1>1. Init => R /\ P /\ C /\ D
  BY PartsStart, RulesInit, ProbesInit, CatalogInit, CatalogsInit
<1>2. R /\ P /\ C /\ D /\ [Next]_vars => R' /\ P' /\ C' /\ D'
  BY PartStays, PartsStep, RulesStep, ProbesStep, CatalogStep, CatalogsStep
<1>3. R /\ P /\ C /\ D /\ [Next]_vars => [Keeps]_vars
  BY PanelTurns, RulesStepKeeps, ProbesStepKeeps, CatalogStepKeeps, CatalogsStepKeeps
<1> QED BY <1>1, <1>2, <1>3, PTL DEF Spec, PanelSteps

------------------------------------------------------------------------------
(***************************************************************************)
(* The links that are sent by mail.                                        *)
(***************************************************************************)
LinkStates == {"none", "valid", "consumed", "expired", "deleted"}
Senders == [pc : {"idle", "issuing"}, link : Nat, old : SUBSET Nat]
Openers == [pc : {"idle", "read", "claimed"}, link : Nat]
\* Links are issued in order, and none takes effect while it can be used.
LinksCount(max) ==
  /\ link \in [1 .. max -> LinkStates] /\ uses \in [1 .. max -> {0, 1}] /\ last \in 0 .. max
  /\ issuer \in [{"i"} -> Senders] /\ consumer \in [Requests -> Openers]
  /\ \A l \in 1 .. max : /\ link[l] = "none" <=> l > last
                         /\ link[l] \in {"none", "valid", "expired"} => uses[l] = 0
\* A request reads a link that was sent.
ReadsKnown(max) ==
  \A r \in Requests : consumer[r].pc = "read" =>
    consumer[r].link \in 1 .. max /\ link[consumer[r].link] # "none"
\* A request that verifies sends its link when it has deleted every other; only the last
\* link is valid, always.
VerificationInv ==
  /\ LinksCount(MaxVerifications) /\ ReadsKnown(MaxVerifications)
  /\ issuer["i"].pc = "issuing" =>
       issuer["i"].old = {l \in 1 .. MaxVerifications : link[l] # "none"}
  /\ \A l \in 1 .. MaxVerifications : link[l] = "valid" => l = last
\* A request that resets holds the last link until it has deleted the others.
ResetInv ==
  /\ LinksCount(MaxResets) /\ ReadsKnown(MaxResets)
  /\ issuer["i"].pc = "issuing" => issuer["i"].link = last /\ last # 0
  /\ issuer["i"].pc = "idle" => \A l \in 1 .. MaxResets : link[l] = "valid" => l = last

\* No link was sent at the start.
LEMMA LinksInit == /\ Verification!Init => VerificationInv
                   /\ Reset!Init => ResetInv
BY Bounds DEF Verification!Init, Reset!Init, Verification!Links, Reset!Links,
   Verification!Idle, Reset!Idle, Verification!Free, Reset!Free, VerificationInv, ResetInv,
   LinksCount, ReadsKnown, LinkStates, Senders, Openers, Verification!LinksAssumption,
   Reset!LinksAssumption

\* A request reads a link that is valid, or ends; another takes it; time or the purge does.
Opened(max) ==
  \E r \in Requests :
    /\ UNCHANGED <<link, uses>>
    /\ \/ \E l \in 1 .. max :
            /\ link[l] = "valid"
            /\ consumer' = [consumer EXCEPT ![r] = [pc |-> "read", link |-> l]]
       \/ consumer' = [consumer EXCEPT ![r] = [pc |-> "idle", link |-> 0]]
Claimed(r) ==
  /\ consumer[r].pc = "read" /\ link[consumer[r].link] \in {"valid", "expired"}
  /\ link' = [link EXCEPT ![consumer[r].link] = "consumed"]
  /\ uses' = [uses EXCEPT ![consumer[r].link] = @ + 1]
  /\ consumer' = [consumer EXCEPT ![r].pc = "claimed"]
Aged(max) ==
  /\ UNCHANGED <<uses, consumer>>
  /\ \/ \E l \in 1 .. max : link[l] = "valid" /\ link' = [link EXCEPT ![l] = "expired"]
     \/ link' = [l \in 1 .. max |-> IF link[l] \in {"expired", "consumed"} THEN "deleted"
                                    ELSE link[l]]
\* What opening a link leaves as it is.
LinksAge(max) ==
  \A l \in 1 .. max : /\ link'[l] = "valid" => link[l] = "valid"
                      /\ link'[l] = "none" <=> link[l] = "none"
                      /\ link[l] = "valid" => link'[l] # "deleted"

\* Opening a link, its expiry and the purge keep the order of the links, spend each once and
\* make none valid.
LEMMA OpeningKeeps ==
  ASSUME NEW max \in Nat, LinksCount(max), ReadsKnown(max), UNCHANGED <<issuer, last>>,
         Opened(max) \/ (\E r \in Requests : Claimed(r)) \/ Aged(max)
  PROVE  LinksCount(max)' /\ ReadsKnown(max)' /\ LinksAge(max)
<1>1. /\ link \in [1 .. max -> LinkStates] /\ uses \in [1 .. max -> {0, 1}]
      /\ consumer \in [Requests -> Openers]
  BY DEF LinksCount
<1>2. CASE Opened(max)
  <2>1. PICK r \in Requests :
          /\ UNCHANGED <<link, uses>>
          /\ \/ \E l \in 1 .. max : /\ link[l] = "valid"
                                    /\ consumer' = [consumer EXCEPT ![r] =
                                         [pc |-> "read", link |-> l]]
             \/ consumer' = [consumer EXCEPT ![r] = [pc |-> "idle", link |-> 0]]
    BY <1>2 DEF Opened
  <2>a. /\ [pc |-> "idle", link |-> 0] \in Openers
        /\ \A l \in 1 .. max : [pc |-> "read", link |-> l] \in Openers
    BY DEF Openers
  <2>2. consumer' \in [Requests -> Openers]
    BY <1>1, <2>1, <2>a
  <2>3. ReadsKnown(max)'
    <3> SUFFICES ASSUME NEW s \in Requests, consumer'[s].pc = "read"
                 PROVE  consumer'[s].link \in 1 .. max /\ link[consumer'[s].link] # "none"
      BY <2>1 DEF ReadsKnown
    <3>1. consumer[s].pc = "read" =>
            consumer[s].link \in 1 .. max /\ link[consumer[s].link] # "none"
      BY DEF ReadsKnown
    <3> QED BY <1>1, <2>1, <3>1
  <2>4. LinksCount(max)' /\ LinksAge(max)
    BY <1>1, <2>1, <2>2 DEF LinksCount, LinksAge
  <2> QED BY <2>3, <2>4
<1>3. ASSUME NEW r \in Requests, Claimed(r)
      PROVE  LinksCount(max)' /\ ReadsKnown(max)' /\ LinksAge(max)
  <2> DEFINE k == consumer[r].link
  <2>1. k \in 1 .. max /\ uses[k] = 0 /\ link[k] \in {"valid", "expired"}
    BY <1>3 DEF Claimed, LinksCount, ReadsKnown
  <2>2. /\ link' \in [1 .. max -> LinkStates] /\ uses' \in [1 .. max -> {0, 1}]
        /\ link'[k] = "consumed"
        /\ \A l \in 1 .. max : l # k => link'[l] = link[l] /\ uses'[l] = uses[l]
    BY <1>1, <1>3, <2>1 DEF Claimed, LinkStates
  <2>3. /\ consumer' \in [Requests -> Openers] /\ consumer'[r].pc = "claimed"
        /\ \A s \in Requests : s # r => consumer'[s] = consumer[s]
    BY <1>1, <1>3 DEF Claimed, Openers
  <2> HIDE DEF k
  <2>4. LinksAge(max)
    BY <2>1, <2>2 DEF LinksAge
  <2>5. LinksCount(max)'
    BY <2>1, <2>2, <2>3, <2>4 DEF LinksCount, LinksAge
  <2>6. ReadsKnown(max)'
    BY <2>3, <2>4 DEF ReadsKnown, LinksAge
  <2> QED BY <2>4, <2>5, <2>6
<1>4. CASE Aged(max)
  <2>1. link' \in [1 .. max -> LinkStates]
    BY <1>1, <1>4 DEF Aged, LinkStates
  <2>2. LinksAge(max) /\ UNCHANGED <<uses, consumer>>
    BY <1>1, <1>4 DEF Aged, LinksAge
  <2>3. \A l \in 1 .. max : link'[l] \in {"none", "valid", "expired"} =>
          link[l] \in {"none", "valid", "expired"}
    BY <1>1, <1>4 DEF Aged
  <2> QED BY <2>1, <2>2, <2>3 DEF LinksCount, LinksAge, ReadsKnown
<1> QED BY <1>2, <1>3, <1>4

\* A request that sends or opens a link that verifies keeps the last one the only valid.
LEMMA VerificationStep ==
  VerificationInv /\ [Verification!Next]_(Verification!vars) => VerificationInv'
<1> SUFFICES ASSUME VerificationInv, [Verification!Next]_(Verification!vars)
             PROVE  VerificationInv'
  OBVIOUS
<1>a. MaxVerifications \in Nat
  BY Bounds DEF Verification!LinksAssumption
<1>1. CASE UNCHANGED Verification!vars
  BY <1>1 DEF Verification!vars, VerificationInv, LinksCount, ReadsKnown
<1>2. CASE Verification!StartsVerification("i")
  BY <1>2 DEF Verification!StartsVerification, Verification!Links, VerificationInv, LinksCount,
     ReadsKnown, Senders
<1>3. CASE Verification!CommitsVerification("i")
  <2> DEFINE new == [l \in 1 .. MaxVerifications |->
        IF l = last + 1 THEN "valid"
        ELSE IF l \in issuer["i"].old THEN "deleted" ELSE link[l]]
  <2>1. /\ link' = new /\ last' = last + 1 /\ last < MaxVerifications
        /\ issuer' = [issuer EXCEPT !["i"] = [pc |-> "idle", link |-> 0, old |-> {}]]
        /\ UNCHANGED <<consumer, uses>>
        /\ issuer["i"].old = {l \in 1 .. MaxVerifications : link[l] # "none"}
    BY <1>3 DEF Verification!CommitsVerification, Verification!Links, Verification!New,
       Verification!DeletedOld, Verification!Idle, VerificationInv
  <2>2. \A l \in 1 .. MaxVerifications :
          /\ l = last + 1 => new[l] = "valid" /\ link[l] = "none"
          /\ l <= last => new[l] = "deleted"
          /\ l > last + 1 => new[l] = "none"
    BY <1>a, <2>1 DEF VerificationInv, LinksCount
  <2>3. /\ new \in [1 .. MaxVerifications -> LinkStates]
        /\ issuer' \in [{"i"} -> Senders] /\ issuer'["i"].pc = "idle" /\ last \in Nat
    BY <1>a, <2>1 DEF VerificationInv, LinksCount, LinkStates, Senders
  <2> HIDE DEF new
  <2> QED BY <1>a, <2>1, <2>2, <2>3 DEF VerificationInv, LinksCount, ReadsKnown
<1>4. CASE \/ \E r \in Requests :
                  \/ \E l \in 1 .. MaxVerifications : Verification!ReadsLink(r, l)
                  \/ Verification!Claims(r) \/ Verification!Refused(r)
                  \/ Verification!TakesEffect(r) \/ Verification!Dies(r)
           \/ \E l \in 1 .. MaxVerifications : Verification!Expires(l)
           \/ Verification!Purges
  <2>1. /\ UNCHANGED <<issuer, last>>
        /\ \/ Opened(MaxVerifications) \/ Aged(MaxVerifications)
           \/ \E r \in Requests : Claimed(r)
    BY <1>4
       DEF Verification!ReadsLink, Verification!Claims, Verification!Refused,
           Verification!TakesEffect, Verification!Dies, Verification!Expires,
           Verification!Purges, Verification!Valid, Verification!Links, Verification!Free,
           Verification!Unused, Opened, Claimed, Aged
  <2>2. /\ LinksCount(MaxVerifications)' /\ ReadsKnown(MaxVerifications)'
        /\ LinksAge(MaxVerifications)
    BY <1>a, <2>1, OpeningKeeps DEF VerificationInv
  <2> QED BY <2>1, <2>2 DEF VerificationInv, LinksAge
<1> QED BY <1>1, <1>2, <1>3, <1>4 DEF Verification!Next, Verification!Links,
   Verification!CreatesReset, Verification!PrunesResets

\* Of a request that resets: it keeps the link it sent, which no other follows.
LEMMA ResetStep == ResetInv /\ [Reset!Next]_(Reset!vars) => ResetInv' /\ Reset!LastWorksStep
<1> SUFFICES ASSUME ResetInv, [Reset!Next]_(Reset!vars)
             PROVE  ResetInv' /\ Reset!LastWorksStep
  OBVIOUS
<1>a. MaxResets \in Nat
  BY Bounds DEF Reset!LinksAssumption
<1>1. CASE UNCHANGED Reset!vars
  BY <1>1 DEF Reset!vars, ResetInv, LinksCount, ReadsKnown, Reset!LastWorksStep
<1>2. CASE Reset!CreatesReset("i")
  <2>1. /\ link' = [link EXCEPT ![last + 1] = "valid"] /\ last' = last + 1 /\ last < MaxResets
        /\ issuer' = [issuer EXCEPT !["i"] =
             [pc |-> "issuing", link |-> last + 1, old |-> {}]]
        /\ UNCHANGED <<consumer, uses>> /\ issuer["i"].pc = "idle"
    BY <1>2 DEF Reset!CreatesReset, Reset!New
  <2>2. /\ last + 1 \in 1 .. MaxResets /\ last \in Nat
        /\ link \in [1 .. MaxResets -> LinkStates] /\ link[last + 1] = "none"
    BY <1>a, <2>1 DEF ResetInv, LinksCount
  <2>3. /\ link' \in [1 .. MaxResets -> LinkStates] /\ link'[last + 1] = "valid"
        /\ \A l \in 1 .. MaxResets : l # last + 1 => link'[l] = link[l]
    BY <2>1, <2>2 DEF LinkStates
  <2>4. /\ issuer' \in [{"i"} -> Senders] /\ issuer'["i"].pc = "issuing"
        /\ issuer'["i"].link = last'
    BY <2>1, <2>2 DEF ResetInv, LinksCount, Senders
  <2> QED BY <1>a, <2>1, <2>2, <2>3, <2>4
          DEF ResetInv, LinksCount, ReadsKnown, Reset!LastWorksStep
<1>3. CASE Reset!PrunesResets("i")
  <2>1. /\ link' = [l \in 1 .. MaxResets |->
             IF link[l] # "none" /\ l # last THEN "deleted" ELSE link[l]]
        /\ issuer' = [issuer EXCEPT !["i"] = [pc |-> "idle", link |-> 0, old |-> {}]]
        /\ UNCHANGED <<last, consumer, uses>> /\ last # 0
    BY <1>3 DEF Reset!PrunesResets, Reset!OtherResets, Reset!Links, Reset!Idle, ResetInv
  <2>2. /\ link' \in [1 .. MaxResets -> LinkStates]
        /\ issuer' \in [{"i"} -> Senders] /\ issuer'["i"].pc = "idle"
    BY <2>1 DEF ResetInv, LinksCount, LinkStates, Senders
  <2>3. \A l \in 1 .. MaxResets : /\ link'[l] = "valid" => l = last
                                  /\ link'[l] = "none" <=> link[l] = "none"
                                  /\ link'[l] \in {"none", "valid", "expired"} =>
                                       link'[l] = link[l]
    BY <2>1 DEF ResetInv, LinksCount
  <2>4. last \in 1 .. MaxResets /\ link'[last] = link[last]
    BY <1>a, <2>1 DEF ResetInv, LinksCount
  <2> QED BY <2>1, <2>2, <2>3, <2>4 DEF ResetInv, LinksCount, ReadsKnown, Reset!LastWorksStep
<1>4. CASE \/ \E r \in Requests :
                  \/ \E l \in 1 .. MaxResets : Reset!ReadsLink(r, l)
                  \/ Reset!Claims(r) \/ Reset!Refused(r)
                  \/ Reset!TakesEffect(r) \/ Reset!Dies(r)
           \/ \E l \in 1 .. MaxResets : Reset!Expires(l)
           \/ Reset!Purges
  <2>1. /\ UNCHANGED <<issuer, last>>
        /\ \/ Opened(MaxResets) \/ Aged(MaxResets)
           \/ \E r \in Requests : Claimed(r)
    BY <1>4
       DEF Reset!ReadsLink, Reset!Claims, Reset!Refused, Reset!TakesEffect, Reset!Dies,
           Reset!Expires, Reset!Purges, Reset!Valid, Reset!Links, Reset!Free, Reset!Unused,
           Opened, Claimed, Aged
  <2>2. LinksCount(MaxResets)' /\ ReadsKnown(MaxResets)' /\ LinksAge(MaxResets)
    BY <1>a, <2>1, OpeningKeeps DEF ResetInv
  <2>3. last > 0 => last \in 1 .. MaxResets
    BY <1>a DEF ResetInv, LinksCount
  <2> QED BY <2>1, <2>2, <2>3 DEF ResetInv, LinksAge, Reset!LastWorksStep
<1> QED BY <1>1, <1>2, <1>3, <1>4 DEF Reset!Next, Reset!Links,
   Reset!StartsVerification, Reset!CommitsVerification

\* The promises of the links follow from what holds of them.
LEMMA LinksHold ==
  /\ VerificationInv => Verification!SingleUse /\ Verification!OnlyNewest
  /\ ResetInv => Reset!OnlyNewest
<1>1. VerificationInv => Verification!SingleUse
  BY DEF VerificationInv, LinksCount, Verification!SingleUse, Verification!Links
<1>2. VerificationInv => Verification!OnlyNewest
  BY DEF VerificationInv, Verification!OnlyNewest, Verification!Valid, Verification!Links
<1>3. ResetInv => Reset!OnlyNewest
  BY DEF ResetInv, Reset!OnlyNewest, Reset!Valid, Reset!Links
<1> QED BY <1>1, <1>2, <1>3

------------------------------------------------------------------------------
(***************************************************************************)
(* The counter of attempts.                                                *)
(***************************************************************************)
AttemptRows == [exists : BOOLEAN, count : Nat, end : Nat]
AttemptPlaces == {"idle", "open", "decide"}
Attempting == [pc : AttemptPlaces, at : Nat]
\* The row, the clock and the requests are numbers and places.
ThrottleInv ==
  authNow \in Nat /\ authRow \in AttemptRows /\ authRequest \in [Requests -> Attempting]
\* One request at a time: what was allowed was counted before, and the attempt to be decided
\* too; a request that opens a window found none, and none can have been opened since.
AttemptsInv ==
  /\ authNow \in Nat /\ authRow \in AttemptRows /\ authRequest \in [{"q"} -> Attempting]
  /\ allowed \in Nat /\ allowed <= Limit
  /\ authRequest["q"].pc = "open" => ~ Attempts!InWindow
  /\ authRow.exists => allowed <= authRow.count
  /\ authRequest["q"].pc = "decide" =>
       IF authRow.exists THEN allowed < authRow.count ELSE allowed = 0

\* The key has no row at the start.
LEMMA AttemptsInit == /\ Throttle!Init => ThrottleInv
                      /\ Attempts!Init => AttemptsInv
<1>1. Throttle!Init => ThrottleInv
  BY DEF Throttle!Init, Throttle!Free, ThrottleInv, AttemptRows, Attempting, AttemptPlaces
<1>2. Attempts!Init => AttemptsInv
  BY Bounds DEF Attempts!Init, Attempts!Free, Attempts!ThrottleAssumption, AttemptsInv,
     AttemptRows, Attempting, AttemptPlaces
<1> QED BY <1>1, <1>2

\* Two requests at once keep the numbers, and only one that found no window moves its end.
LEMMA ThrottleStep ==
  ThrottleInv /\ [Throttle!Next]_(Throttle!vars) =>
    ThrottleInv' /\ Throttle!BlockNotExtendedStep
<1> SUFFICES ASSUME ThrottleInv, [Throttle!Next]_(Throttle!vars)
             PROVE  ThrottleInv' /\ Throttle!BlockNotExtendedStep
  OBVIOUS
<1>a. Window \in Nat
  BY Bounds DEF Throttle!ThrottleAssumption
<1>b. /\ authNow \in Nat /\ authRow \in AttemptRows /\ authRequest \in [Requests -> Attempting]
      /\ authRow.count \in Nat /\ authRow.end \in Nat
  BY DEF ThrottleInv, AttemptRows
<1>1. CASE UNCHANGED Throttle!vars \/ Throttle!Tick
  BY <1>1, <1>b DEF Throttle!vars, Throttle!Tick, ThrottleInv, Throttle!BlockNotExtendedStep
<1>2. CASE Throttle!Purges
  <2>1. authRow' \in AttemptRows
    BY <1>b, <1>2 DEF Throttle!Purges, AttemptRows
  <2> QED BY <1>2, <1>b, <2>1 DEF Throttle!Purges, ThrottleInv, Throttle!BlockNotExtendedStep
<1>3. ASSUME NEW r \in Requests, Throttle!Increments(r)
      PROVE  ThrottleInv' /\ Throttle!BlockNotExtendedStep
  <2>1. authRow.count + 1 \in Nat /\ [pc |-> "decide", at |-> authNow] \in Attempting
    BY <1>b DEF Attempting, AttemptPlaces
  <2>2. authRow' \in AttemptRows /\ authRow'.end = authRow.end
    BY <1>b, <1>3, <2>1 DEF Throttle!Increments, Throttle!Counted, AttemptRows
  <2> QED BY <1>3, <1>b, <2>1, <2>2
          DEF Throttle!Increments, ThrottleInv, Throttle!BlockNotExtendedStep
<1>4. ASSUME NEW r \in Requests, Throttle!FindsNone(r) \/ Throttle!Decides(r)
      PROVE  ThrottleInv' /\ Throttle!BlockNotExtendedStep
  <2>1. /\ [pc |-> "open", at |-> authNow] \in Attempting /\ Throttle!Free \in Attempting
    BY <1>b DEF Attempting, AttemptPlaces, Throttle!Free
  <2> QED BY <1>4, <1>b, <2>1 DEF Throttle!FindsNone, Throttle!Decides, ThrottleInv,
             Throttle!BlockNotExtendedStep
<1>5. ASSUME NEW r \in Requests, Throttle!Opens(r)
      PROVE  ThrottleInv' /\ Throttle!BlockNotExtendedStep
  <2>1. /\ Throttle!Free \in Attempting /\ Throttle!Free.pc = "idle"
        /\ authRequest[r].at + Window \in Nat
    BY <1>a, <1>b DEF Attempting, AttemptPlaces, Throttle!Free
  <2>2. authRow' \in AttemptRows
    BY <1>5, <2>1 DEF Throttle!Opens, Throttle!Opened, AttemptRows
  <2> QED BY <1>5, <1>b, <2>1, <2>2
          DEF Throttle!Opens, ThrottleInv, Throttle!BlockNotExtendedStep
<1> QED BY <1>1, <1>2, <1>3, <1>4, <1>5 DEF Throttle!Next

\* One request after another: each attempt that is allowed was counted, within the limit.
LEMMA AttemptsStep == AttemptsInv /\ [Attempts!Next]_(Attempts!vars) => AttemptsInv'
<1> SUFFICES ASSUME AttemptsInv, [Attempts!Next]_(Attempts!vars) PROVE AttemptsInv'
  OBVIOUS
<1> DEFINE q == authRequest["q"]
<1>a. Window \in Nat /\ Limit \in Nat \ {0}
  BY Bounds DEF Attempts!ThrottleAssumption
<1>b. /\ authNow \in Nat /\ authRow \in AttemptRows /\ authRequest \in [{"q"} -> Attempting]
      /\ authRow.count \in Nat /\ authRow.end \in Nat /\ authRow.exists \in BOOLEAN
      /\ allowed \in Nat /\ q.at \in Nat
  BY DEF AttemptsInv, AttemptRows, Attempting
<1>1. CASE UNCHANGED Attempts!vars \/ Attempts!Tick
  BY <1>1, <1>b DEF Attempts!vars, Attempts!Tick, AttemptsInv, Attempts!InWindow
<1>2. CASE Attempts!Purges
  <2>1. authRow' \in AttemptRows /\ ~ authRow'.exists
    BY <1>b, <1>2 DEF Attempts!Purges, AttemptRows
  <2> QED BY <1>2, <1>a, <1>b, <2>1 DEF Attempts!Purges, AttemptsInv, Attempts!InWindow
<1>3. CASE Attempts!Increments("q")
  <2>1. /\ authRow.count + 1 \in Nat /\ [pc |-> "decide", at |-> authNow] \in Attempting
    BY <1>b DEF Attempting, AttemptPlaces
  <2>2. /\ authRow' \in AttemptRows /\ authRow'.count = authRow.count + 1
        /\ authRow'.exists = authRow.exists /\ authRow.exists
    BY <1>b, <1>3, <2>1 DEF Attempts!Increments, Attempts!Counted, Attempts!InWindow,
       AttemptRows
  <2>3. authRequest' \in [{"q"} -> Attempting] /\ authRequest'["q"].pc = "decide"
    BY <1>b, <1>3, <2>1 DEF Attempts!Increments
  <2> QED BY <1>3, <1>a, <1>b, <2>2, <2>3 DEF Attempts!Increments, AttemptsInv
<1>4. CASE Attempts!FindsNone("q")
  <2>1. [pc |-> "open", at |-> authNow] \in Attempting
    BY <1>b DEF Attempting, AttemptPlaces
  <2>2. authRequest' \in [{"q"} -> Attempting] /\ authRequest'["q"].pc = "open"
    BY <1>b, <1>4, <2>1 DEF Attempts!FindsNone
  <2> QED BY <1>4, <1>b, <2>2 DEF Attempts!FindsNone, AttemptsInv, Attempts!InWindow
<1>5. CASE Attempts!Opens("q")
  <2>1. Attempts!Free \in Attempting /\ Attempts!Free.pc = "idle" /\ q.at + Window \in Nat
    BY <1>a, <1>b DEF Attempting, AttemptPlaces, Attempts!Free
  <2>2. authRow' \in AttemptRows /\ authRow'.count = 1
    BY <1>5, <2>1 DEF Attempts!Opens, Attempts!Opened, AttemptRows
  <2>3. authRequest' \in [{"q"} -> Attempting] /\ authRequest'["q"].pc = "idle"
    BY <1>b, <1>5, <2>1 DEF Attempts!Opens
  <2>4. allowed' = 1 /\ authNow' = authNow
    BY <1>5 DEF Attempts!Opens, AttemptsInv, Attempts!InWindow
  <2> QED BY <1>a, <1>b, <2>2, <2>3, <2>4 DEF AttemptsInv
<1>6. CASE Attempts!Decides("q")
  <2>1. Attempts!Free \in Attempting /\ Attempts!Free.pc = "idle"
    BY DEF Attempting, AttemptPlaces, Attempts!Free
  <2>2. authRequest' \in [{"q"} -> Attempting] /\ authRequest'["q"].pc = "idle"
    BY <1>b, <1>6, <2>1 DEF Attempts!Decides
  <2>3. allowed' = IF ~ authRow.exists \/ authRow.count <= Limit THEN allowed + 1 ELSE allowed
    BY <1>6 DEF Attempts!Decides, Attempts!Within
  <2>4. /\ UNCHANGED <<authNow, authRow>>
        /\ IF authRow.exists THEN allowed < authRow.count ELSE allowed = 0
    BY <1>6 DEF Attempts!Decides, AttemptsInv
  <2> QED BY <1>a, <1>b, <2>2, <2>3, <2>4 DEF AttemptsInv
<1> QED BY <1>1, <1>2, <1>3, <1>4, <1>5, <1>6 DEF Attempts!Next

------------------------------------------------------------------------------
(***************************************************************************)
(* The steps that are left out.                                            *)
(***************************************************************************)
SkipRows == [exists : BOOLEAN, completed : BOOLEAN, skipped : SUBSET Skips!Optional,
             last : Skips!Steps]
Skipping == [pc : {"idle", "skip", "finish"}, step : Skips!Steps,
             skipped : SUBSET Skips!Optional]
\* One request at a time: what is to be written has every step the row has.
SkipsInv ==
  /\ onboardingRow \in SkipRows /\ onboardingRequest \in [{"q"} -> Skipping]
  /\ ~ onboardingRow.exists => onboardingRow.skipped = {}
  /\ onboardingRequest["q"].pc = "skip" =>
       /\ onboardingRow.exists /\ onboardingRequest["q"].skipped = onboardingRow.skipped
       /\ onboardingRequest["q"].step \in Skips!Optional

\* No step was left out at the start.
LEMMA SkipsInit == Skips!Init => SkipsInv
<1> SUFFICES ASSUME Skips!Init PROVE SkipsInv
  OBVIOUS
<1>1. onboardingRow \in SkipRows /\ onboardingRow.skipped = {}
  <2>1. /\ Skips!Started \in SkipRows /\ Skips!NoRow \in SkipRows
        /\ Skips!Started.skipped = {} /\ Skips!NoRow.skipped = {}
    BY DEF Skips!Started, Skips!NoRow, SkipRows, Skips!Steps
  <2> QED BY <2>1 DEF Skips!Init
<1>2. onboardingRequest \in [{"q"} -> Skipping] /\ onboardingRequest["q"].pc = "idle"
  BY DEF Skips!Init, Skips!Free, Skipping, Skips!Steps
<1> QED BY <1>1, <1>2 DEF SkipsInv

\* The row the pages work on has the steps left out of the one that is stored.
LEMMA SkipsRecord ==
  SkipsInv => /\ Skips!Record \in SkipRows /\ Skips!Record.exists
              /\ Skips!Record.skipped = onboardingRow.skipped
              /\ onboardingRow.exists => Skips!Record = onboardingRow
BY DEF SkipsInv, Skips!Record, SkipRows, Skips!Steps, Skips!Finish

\* Nothing that was left out is asked for again.
LEMMA SkipsStep ==
  SkipsInv /\ [Skips!Next]_(Skips!vars) => SkipsInv' /\ Skips!SkipsKeptStep
<1> SUFFICES ASSUME SkipsInv, [Skips!Next]_(Skips!vars) PROVE SkipsInv' /\ Skips!SkipsKeptStep
  OBVIOUS
<1> DEFINE q == onboardingRequest["q"]
<1>a. /\ onboardingRow \in SkipRows /\ onboardingRequest \in [{"q"} -> Skipping]
      /\ q \in Skipping /\ Skips!Free \in Skipping /\ Skips!Free.pc = "idle"
  BY DEF SkipsInv, Skipping, Skips!Free, Skips!Steps
<1>1. CASE UNCHANGED <<onboardingRow, onboardingRequest>>
  BY <1>1 DEF SkipsInv, Skips!SkipsKeptStep
<1>2. ASSUME NEW step \in Skips!Steps, Skips!Visits(step)
      PROVE  SkipsInv' /\ Skips!SkipsKeptStep
  <2>1. /\ onboardingRow' \in {Skips!Record, [Skips!Record EXCEPT !.last = step]}
        /\ onboardingRequest' = onboardingRequest
    BY <1>2 DEF Skips!Visits
  <2>2. /\ onboardingRow' \in SkipRows /\ onboardingRow'.exists
        /\ onboardingRow'.skipped = onboardingRow.skipped
    BY <2>1, SkipsRecord DEF SkipRows
  <2> QED BY <2>1, <2>2 DEF SkipsInv, Skips!SkipsKeptStep
<1>3. ASSUME NEW step \in Skips!Steps, Skips!ReadsSkipped("q", step)
      PROVE  SkipsInv' /\ Skips!SkipsKeptStep
  <2> DEFINE new == [pc |-> "skip", step |-> step, skipped |-> Skips!Record.skipped]
  <2>1. new \in Skipping
    BY SkipsRecord DEF Skipping, SkipRows
  <2>2. /\ step \in Skips!Optional /\ onboardingRow' = Skips!Record
        /\ onboardingRequest' = [onboardingRequest EXCEPT !["q"] = new]
    BY <1>3 DEF Skips!ReadsSkipped, Skips!Skippable
  <2>3. onboardingRequest' \in [{"q"} -> Skipping] /\ onboardingRequest'["q"] = new
    BY <1>a, <2>1, <2>2
  <2>4. new.skipped = Skips!Record.skipped /\ new.step = step
    OBVIOUS
  <2> HIDE DEF new
  <2> QED BY <2>2, <2>3, <2>4, SkipsRecord DEF SkipsInv, Skips!SkipsKeptStep
<1>4. CASE Skips!WritesSkipped("q")
  <2>1. /\ onboardingRequest' = [onboardingRequest EXCEPT !["q"] = Skips!Free] /\ q.pc = "skip"
        /\ q.step \in Skips!Optional
        /\ onboardingRow' = IF q.step \in q.skipped THEN onboardingRow
                            ELSE [onboardingRow EXCEPT !.skipped = q.skipped \cup {q.step}]
    BY <1>4 DEF Skips!WritesSkipped, Skips!WithStep, SkipsInv
  <2>2. onboardingRow.exists /\ q.skipped = onboardingRow.skipped
    BY <2>1 DEF SkipsInv
  <2> DEFINE S == q.skipped \cup {q.step}
  <2>3. S \in SUBSET Skips!Optional /\ onboardingRow.skipped \subseteq S
    BY <1>a, <2>1, <2>2 DEF Skipping
  <2>4. /\ onboardingRow' \in SkipRows /\ onboardingRow.skipped \subseteq onboardingRow'.skipped
        /\ onboardingRow'.exists
    <3>1. \/ onboardingRow' = onboardingRow
          \/ onboardingRow' = [onboardingRow EXCEPT !.skipped = S]
      BY <2>1
    <3> HIDE DEF S
    <3> QED BY <1>a, <2>2, <2>3, <3>1 DEF SkipRows
  <2>5. onboardingRequest' \in [{"q"} -> Skipping] /\ onboardingRequest'["q"].pc = "idle"
    BY <1>a, <2>1
  <2> QED BY <2>4, <2>5 DEF SkipsInv, Skips!SkipsKeptStep
<1>5. CASE Skips!ReadsFinish("q")
  <2>1. [Skips!Free EXCEPT !.pc = "finish"] \in Skipping
    BY DEF Skips!Free, Skipping, Skips!Steps
  <2>2. /\ onboardingRequest' =
             [onboardingRequest EXCEPT !["q"] = [Skips!Free EXCEPT !.pc = "finish"]]
        /\ onboardingRow' = onboardingRow /\ [Skips!Free EXCEPT !.pc = "finish"].pc = "finish"
    BY <1>5 DEF Skips!ReadsFinish, Skips!Free
  <2> QED BY <1>a, <2>1, <2>2 DEF SkipsInv, Skips!SkipsKeptStep
<1>6. CASE Skips!WritesFinish("q")
  <2>1. /\ onboardingRequest' = [onboardingRequest EXCEPT !["q"] = Skips!Free]
        /\ \/ onboardingRow' = onboardingRow
           \/ onboardingRow' = [onboardingRow EXCEPT !.completed = TRUE, !.last = 7]
    BY <1>6 DEF Skips!WritesFinish, Skips!Finish
  <2>a. 7 \in Skips!Steps
    BY DEF Skips!Steps
  <2>2. /\ onboardingRow' \in SkipRows /\ onboardingRow'.skipped = onboardingRow.skipped
        /\ onboardingRow'.exists = onboardingRow.exists
    BY <1>a, <2>1, <2>a DEF SkipRows
  <2>3. onboardingRequest' \in [{"q"} -> Skipping] /\ onboardingRequest'["q"].pc = "idle"
    BY <1>a, <2>1
  <2>4. ~ onboardingRow'.exists => onboardingRow'.skipped = {}
    BY <2>2 DEF SkipsInv
  <2> QED BY <2>2, <2>3, <2>4 DEF SkipsInv, Skips!SkipsKeptStep
<1> QED BY <1>1, <1>2, <1>3, <1>4, <1>5, <1>6 DEF Skips!Next, Skips!vars, Skips!Saves,
   Skips!Clears

------------------------------------------------------------------------------
(***************************************************************************)
(* The people of an organization.                                          *)
(***************************************************************************)
\* Of some positions of a list there is a first one.
LEMMA Smallest ==
  ASSUME NEW S, S \subseteq Nat, S # {}
  PROVE  \E k \in S : \A j \in S : k <= j
<1>1. PICK k \in S : \A j \in S : ~ (<<j, k>> \in OpToRel(<, Nat))
  BY NatLessThanWellFounded, WFMin
<1>2. \A j \in S : ~ (j < k)
  BY <1>1 DEF OpToRel
<1> QED BY <1>2

\* A list without one of its places.
LEMMA PlaceTaken ==
  ASSUME NEW T, NEW s \in Seq(T), NEW k \in 1 .. Len(s)
  PROVE  LET r == SubSeq(s, 1, k - 1) \o SubSeq(s, k + 1, Len(s))
         IN  /\ r \in Seq(T) /\ Len(r) = Len(s) - 1
             /\ \A j \in 1 .. Len(r) : r[j] = IF j < k THEN s[j] ELSE s[j + 1]
<1> DEFINE a == SubSeq(s, 1, k - 1)
           b == SubSeq(s, k + 1, Len(s))
<1>1. Len(s) \in Nat /\ k \in Nat /\ s \in [1 .. Len(s) -> T]
  OBVIOUS
<1>2. /\ a \in Seq(T) /\ Len(a) = k - 1
      /\ \A j \in 1 .. k - 1 : a[j] = s[j]
  <2>1. 1 \in Int /\ k - 1 \in Int /\ \A i \in 1 .. k - 1 : s[i] \in T
    BY <1>1
  <2>2. /\ a \in Seq(T) /\ Len(a) = IF 1 <= k - 1 THEN k - 1 - 1 + 1 ELSE 0
        /\ \A i \in 1 .. k - 1 - 1 + 1 : a[i] = s[1 + i - 1]
    BY <2>1, SubSeqProperties
  <2> QED BY <1>1, <2>2
<1>3. /\ b \in Seq(T) /\ Len(b) = Len(s) - k
      /\ \A j \in 1 .. Len(s) - k : b[j] = s[k + j]
  <2>1. k + 1 \in Int /\ Len(s) \in Int /\ \A i \in k + 1 .. Len(s) : s[i] \in T
    BY <1>1
  <2>2. /\ b \in Seq(T)
        /\ Len(b) = IF k + 1 <= Len(s) THEN Len(s) - (k + 1) + 1 ELSE 0
        /\ \A i \in 1 .. Len(s) - (k + 1) + 1 : b[i] = s[k + 1 + i - 1]
    BY <2>1, SubSeqProperties
  <2> QED BY <1>1, <2>2
<1> HIDE DEF a, b
<1>4. /\ a \o b \in Seq(T) /\ Len(a \o b) = Len(s) - 1
      /\ \A j \in 1 .. Len(s) - 1 : (a \o b)[j] = IF j <= k - 1 THEN a[j] ELSE b[j - (k - 1)]
  <2>1. /\ a \o b \in Seq(T) /\ Len(a \o b) = Len(a) + Len(b)
        /\ \A i \in 1 .. Len(a) + Len(b) :
             (a \o b)[i] = IF i <= Len(a) THEN a[i] ELSE b[i - Len(a)]
    BY <1>2, <1>3, ConcatProperties, Zenon
  <2>2. Len(a) + Len(b) = Len(s) - 1
    BY <1>1, <1>2, <1>3
  <2> QED BY <1>2, <2>1, <2>2
<1>5. \A j \in 1 .. Len(s) - 1 : (a \o b)[j] = IF j < k THEN s[j] ELSE s[j + 1]
  <2> SUFFICES ASSUME NEW j \in 1 .. Len(s) - 1
               PROVE  (a \o b)[j] = IF j < k THEN s[j] ELSE s[j + 1]
    OBVIOUS
  <2>1. CASE j < k
    BY <1>1, <1>2, <1>4, <2>1
  <2>2. CASE ~ (j < k)
    <3>1. j - (k - 1) \in 1 .. Len(s) - k /\ k + (j - (k - 1)) = j + 1
      BY <1>1, <2>2
    <3> QED BY <1>1, <1>3, <1>4, <2>2, <3>1
  <2> QED BY <2>1, <2>2
<1> QED BY <1>4, <1>5 DEF a, b

\* Who is in a list, where nobody is twice.
In(s) == {s[k] : k \in 1 .. Len(s)}
Distinct(s) == \A j, k \in 1 .. Len(s) : s[j] = s[k] => j = k

\* Who leaves a list leaves the others, in their order.
LEMMA OneLeaves ==
  ASSUME NEW T, NEW s \in Seq(T), NEW p \in In(s), Distinct(s)
  PROVE  LET k == CHOOSE i \in 1 .. Len(s) : s[i] = p
             r == SubSeq(s, 1, k - 1) \o SubSeq(s, k + 1, Len(s))
         IN  /\ r \in Seq(T) /\ Len(r) = Len(s) - 1
             /\ In(r) = In(s) \ {p} /\ Distinct(r)
<1> DEFINE k == CHOOSE i \in 1 .. Len(s) : s[i] = p
           r == SubSeq(s, 1, k - 1) \o SubSeq(s, k + 1, Len(s))
<1>1. k \in 1 .. Len(s) /\ s[k] = p
  BY DEF In
<1> HIDE DEF k
<1>2. /\ r \in Seq(T) /\ Len(r) = Len(s) - 1
      /\ \A j \in 1 .. Len(r) : r[j] = IF j < k THEN s[j] ELSE s[j + 1]
  BY <1>1, PlaceTaken
<1> HIDE DEF r
<1>3. Len(s) \in Nat /\ k \in Nat
  BY <1>1
<1>4. Distinct(r)
  <2> SUFFICES ASSUME NEW i \in 1 .. Len(r), NEW j \in 1 .. Len(r), r[i] = r[j]
               PROVE  i = j
    BY DEF Distinct
  <2> DEFINE a == IF i < k THEN i ELSE i + 1
             b == IF j < k THEN j ELSE j + 1
  <2>1. a \in 1 .. Len(s) /\ b \in 1 .. Len(s) /\ (a = b => i = j)
    BY <1>2, <1>3
  <2>2. r[i] = s[a] /\ r[j] = s[b]
    BY <1>2
  <2> HIDE DEF a, b
  <2> QED BY <2>1, <2>2 DEF Distinct
<1>5. ASSUME NEW x \in In(r) PROVE x \in In(s) \ {p}
  <2>1. PICK j \in 1 .. Len(r) : x = r[j]
    BY DEF In
  <2> DEFINE b == IF j < k THEN j ELSE j + 1
  <2>2. b \in 1 .. Len(s) /\ b # k /\ x = s[b]
    BY <1>2, <1>3, <2>1
  <2> HIDE DEF b
  <2> QED BY <1>1, <2>2 DEF In, Distinct
<1>6. ASSUME NEW x \in In(s), x # p PROVE x \in In(r)
  <2>1. PICK b \in 1 .. Len(s) : x = s[b]
    BY DEF In
  <2> DEFINE j == IF b < k THEN b ELSE b - 1
  <2>2. j \in 1 .. Len(r) /\ r[j] = s[b]
    BY <1>1, <1>2, <1>3, <1>6, <2>1
  <2> HIDE DEF j
  <2> QED BY <2>1, <2>2 DEF In
<1>7. In(r) = In(s) \ {p}
  BY <1>5, <1>6
<1> QED BY <1>2, <1>4, <1>7 DEF r, k

\* Who joins a list is its last.
LEMMA OneJoins ==
  ASSUME NEW T, NEW s \in Seq(T), NEW p \in T
  PROVE  /\ Append(s, p) \in Seq(T) /\ In(Append(s, p)) = In(s) \cup {p}
         /\ p \notin In(s) /\ Distinct(s) => Distinct(Append(s, p))
<1> DEFINE r == Append(s, p)
<1>1. /\ r \in Seq(T) /\ Len(r) = Len(s) + 1 /\ Len(s) \in Nat
      /\ \A j \in 1 .. Len(r) : r[j] = IF j <= Len(s) THEN s[j] ELSE p
  OBVIOUS
<1> HIDE DEF r
<1>2. ASSUME NEW x \in In(r) PROVE x \in In(s) \cup {p}
  <2>1. PICK j \in 1 .. Len(r) : x = r[j]
    BY DEF In
  <2> QED BY <1>1, <2>1 DEF In
<1>3. ASSUME NEW x \in In(s) \cup {p} PROVE x \in In(r)
  <2>1. CASE x = p
    <3>1. Len(r) \in 1 .. Len(r) /\ r[Len(r)] = p
      BY <1>1
    <3> QED BY <2>1, <3>1 DEF In
  <2>2. CASE x # p
    <3>1. PICK j \in 1 .. Len(s) : x = s[j]
      BY <2>2 DEF In
    <3>2. j \in 1 .. Len(r) /\ r[j] = x
      BY <1>1, <3>1
    <3> QED BY <3>2 DEF In
  <2> QED BY <2>1, <2>2
<1>4. p \notin In(s) /\ Distinct(s) => Distinct(r)
  <2> SUFFICES ASSUME p \notin In(s), Distinct(s), NEW i \in 1 .. Len(r), NEW j \in 1 .. Len(r),
                      r[i] = r[j]
               PROVE  i = j
    BY DEF Distinct
  <2>1. CASE i <= Len(s) /\ j <= Len(s)
    BY <1>1, <2>1 DEF Distinct
  <2>2. CASE i <= Len(s) /\ ~ (j <= Len(s))
    BY <1>1, <2>2 DEF In
  <2>3. CASE ~ (i <= Len(s)) /\ j <= Len(s)
    BY <1>1, <2>3 DEF In
  <2>4. CASE ~ (i <= Len(s)) /\ ~ (j <= Len(s))
    BY <1>1, <2>4
  <2> QED BY <1>1, <2>1, <2>2, <2>3, <2>4
<1> QED BY <1>1, <1>2, <1>3, <1>4 DEF r

------------------------------------------------------------------------------
(***************************************************************************)
(* The owner.                                                              *)
(***************************************************************************)
Anybody == People \cup {Roster!Nobody}
TeamRequests == [op : Roster!Operations \cup {"none"}, by : Anybody, who : Anybody,
                 role : Roster!Roles, invitation : Nat]
InvitationRows == [person : Anybody, role : {"ADMIN", "AGENT", "VIEWER"}, live : BOOLEAN,
                   status : {"NONE", "PENDING", "ACCEPTED", "REJECTED", "REVOKED"}]
TeamShape ==
  /\ team \in Seq(People) /\ Distinct(team) /\ role \in [People -> Roster!Roles]
  /\ invitation \in [1 .. MaxInvitations -> InvitationRows]
  /\ \A i \in 1 .. MaxInvitations :
       invitation[i].status # "NONE" => invitation[i].person \in People
Owns(o, people, roles) ==
  o \in people /\ \A p \in people : roles[p] = "OWNER" <=> p = o
\* One request at a time: what it read of the members still holds when it writes.
Asking(x) ==
  /\ x.op = "invite" => x.who \in People /\ x.role # "OWNER"
  /\ x.op = "accept" => /\ x.invitation \in 1 .. MaxInvitations /\ x.who \in People
                        /\ invitation[x.invitation].person = x.who
                        /\ invitation[x.invitation].status = "PENDING"
  /\ x.op = "revoke" => /\ x.invitation \in 1 .. MaxInvitations
                        /\ invitation[x.invitation].person \in People
  /\ x.op = "role" => x.who \in People /\ role[x.who] # "OWNER" /\ x.role # "OWNER"
  /\ x.op = "remove" => role[x.who] # "OWNER"
  /\ x.op \in {"transfer", "inherit"} =>
       /\ {x.by, x.who} \subseteq In(team) /\ x.by # x.who /\ role[x.by] = "OWNER"
  /\ x.op = "leave" => x.by \in In(team) /\ role[x.by] # "OWNER"
  /\ x.op = "erase" => Len(team) = 1
RosterInv ==
  /\ TeamShape /\ teamRequest \in [{"q"} -> TeamRequests]
  /\ open => /\ \E o \in People : Owns(o, In(team), role)
             /\ Asking(teamRequest["q"])

\* The founder is the team at the start.
LEMMA RosterInit == Roster!Init => RosterInv
<1> SUFFICES ASSUME Roster!Init PROVE RosterInv
  OBVIOUS
<1>a. Founder \in People
  BY Bounds DEF Roster!TeamAssumption
<1>1. team = <<Founder>> /\ team \in Seq(People) /\ Distinct(team) /\ In(team) = {Founder}
  BY <1>a DEF Roster!Init, Distinct, In
<1>2. /\ role \in [People -> Roster!Roles]
      /\ \A p \in People : role[p] = "OWNER" <=> p = Founder
  BY DEF Roster!Init, Roster!Roles
<1>3. Roster!NoInvitation \in InvitationRows /\ Roster!NoInvitation.status = "NONE"
  BY DEF Roster!NoInvitation, InvitationRows, Anybody
<1>4. Roster!Free \in TeamRequests /\ Roster!Free.op = "none"
  BY DEF Roster!Free, TeamRequests, Anybody, Roster!Roles
<1>5. /\ invitation \in [1 .. MaxInvitations -> InvitationRows]
      /\ \A i \in 1 .. MaxInvitations : invitation[i].status = "NONE"
  BY <1>3 DEF Roster!Init, Roster!Invitations
<1>6. teamRequest \in [{"q"} -> TeamRequests] /\ teamRequest["q"].op = "none"
  BY <1>4 DEF Roster!Init
<1>7. Asking(teamRequest["q"])
  BY <1>6 DEF Asking
<1>8. Owns(Founder, In(team), role)
  BY <1>a, <1>1, <1>2 DEF Owns
<1> QED BY <1>a, <1>1, <1>2, <1>5, <1>6, <1>7, <1>8 DEF RosterInv, TeamShape

\* A request that only reads remembers what holds.
LEMMA RosterReads ==
  ASSUME RosterInv, NEW x \in TeamRequests, Roster!Reads("q", x),
         open => Asking(x)
  PROVE  RosterInv'
<1>1. /\ UNCHANGED <<open, team, role, invitation>>
      /\ teamRequest' = [teamRequest EXCEPT !["q"] = x]
  BY DEF Roster!Reads
<1>2. teamRequest' \in [{"q"} -> TeamRequests] /\ teamRequest'["q"] = x
  BY <1>1 DEF RosterInv
<1>3. TeamShape'
  BY <1>1 DEF RosterInv, TeamShape
<1>4. open => Asking(x)'
  BY <1>1 DEF Asking
<1>5. Asking(x)' => Asking(teamRequest["q"])'
  BY <1>2 DEF Asking
<1> QED BY <1>1, <1>2, <1>3, <1>4, <1>5 DEF RosterInv

\* A request that wrote is over; the team has its owner.
LEMMA RosterWrites ==
  ASSUME RosterInv, TeamShape', teamRequest' = [teamRequest EXCEPT !["q"] = Roster!Free],
         open' => \E o \in People : Owns(o, In(team'), role')
  PROVE  RosterInv'
<1>1. Roster!Free \in TeamRequests /\ Roster!Free.op = "none"
  BY DEF Roster!Free, TeamRequests, Anybody, Roster!Roles
<1>2. teamRequest' \in [{"q"} -> TeamRequests] /\ teamRequest'["q"].op = "none"
  BY <1>1 DEF RosterInv
<1>3. Asking(teamRequest["q"])'
  BY <1>2 DEF Asking
<1> QED BY <1>2, <1>3 DEF RosterInv

\* Some member has the highest role, and was there before the others who have it.
LEMMA HeirIsOne ==
  ASSUME NEW T, NEW rest \in Seq(T), rest # << >>
  PROVE  \E k \in 1 .. Len(rest) : Roster!Heir(rest) = rest[k]
<1> DEFINE rank(k) == Roster!Rank(role[rest[k]])
           Ranks == {rank(k) : k \in 1 .. Len(rest)}
<1>1. Len(rest) \in Nat /\ Len(rest) # 0
  OBVIOUS
<1>2. \A k \in 1 .. Len(rest) : rank(k) \in Nat
  BY DEF Roster!Rank
<1>3. PICK m \in Ranks : \A n \in Ranks : m <= n
  <2>1. Ranks \subseteq Nat /\ Ranks # {}
    <3> HIDE DEF rank
    <3> QED BY <1>1, <1>2
  <2> HIDE DEF Ranks
  <2> QED BY <2>1, Smallest
<1> DEFINE K == {k \in 1 .. Len(rest) : rank(k) = m}
<1>4. PICK k \in K : \A j \in K : k <= j
  <2>1. K \subseteq Nat /\ K # {}
    BY <1>3
  <2> HIDE DEF K
  <2> QED BY <2>1, Smallest
<1>5. /\ k \in 1 .. Len(rest)
      /\ \A j \in 1 .. Len(rest) : rank(k) < rank(j) \/ (rank(k) = rank(j) /\ k <= j)
  <2> HIDE DEF rank
  <2>1. k \in 1 .. Len(rest) /\ rank(k) = m
    BY <1>4
  <2> SUFFICES ASSUME NEW j \in 1 .. Len(rest)
               PROVE  rank(k) < rank(j) \/ (rank(k) = rank(j) /\ k <= j)
    BY <2>1
  <2>2. m <= rank(j) /\ m \in Nat /\ rank(j) \in Nat
    BY <1>2, <1>3, <2>1
  <2>3. rank(j) = m => k <= j
    BY <1>4
  <2> QED BY <2>1, <2>2, <2>3
<1> DEFINE P(i) == \A j \in 1 .. Len(rest) : rank(i) < rank(j) \/ (rank(i) = rank(j) /\ i <= j)
           c == CHOOSE i \in 1 .. Len(rest) : P(i)
<1>6. c \in 1 .. Len(rest)
  <2>1. \E i \in 1 .. Len(rest) : P(i)
    BY <1>5
  <2> HIDE DEF P
  <2> QED BY <2>1
<1>7. Roster!Heir(rest) = rest[c]
  BY DEF Roster!Heir
<1> QED BY <1>6, <1>7

\* Who has no row leaves the list as it is; who has one leaves it.
LEMMA RosterWithout ==
  ASSUME TeamShape, NEW p
  PROVE  /\ Roster!Without(p) \in Seq(People) /\ Distinct(Roster!Without(p))
         /\ In(Roster!Without(p)) = In(team) \ {p}
         /\ p \in In(team) => Len(Roster!Without(p)) = Len(team) - 1
<1>1. Roster!Members = In(team)
  BY DEF Roster!Members, In
<1>2. CASE p \in In(team)
  <2> DEFINE k == CHOOSE i \in 1 .. Len(team) : team[i] = p
             r == SubSeq(team, 1, k - 1) \o SubSeq(team, k + 1, Len(team))
  <2>1. Roster!Without(p) = r
    BY <1>1, <1>2, Zenon DEF Roster!Without
  <2>2. team \in Seq(People) /\ Distinct(team)
    BY DEF TeamShape
  <2>3. /\ r \in Seq(People) /\ Len(r) = Len(team) - 1
        /\ In(r) = In(team) \ {p} /\ Distinct(r)
    BY <1>2, <2>2, OneLeaves, Zenon
  <2> HIDE DEF r
  <2> QED BY <2>1, <2>3
<1>3. CASE p \notin In(team)
  <2>1. Roster!Without(p) = team
    BY <1>1, <1>3, Zenon DEF Roster!Without
  <2> QED BY <1>3, <2>1 DEF TeamShape
<1> QED BY <1>2, <1>3

\* What each operation reads and checks.
LEMMA RosterReadsStep ==
  ASSUME RosterInv,
         \/ \E by, p \in People :
              \/ \E r \in Roster!Roles :
                   Roster!ReadInvite("q", by, p, r) \/ Roster!ReadRole("q", by, p, r)
              \/ Roster!ReadRemove("q", by, p) \/ Roster!ReadTransfer("q", by, p)
         \/ \E by \in People :
              \/ \E i \in Roster!Invitations : Roster!ReadRevoke("q", by, i)
              \/ Roster!ReadClose("q", by) \/ Roster!ReadDelete("q", by)
         \/ \E i \in Roster!Invitations : Roster!ReadAccept("q", i)
  PROVE  RosterInv'
<1>a. /\ TeamShape /\ Roster!Members = In(team) /\ Roster!Invitations = 1 .. MaxInvitations
      /\ \A i \in Roster!Invitations : i \in Nat
  BY DEF RosterInv, Roster!Members, In, Roster!Invitations
<1>b. \A o \in People : Roster!Assignable(role[o]) \subseteq {"ADMIN", "AGENT", "VIEWER"}
  BY DEF Roster!Assignable
<1>1. ASSUME NEW by \in People, NEW p \in People, NEW r \in Roster!Roles,
             Roster!ReadInvite("q", by, p, r)
      PROVE  RosterInv'
  <2> DEFINE x == [Roster!Free EXCEPT !.op = "invite", !.by = by, !.who = p, !.role = r]
  <2>1. x \in TeamRequests /\ x.op = "invite" /\ x.who = p /\ x.role = r
    BY DEF Roster!Free, TeamRequests, Anybody, Roster!Operations
  <2>2. Roster!Reads("q", x) /\ r # "OWNER"
    BY <1>1, <1>b DEF Roster!ReadInvite
  <2> HIDE DEF x
  <2> QED BY <2>1, <2>2, RosterReads DEF Asking
<1>2. ASSUME NEW by \in People, NEW p \in People, NEW r \in Roster!Roles,
             Roster!ReadRole("q", by, p, r)
      PROVE  RosterInv'
  <2> DEFINE x == [Roster!Free EXCEPT !.op = "role", !.by = by, !.who = p, !.role = r]
  <2>1. x \in TeamRequests /\ x.op = "role" /\ x.who = p /\ x.role = r
    BY DEF Roster!Free, TeamRequests, Anybody, Roster!Operations
  <2>2. Roster!Reads("q", x) /\ r # "OWNER" /\ role[p] # "OWNER"
    BY <1>2, <1>b DEF Roster!ReadRole, Roster!Editable, Roster!Below
  <2> HIDE DEF x
  <2> QED BY <2>1, <2>2, RosterReads DEF Asking
<1>3. ASSUME NEW by \in People, NEW p \in People,
             Roster!ReadRemove("q", by, p)
      PROVE  RosterInv'
  <2> DEFINE x == [Roster!Free EXCEPT !.op = "remove", !.by = by, !.who = p]
  <2>1. x \in TeamRequests /\ x.op = "remove" /\ x.who = p
    BY DEF Roster!Free, TeamRequests, Anybody, Roster!Operations, Roster!Roles
  <2>2. Roster!Reads("q", x) /\ role[p] # "OWNER"
    BY <1>3, <1>b DEF Roster!ReadRemove, Roster!Editable, Roster!Below
  <2> HIDE DEF x
  <2> QED BY <2>1, <2>2, RosterReads DEF Asking
<1>4. ASSUME NEW by \in People, NEW p \in People,
             Roster!ReadTransfer("q", by, p)
      PROVE  RosterInv'
  <2> DEFINE x == [Roster!Free EXCEPT !.op = "transfer", !.by = by, !.who = p]
  <2>1. x \in TeamRequests /\ x.op = "transfer" /\ x.by = by /\ x.who = p
    BY DEF Roster!Free, TeamRequests, Anybody, Roster!Operations, Roster!Roles
  <2>2. Roster!Reads("q", x) /\ {by, p} \subseteq In(team) /\ by # p /\ role[by] = "OWNER"
    BY <1>4, <1>a DEF Roster!ReadTransfer
  <2> HIDE DEF x
  <2> QED BY <2>1, <2>2, RosterReads DEF Asking
<1>5. ASSUME NEW by \in People, NEW i \in Roster!Invitations,
             Roster!ReadRevoke("q", by, i)
      PROVE  RosterInv'
  <2> DEFINE x == [Roster!Free EXCEPT !.op = "revoke", !.by = by, !.invitation = i]
  <2>1. x \in TeamRequests /\ x.op = "revoke"
    BY <1>a DEF Roster!Free, TeamRequests, Anybody, Roster!Operations, Roster!Roles
  <2>2. Roster!Reads("q", x) /\ invitation[i].status = "PENDING"
    BY <1>5 DEF Roster!ReadRevoke, Roster!Listed
  <2>a. x.invitation = i
    BY DEF Roster!Free
  <2> HIDE DEF x
  <2>3. Asking(x)
    BY <1>a, <2>1, <2>2, <2>a DEF Asking, TeamShape
  <2> QED BY <2>1, <2>2, <2>3, RosterReads
<1>6. ASSUME NEW by \in People,
             Roster!ReadClose("q", by)
      PROVE  RosterInv'
  <2> DEFINE x == [Roster!Free EXCEPT !.op = "close", !.by = by]
  <2>1. x \in TeamRequests /\ x.op = "close"
    BY DEF Roster!Free, TeamRequests, Anybody, Roster!Operations, Roster!Roles
  <2>2. Roster!Reads("q", x)
    BY <1>6 DEF Roster!ReadClose
  <2> HIDE DEF x
  <2> QED BY <2>1, <2>2, RosterReads DEF Asking
<1>7. ASSUME NEW i \in Roster!Invitations,
             Roster!ReadAccept("q", i)
      PROVE  RosterInv'
  <2> DEFINE w == invitation[i].person
             x == [Roster!Free EXCEPT !.op = "accept", !.who = w, !.invitation = i]
  <2>1. w \in People /\ invitation[i].status = "PENDING"
    BY <1>7, <1>a DEF Roster!ReadAccept, Roster!Waiting, TeamShape
  <2>2. Roster!Reads("q", x)
    BY <1>7 DEF Roster!ReadAccept
  <2>a. invitation[i].person = w
    OBVIOUS
  <2> HIDE DEF w
  <2>3. x \in TeamRequests /\ x.op = "accept" /\ x.who = w /\ x.invitation = i
    BY <1>a, <2>1 DEF Roster!Free, TeamRequests, Anybody, Roster!Operations, Roster!Roles
  <2> HIDE DEF x
  <2>4. Asking(x)
    BY <1>a, <2>1, <2>3, <2>a DEF Asking
  <2> QED BY <2>2, <2>3, <2>4, RosterReads
<1>8. ASSUME NEW by \in People,
             Roster!ReadDelete("q", by)
      PROVE  RosterInv'
  <2> DEFINE plan == Roster!Plan(by)
             op == plan[1]
             who == plan[2]
             rest == Roster!Without(by)
             x == [Roster!Free EXCEPT !.op = op, !.by = by, !.who = who]
  <2>1. by \in In(team) /\ Roster!Reads("q", x) /\ open
    BY <1>8, <1>a DEF Roster!ReadDelete, Roster!Reads
  <2>2. /\ rest \in Seq(People) /\ Len(rest) = Len(team) - 1
        /\ In(rest) = In(team) \ {by} /\ Distinct(rest)
    BY <1>a, <2>1, RosterWithout, Zenon
  <2> HIDE DEF rest
  <2>3. PICK o \in People : Owns(o, In(team), role)
    BY <2>1 DEF RosterInv
  <2>4. CASE rest = << >>
    <3>1. op = "erase" /\ who = Roster!Nobody /\ Len(team) = 1
      BY <1>a, <2>2, <2>4 DEF Roster!Plan, rest, TeamShape
    <3> HIDE DEF op, who
    <3>2. x \in TeamRequests /\ x.op = "erase"
      BY <3>1 DEF Roster!Free, TeamRequests, Anybody, Roster!Operations, Roster!Roles
    <3> HIDE DEF x
    <3> QED BY <2>1, <3>1, <3>2, RosterReads DEF Asking
  <2>5. CASE rest # << >> /\ role[by] # "OWNER"
    <3>1. op = "leave" /\ who = Roster!Nobody
      BY <2>5 DEF Roster!Plan, rest
    <3> HIDE DEF op, who
    <3>2. x \in TeamRequests /\ x.op = "leave" /\ x.by = by
      BY <3>1 DEF Roster!Free, TeamRequests, Anybody, Roster!Operations, Roster!Roles
    <3> HIDE DEF x
    <3> QED BY <2>1, <2>5, <3>2, RosterReads DEF Asking
  <2>6. CASE rest # << >> /\ role[by] = "OWNER"
    <3>1. by = o
      BY <2>1, <2>3, <2>6 DEF Owns
    <3>2. \A k \in 1 .. Len(rest) : rest[k] \in In(team) \ {by} /\ role[rest[k]] # "OWNER"
      BY <2>2, <2>3, <3>1 DEF In, Owns
    <3>3. op = "inherit" /\ who = Roster!Heir(rest)
      BY <2>6, <3>2 DEF Roster!Plan, rest
    <3>4. who \in In(team) \ {by}
      BY <2>2, <2>6, <3>2, <3>3, HeirIsOne
    <3> HIDE DEF op, who
    <3>5. who \in People
      BY <1>a, <3>4 DEF In, TeamShape
    <3>6. x \in TeamRequests /\ x.op = "inherit" /\ x.by = by /\ x.who = who
      BY <3>3, <3>5 DEF Roster!Free, TeamRequests, Anybody, Roster!Operations, Roster!Roles
    <3> HIDE DEF x
    <3>7. Asking(x)
      BY <2>1, <2>6, <3>4, <3>6 DEF Asking
    <3> QED BY <2>1, <3>6, <3>7, RosterReads
  <2> QED BY <2>4, <2>5, <2>6
<1> QED BY <1>1, <1>2, <1>3, <1>4, <1>5, <1>6, <1>7, <1>8

\* What each operation writes.
LEMMA RosterWritesStep ==
  ASSUME RosterInv,
         \/ Roster!Invites("q") \/ Roster!Revokes("q") \/ Roster!Accepts("q")
         \/ Roster!ChangesRole("q") \/ Roster!Removes("q") \/ Roster!Transfers("q")
         \/ Roster!Closes("q") \/ Roster!Leaves("q") \/ Roster!Inherits("q")
         \/ Roster!Erases("q") \/ Roster!Aborts("q")
  PROVE  /\ RosterInv'
         /\ Roster!Accepts("q") \/ In(team') \subseteq In(team)
         /\ Roster!Closes("q") \/ Roster!Erases("q") \/ open' = open
<1> DEFINE x == teamRequest["q"]
<1>a. /\ TeamShape /\ Roster!Members = In(team) /\ x \in TeamRequests
      /\ team \in Seq(People) /\ Distinct(team) /\ role \in [People -> Roster!Roles]
      /\ invitation \in [1 .. MaxInvitations -> InvitationRows]
      /\ In(team) \subseteq People
  BY DEF RosterInv, TeamShape, Roster!Members, In
<1>b. open => /\ Asking(x)
              /\ \E o \in People : Owns(o, In(team), role)
  BY DEF RosterInv
<1>c. \A r \in {"OWNER", "ADMIN", "AGENT", "VIEWER"} : r \in Roster!Roles
  BY DEF Roster!Roles
<1>1. CASE Roster!Invites("q")
  <2>1. PICK i \in 1 .. MaxInvitations :
          /\ invitation[i].status = "NONE"
          /\ invitation' = [invitation EXCEPT ![i] = Roster!Invited(x.who, x.role)]
    BY <1>1 DEF Roster!Invites, Roster!Invitations
  <2>2. /\ open /\ x.op = "invite" /\ UNCHANGED <<open, team, role>>
        /\ teamRequest' = [teamRequest EXCEPT !["q"] = Roster!Free]
    BY <1>1 DEF Roster!Invites, Roster!Writes
  <2>3. x.who \in People /\ x.role \in {"ADMIN", "AGENT", "VIEWER"}
    BY <1>a, <1>b, <2>2 DEF Asking, TeamRequests, Roster!Roles
  <2>4. /\ Roster!Invited(x.who, x.role) \in InvitationRows
        /\ Roster!Invited(x.who, x.role).person = x.who
    BY <2>3 DEF Roster!Invited, InvitationRows, Anybody
  <2>5. TeamShape'
    BY <1>a, <2>1, <2>2, <2>3, <2>4 DEF TeamShape
  <2> QED BY <1>b, <2>2, <2>5, RosterWrites
<1>2. CASE Roster!Revokes("q")
  <2>1. /\ UNCHANGED <<open, team, role>>
        /\ teamRequest' = [teamRequest EXCEPT !["q"] = Roster!Free]
        /\ invitation' = [invitation EXCEPT ![x.invitation].status = "REVOKED"]
    BY <1>2 DEF Roster!Revokes, Roster!Writes
  <2> DEFINE i == x.invitation
             new == [invitation[i] EXCEPT !.status = "REVOKED"]
  <2>2. CASE i \in 1 .. MaxInvitations
    <3>1. new \in InvitationRows /\ new.person = invitation[i].person
      BY <1>a, <2>2 DEF InvitationRows
    <3>2. invitation' = [invitation EXCEPT ![i] = new]
      BY <2>1
    <3> HIDE DEF new, i
    <3>3. /\ invitation' \in [1 .. MaxInvitations -> InvitationRows]
          /\ \A j \in 1 .. MaxInvitations : j # i => invitation'[j] = invitation[j]
          /\ invitation'[i] = new
      BY <1>a, <2>2, <3>1, <3>2
    <3>4. invitation[i].person \in People
      BY <1>2, <1>b DEF Roster!Revokes, Roster!Writes, Asking, i
    <3>5. TeamShape'
      BY <1>a, <2>1, <3>1, <3>3, <3>4 DEF TeamShape
    <3> QED BY <1>b, <2>1, <3>5, RosterWrites
  <2>3. CASE i \notin 1 .. MaxInvitations
    <3>1. invitation' = invitation
      BY <1>a, <2>1, <2>3
    <3>2. TeamShape'
      BY <1>a, <2>1, <3>1 DEF TeamShape
    <3> QED BY <1>b, <2>1, <3>2, RosterWrites
  <2> QED BY <2>2, <2>3
<1>3. CASE Roster!Accepts("q")
  <2> DEFINE i == x.invitation
             p == x.who
             new == [invitation[i] EXCEPT !.status = "ACCEPTED"]
  <2>1. /\ open /\ x.op = "accept" /\ UNCHANGED open /\ p \notin In(team)
        /\ teamRequest' = [teamRequest EXCEPT !["q"] = Roster!Free]
        /\ team' = Append(team, p)
        /\ role' = [role EXCEPT ![p] = invitation[i].role]
        /\ invitation' = [invitation EXCEPT ![i] = new]
    BY <1>3, <1>a DEF Roster!Accepts, Roster!Writes
  <2>2. /\ i \in 1 .. MaxInvitations /\ p \in People /\ invitation[i].person = p
    BY <1>b, <2>1 DEF Asking
  <2>3. /\ new \in InvitationRows /\ new.person = p
        /\ invitation[i].role \in Roster!Roles /\ invitation[i].role # "OWNER"
    BY <1>a, <2>2 DEF InvitationRows, Roster!Roles
  <2> HIDE DEF new, i, p
  <2>4. /\ invitation' \in [1 .. MaxInvitations -> InvitationRows]
        /\ \A j \in 1 .. MaxInvitations : j # i => invitation'[j] = invitation[j]
        /\ invitation'[i] = new
    BY <1>a, <2>1, <2>2, <2>3
  <2>5. /\ team' \in Seq(People) /\ In(team') = In(team) \cup {p} /\ Distinct(team')
    BY <1>a, <2>1, <2>2, OneJoins
  <2>6. /\ role' \in [People -> Roster!Roles] /\ role'[p] # "OWNER"
        /\ \A o \in People : o # p => role'[o] = role[o]
    BY <1>a, <2>1, <2>2, <2>3
  <2>7. TeamShape'
    BY <1>a, <2>2, <2>3, <2>4, <2>5, <2>6 DEF TeamShape
  <2>8. \E o \in People : Owns(o, In(team'), role')
    BY <1>a, <1>b, <2>1, <2>5, <2>6 DEF Owns
  <2> QED BY <1>3, <2>1, <2>7, <2>8, RosterWrites
<1>4. CASE Roster!ChangesRole("q")
  <2> DEFINE p == x.who
  <2>1. /\ open /\ x.op = "role" /\ UNCHANGED <<open, team, invitation>> /\ p \in In(team)
        /\ teamRequest' = [teamRequest EXCEPT !["q"] = Roster!Free]
        /\ role' = [role EXCEPT ![p] = x.role]
    BY <1>4, <1>a DEF Roster!ChangesRole, Roster!Writes
  <2>2. p \in People /\ role[p] # "OWNER" /\ x.role \in Roster!Roles \ {"OWNER"}
    BY <1>a, <1>b, <2>1 DEF Asking, TeamRequests
  <2> HIDE DEF p
  <2>3. /\ role' \in [People -> Roster!Roles] /\ role'[p] # "OWNER"
        /\ \A o \in People : o # p => role'[o] = role[o]
    BY <1>a, <2>1, <2>2
  <2>4. TeamShape'
    BY <1>a, <2>1, <2>3 DEF TeamShape
  <2>5. \E o \in People : Owns(o, In(team'), role')
    BY <1>a, <1>b, <2>1, <2>2, <2>3 DEF Owns
  <2> QED BY <2>1, <2>4, <2>5, RosterWrites
<1>5. CASE Roster!Removes("q") \/ Roster!Leaves("q")
  <2> DEFINE p == IF Roster!Removes("q") THEN x.who ELSE x.by
  <2>1. /\ open /\ UNCHANGED <<open, invitation>> /\ p \in In(team) /\ role[p] # "OWNER"
        /\ teamRequest' = [teamRequest EXCEPT !["q"] = Roster!Free]
        /\ role' = [role EXCEPT ![p] = "VIEWER"] /\ team' = Roster!Without(p)
    BY <1>5, <1>a, <1>b DEF Roster!Removes, Roster!Leaves, Roster!Writes, Asking
  <2>2. p \in People
    BY <1>a, <2>1
  <2> HIDE DEF p
  <2>3. /\ role' \in [People -> Roster!Roles] /\ role'[p] # "OWNER"
        /\ \A o \in People : o # p => role'[o] = role[o]
    BY <1>a, <1>c, <2>1, <2>2
  <2>4. team' \in Seq(People) /\ Distinct(team') /\ In(team') = In(team) \ {p}
    BY <1>a, <2>1, RosterWithout
  <2>5. TeamShape'
    BY <1>a, <2>1, <2>3, <2>4 DEF TeamShape
  <2>6. \E o \in People : Owns(o, In(team'), role')
    BY <1>a, <1>b, <2>1, <2>2, <2>3, <2>4 DEF Owns
  <2> QED BY <2>1, <2>4, <2>5, <2>6, RosterWrites
<1>6. CASE Roster!Transfers("q")
  <2> DEFINE a == x.by
             b == x.who
  <2>1. /\ open /\ x.op = "transfer" /\ UNCHANGED <<open, team, invitation>>
        /\ teamRequest' = [teamRequest EXCEPT !["q"] = Roster!Free]
        /\ role' = [role EXCEPT ![a] = "ADMIN", ![b] = "OWNER"]
    BY <1>6 DEF Roster!Transfers, Roster!Writes
  <2>2. {a, b} \subseteq In(team) /\ a # b /\ role[a] = "OWNER"
    BY <1>b, <2>1 DEF Asking
  <2> HIDE DEF a, b
  <2>3. /\ role' \in [People -> Roster!Roles] /\ role'[a] = "ADMIN" /\ role'[b] = "OWNER"
        /\ \A o \in People \ {a, b} : role'[o] = role[o]
    BY <1>a, <1>c, <2>1, <2>2
  <2>4. TeamShape'
    BY <1>a, <2>1, <2>3 DEF TeamShape
  <2>5. Owns(b, In(team'), role')
    BY <1>a, <1>b, <2>1, <2>2, <2>3 DEF Owns
  <2> QED BY <1>a, <2>1, <2>2, <2>4, <2>5, RosterWrites
<1>7. CASE Roster!Closes("q") \/ Roster!Erases("q")
  <2>1. /\ ~ open' /\ team' = << >> /\ role' = [p \in People |-> "VIEWER"]
        /\ invitation' = [i \in 1 .. MaxInvitations |-> Roster!NoInvitation]
        /\ teamRequest' = [teamRequest EXCEPT !["q"] = Roster!Free]
    BY <1>7 DEF Roster!Closes, Roster!Erases, Roster!Gone, Roster!Writes, Roster!Invitations
  <2>2. Roster!NoInvitation \in InvitationRows /\ Roster!NoInvitation.status = "NONE"
    BY DEF Roster!NoInvitation, InvitationRows, Anybody
  <2>3. team' \in Seq(People) /\ Distinct(team') /\ In(team') = {}
    BY <2>1 DEF Distinct, In
  <2>4. TeamShape'
    BY <1>c, <2>1, <2>2, <2>3 DEF TeamShape
  <2> QED BY <1>7, <2>1, <2>3, <2>4, RosterWrites
<1>8. CASE Roster!Inherits("q")
  <2> DEFINE a == x.by
             b == x.who
  <2>1. /\ open /\ x.op = "inherit" /\ UNCHANGED <<open, invitation>>
        /\ teamRequest' = [teamRequest EXCEPT !["q"] = Roster!Free]
        /\ role' = [p \in People |-> IF p = a THEN "VIEWER"
                                     ELSE IF p = b /\ p \in In(team) THEN "OWNER" ELSE role[p]]
        /\ team' = Roster!Without(a)
    BY <1>8, <1>a DEF Roster!Inherits, Roster!Writes
  <2>2. {a, b} \subseteq In(team) /\ a # b /\ role[a] = "OWNER"
    BY <1>b, <2>1 DEF Asking
  <2> HIDE DEF a, b
  <2>3. /\ role' \in [People -> Roster!Roles] /\ role'[a] = "VIEWER" /\ role'[b] = "OWNER"
        /\ \A o \in People \ {a, b} : role'[o] = role[o]
    BY <1>a, <1>c, <2>1, <2>2
  <2>4. team' \in Seq(People) /\ Distinct(team') /\ In(team') = In(team) \ {a}
    BY <1>a, <2>1, RosterWithout
  <2>5. TeamShape'
    BY <1>a, <2>1, <2>3, <2>4 DEF TeamShape
  <2>6. Owns(b, In(team'), role')
    BY <1>a, <1>b, <2>1, <2>2, <2>3, <2>4 DEF Owns
  <2> QED BY <1>a, <2>1, <2>2, <2>4, <2>5, <2>6, RosterWrites
<1>9. CASE Roster!Aborts("q")
  <2>1. /\ UNCHANGED <<open, team, role, invitation>>
        /\ teamRequest' = [teamRequest EXCEPT !["q"] = Roster!Free]
    BY <1>9 DEF Roster!Aborts
  <2>2. TeamShape'
    BY <1>a, <2>1 DEF TeamShape
  <2> QED BY <1>b, <2>1, <2>2, RosterWrites
<1> QED BY <1>1, <1>2, <1>3, <1>4, <1>5, <1>6, <1>7, <1>8, <1>9

\* An invitation is refused, or its time is over.
LEMMA RosterAges ==
  ASSUME RosterInv, NEW i \in Roster!Invitations, Roster!Rejects("q", i) \/ Roster!Expires(i)
  PROVE  RosterInv' /\ UNCHANGED <<team, open>>
<1>a. /\ invitation \in [1 .. MaxInvitations -> InvitationRows] /\ i \in 1 .. MaxInvitations
      /\ UNCHANGED <<open, team, role, teamRequest>>
  BY DEF RosterInv, TeamShape, Roster!Invitations, Roster!Rejects, Roster!Expires
<1>1. CASE Roster!Rejects("q", i)
  <2> DEFINE new == [invitation[i] EXCEPT !.status = "REJECTED"]
  <2>1. new \in InvitationRows /\ new.person = invitation[i].person
    BY <1>a DEF InvitationRows
  <2>2. /\ invitation' = [invitation EXCEPT ![i] = new] /\ invitation[i].status = "PENDING"
        /\ teamRequest["q"].op = "none"
    BY <1>1 DEF Roster!Rejects
  <2> HIDE DEF new
  <2>3. /\ invitation' \in [1 .. MaxInvitations -> InvitationRows] /\ invitation'[i] = new
        /\ \A j \in 1 .. MaxInvitations : j # i => invitation'[j] = invitation[j]
    BY <1>a, <2>1, <2>2
  <2>4. TeamShape'
    BY <1>a, <2>1, <2>2, <2>3 DEF RosterInv, TeamShape
  <2>5. Asking(teamRequest["q"])'
    BY <1>a, <2>2 DEF Asking
  <2> QED BY <1>a, <2>4, <2>5 DEF RosterInv
<1>2. CASE Roster!Expires(i)
  <2> DEFINE new == [invitation[i] EXCEPT !.live = FALSE]
  <2>1. /\ new \in InvitationRows /\ new.person = invitation[i].person
        /\ new.status = invitation[i].status
    BY <1>a DEF InvitationRows
  <2>2. invitation' = [invitation EXCEPT ![i] = new]
    BY <1>2 DEF Roster!Expires
  <2> HIDE DEF new
  <2>3. /\ invitation' \in [1 .. MaxInvitations -> InvitationRows] /\ invitation'[i] = new
        /\ \A j \in 1 .. MaxInvitations : j # i => invitation'[j] = invitation[j]
    BY <1>a, <2>1, <2>2
  <2>4. TeamShape'
    BY <1>a, <2>1, <2>3 DEF RosterInv, TeamShape
  <2>5. open => Asking(teamRequest["q"])'
    BY <1>a, <2>1, <2>3 DEF RosterInv, Asking
  <2> QED BY <1>a, <2>4, <2>5 DEF RosterInv
<1> QED BY <1>1, <1>2

\* Whatever one request does, the organization keeps its owner; it ends when that owner closes
\* it or was alone, and who joins has an invitation that waits.
LEMMA RosterStep ==
  RosterInv /\ [Roster!Next]_(Roster!vars) =>
    RosterInv' /\ Roster!SharedKeptStep /\ Roster!JoinsByInvitationStep
<1> SUFFICES ASSUME RosterInv, [Roster!Next]_(Roster!vars)
             PROVE  /\ RosterInv' /\ Roster!SharedKeptStep
                    /\ Roster!JoinsByInvitationStep
  OBVIOUS
<1>1. CASE UNCHANGED Roster!vars
  <2>1. /\ RosterInv' /\ UNCHANGED <<open, team>>
    BY <1>1 DEF Roster!vars, RosterInv, TeamShape, Asking
  <2> QED BY <2>1 DEF Roster!SharedKeptStep, Roster!JoinsByInvitationStep, Roster!Members
<1>2. CASE Roster!Next
  <2>1. /\ RosterInv'
        /\ Roster!Accepts("q") \/ In(team') \subseteq In(team)
        /\ Roster!Closes("q") \/ Roster!Erases("q") \/ open' = open
    <3>1. CASE \/ \E by, p \in People :
                    \/ \E r \in Roster!Roles :
                         Roster!ReadInvite("q", by, p, r) \/ Roster!ReadRole("q", by, p, r)
                    \/ Roster!ReadRemove("q", by, p) \/ Roster!ReadTransfer("q", by, p)
               \/ \E by \in People :
                    \/ \E i \in Roster!Invitations : Roster!ReadRevoke("q", by, i)
                    \/ Roster!ReadClose("q", by) \/ Roster!ReadDelete("q", by)
               \/ \E i \in Roster!Invitations : Roster!ReadAccept("q", i)
      <4>1. UNCHANGED <<open, team>>
        BY <3>1 DEF Roster!ReadInvite, Roster!ReadRole, Roster!ReadRemove, Roster!ReadTransfer,
           Roster!ReadRevoke, Roster!ReadClose, Roster!ReadDelete, Roster!ReadAccept,
           Roster!Reads
      <4>2. RosterInv'
        BY <3>1, RosterReadsStep
      <4> QED BY <4>1, <4>2
    <3>2. CASE \/ Roster!Invites("q") \/ Roster!Revokes("q") \/ Roster!Accepts("q")
               \/ Roster!ChangesRole("q") \/ Roster!Removes("q") \/ Roster!Transfers("q")
               \/ Roster!Closes("q") \/ Roster!Leaves("q") \/ Roster!Inherits("q")
               \/ Roster!Erases("q") \/ Roster!Aborts("q")
      BY <3>2, RosterWritesStep
    <3>3. CASE \E i \in Roster!Invitations : Roster!Rejects("q", i) \/ Roster!Expires(i)
      BY <3>3, RosterAges
    <3> QED BY <1>2, <3>1, <3>2, <3>3, Zenon DEF Roster!Next
  <2>2. Roster!SharedKeptStep
    <3>1. Roster!Closes("q") =>
            teamRequest["q"].op = "close" /\ teamRequest'["q"].op = "none"
      BY DEF Roster!Closes, Roster!Writes, Roster!Free, RosterInv
    <3>2. Roster!Erases("q") => Len(team) = 1
      BY DEF Roster!Erases, Roster!Writes, RosterInv, Asking
    <3> QED BY <2>1, <3>1, <3>2 DEF Roster!SharedKeptStep
  <2>3. Roster!JoinsByInvitationStep
    <3> SUFFICES ASSUME NEW p \in People, \E k \in 1 .. Len(team') : team'[k] = p,
                        p \notin Roster!Members
                 PROVE  \E i \in Roster!Invitations :
                          invitation[i].person = p /\ invitation[i].status = "PENDING"
      BY DEF Roster!JoinsByInvitationStep
    <3>1. p \in In(team') /\ p \notin In(team)
      BY DEF In, Roster!Members
    <3>2. Roster!Accepts("q")
      BY <2>1, <3>1
    <3>3. /\ team' = Append(team, teamRequest["q"].who) /\ open /\ teamRequest["q"].op = "accept"
          /\ team \in Seq(People)
      BY <3>2 DEF Roster!Accepts, Roster!Writes, RosterInv, TeamShape
    <3>4. Asking(teamRequest["q"])
      BY <3>3 DEF RosterInv
    <3>5. p = teamRequest["q"].who
      BY <3>1, <3>3, <3>4, OneJoins DEF Asking
    <3> QED BY <3>3, <3>4, <3>5 DEF Asking, Roster!Invitations
  <2> QED BY <2>1, <2>2, <2>3
<1> QED BY <1>1, <1>2

\* One owner is one member whose role is that of the owner.
LEMMA RosterHolds == RosterInv => Roster!OneOwner
<1> SUFFICES ASSUME RosterInv, open
             PROVE  Roster!Cardinality({p \in Roster!Members : role[p] = "OWNER"}) = 1
  BY DEF Roster!OneOwner
<1>1. PICK o \in People : Owns(o, In(team), role)
  BY DEF RosterInv
<1>2. {p \in Roster!Members : role[p] = "OWNER"} = {o}
  BY <1>1 DEF Owns, Roster!Members, In
<1>3. Cardinality({o}) = 1
  BY FS_Singleton
<1> QED BY <1>2, <1>3 DEF Roster!Cardinality, Cardinality

------------------------------------------------------------------------------
(***************************************************************************)
(* The seats.                                                              *)
(***************************************************************************)
\* The invitations of a list that can be accepted.
Open(rows) == {i \in 1 .. MaxInvitations : rows[i].status = "PENDING" /\ rows[i].live}
Seats(people, rows) == Cardinality(people) + Cardinality(rows)
\* One request at a time: there is a seat for who is invited, and for who accepts besides
\* those of the other invitations.
Seating(x) ==
  /\ x.op = "invite" => /\ x.role \in {"ADMIN", "AGENT", "VIEWER"}
                        /\ Seats(In(team), Open(invitation)) < FewSeats
  /\ x.op = "accept" => /\ x.invitation \in 1 .. MaxInvitations
                        /\ Seats(In(team), Open(invitation) \ {x.invitation}) < FewSeats
SeatsShape ==
  /\ team \in Seq(Anybody) /\ invitation \in [1 .. MaxInvitations -> InvitationRows]
  /\ IsFiniteSet(In(team)) /\ Seats(In(team), Open(invitation)) <= FewSeats
SeatedInv ==
  SeatsShape /\ teamRequest \in [{"q"} -> TeamRequests] /\ Seating(teamRequest["q"])

\* The invitations that can be accepted are finitely many, and seats are counted by numbers.
LEMMA OpenCount ==
  /\ FewSeats \in Nat \ {0} /\ MaxInvitations \in Nat
  /\ \A rows, i : /\ IsFiniteSet(Open(rows)) /\ Cardinality(Open(rows)) \in Nat
                  /\ IsFiniteSet(Open(rows) \ {i}) /\ Cardinality(Open(rows) \ {i}) \in Nat
                  /\ Cardinality(Open(rows) \ {i}) <= Cardinality(Open(rows))
                  /\ i \in Open(rows) =>
                       Cardinality(Open(rows) \ {i}) = Cardinality(Open(rows)) - 1
<1>1. FewSeats \in Nat \ {0} /\ MaxInvitations \in Nat
  BY Bounds DEF Seated!TeamAssumption
<1>2. IsFiniteSet(1 .. MaxInvitations)
  BY <1>1, FS_Interval
<1>3. ASSUME NEW rows, NEW i
      PROVE  /\ IsFiniteSet(Open(rows)) /\ Cardinality(Open(rows)) \in Nat
             /\ IsFiniteSet(Open(rows) \ {i}) /\ Cardinality(Open(rows) \ {i}) \in Nat
             /\ Cardinality(Open(rows) \ {i}) <= Cardinality(Open(rows))
             /\ i \in Open(rows) =>
                  Cardinality(Open(rows) \ {i}) = Cardinality(Open(rows)) - 1
  <2> DEFINE W == Open(rows)
  <2>1. W \subseteq 1 .. MaxInvitations
    BY DEF Open
  <2> HIDE DEF W
  <2>2. IsFiniteSet(W) /\ Cardinality(W) \in Nat
    BY <1>2, <2>1, FS_Subset, FS_CardinalityType
  <2>3. /\ IsFiniteSet(W \ {i})
        /\ Cardinality(W \ {i}) = IF i \in W THEN Cardinality(W) - 1 ELSE Cardinality(W)
    BY <2>2, FS_RemoveElement
  <2>4. Cardinality(W \ {i}) \in Nat
    BY <2>3, FS_CardinalityType
  <2> QED BY <2>2, <2>3, <2>4 DEF W
<1> QED BY <1>1, <1>3

\* Fewer people and fewer invitations need no more seats.
LEMMA FewerSeats ==
  ASSUME NEW S, IsFiniteSet(S), NEW V, IsFiniteSet(V), NEW T, T \subseteq S, NEW W, W \subseteq V
  PROVE  /\ IsFiniteSet(T) /\ Seats(T, W) \in Nat /\ Seats(S, V) \in Nat
         /\ Seats(T, W) <= Seats(S, V)
<1>1. /\ IsFiniteSet(T) /\ Cardinality(T) <= Cardinality(S)
      /\ IsFiniteSet(W) /\ Cardinality(W) <= Cardinality(V)
  BY FS_Subset
<1>2. /\ Cardinality(S) \in Nat /\ Cardinality(T) \in Nat
      /\ Cardinality(V) \in Nat /\ Cardinality(W) \in Nat
  BY <1>1, FS_CardinalityType
<1> QED BY <1>1, <1>2 DEF Seats

\* The founder has one of the seats at the start.
LEMMA SeatedInit == Seated!Init => SeatedInv
<1> SUFFICES ASSUME Seated!Init PROVE SeatedInv
  OBVIOUS
<1>a. Founder \in People /\ FewSeats \in Nat \ {0}
  BY Bounds DEF Seated!TeamAssumption
<1>1. team = <<Founder>> /\ team \in Seq(Anybody) /\ In(team) = {Founder}
  BY <1>a DEF Seated!Init, In, Anybody
<1>2. Seated!NoInvitation \in InvitationRows /\ Seated!NoInvitation.status = "NONE"
  BY DEF Seated!NoInvitation, InvitationRows, Anybody, Seated!Nobody, Roster!Nobody
<1>3. Seated!Free \in TeamRequests /\ Seated!Free.op = "none"
  BY DEF Seated!Free, TeamRequests, Anybody, Roster!Roles, Seated!Nobody, Roster!Nobody
<1>4. invitation \in [1 .. MaxInvitations -> InvitationRows] /\ Open(invitation) = {}
  <2>1. invitation = [i \in 1 .. MaxInvitations |-> Seated!NoInvitation]
    BY DEF Seated!Init, Seated!Invitations
  <2>2. \A i \in 1 .. MaxInvitations : invitation[i].status = "NONE"
    BY <1>2, <2>1
  <2>3. Open(invitation) = {}
    BY <2>2 DEF Open
  <2> DEFINE none == Seated!NoInvitation
  <2>4. invitation \in [1 .. MaxInvitations -> InvitationRows]
    <3>1. none \in InvitationRows /\ invitation = [i \in 1 .. MaxInvitations |-> none]
      BY <1>2, <2>1
    <3> HIDE DEF none
    <3> QED BY <3>1
  <2> QED BY <2>3, <2>4
<1>5. teamRequest \in [{"q"} -> TeamRequests] /\ teamRequest["q"].op = "none"
  BY <1>3 DEF Seated!Init
<1>6. IsFiniteSet({Founder}) /\ Cardinality({Founder}) = 1 /\ Cardinality({}) = 0
  BY FS_Singleton, FS_EmptySet
<1>7. IsFiniteSet(In(team)) /\ Seats(In(team), Open(invitation)) <= FewSeats
  <2>1. Seats({Founder}, {}) = 1 /\ 1 <= FewSeats
    BY <1>a, <1>6 DEF Seats
  <2>2. In(team) = {Founder} /\ Open(invitation) = {}
    BY <1>1, <1>4
  <2> QED BY <1>6, <2>1, <2>2, Zenon
<1> QED BY <1>1, <1>4, <1>5, <1>7 DEF SeatedInv, SeatsShape, Seating

\* A request that only reads remembers that there is a seat.
LEMMA SeatedReads ==
  ASSUME SeatedInv, NEW x \in TeamRequests, Seated!Reads("q", x), Seating(x)
  PROVE  SeatedInv'
<1>1. /\ UNCHANGED <<open, team, role, invitation>>
      /\ teamRequest' = [teamRequest EXCEPT !["q"] = x]
  BY DEF Seated!Reads
<1>2. teamRequest' \in [{"q"} -> TeamRequests] /\ teamRequest'["q"] = x
  BY <1>1 DEF SeatedInv
<1>3. SeatsShape'
  BY <1>1 DEF SeatedInv, SeatsShape
<1>4. Seating(x)'
  BY <1>1 DEF Seating
<1>5. Seating(x)' => Seating(teamRequest["q"])'
  BY <1>2 DEF Seating
<1> QED BY <1>2, <1>3, <1>4, <1>5 DEF SeatedInv

\* A request that wrote is over; the team has its seats.
LEMMA SeatedWrites ==
  ASSUME SeatedInv, SeatsShape', teamRequest' = [teamRequest EXCEPT !["q"] = Seated!Free]
  PROVE  SeatedInv'
<1>1. Seated!Free \in TeamRequests /\ Seated!Free.op = "none"
  BY DEF Seated!Free, TeamRequests, Anybody, Roster!Roles, Seated!Nobody, Roster!Nobody
<1>2. teamRequest' \in [{"q"} -> TeamRequests] /\ teamRequest'["q"].op = "none"
  BY <1>1 DEF SeatedInv
<1>3. Seating(teamRequest["q"])'
  BY <1>2 DEF Seating
<1> QED BY <1>2, <1>3 DEF SeatedInv

\* What takes no seat keeps the seats.
LEMMA SeatsShrink ==
  ASSUME SeatsShape, team' \in Seq(Anybody),
         invitation' \in [1 .. MaxInvitations -> InvitationRows],
         In(team') \subseteq In(team), Open(invitation') \subseteq Open(invitation)
  PROVE  SeatsShape'
<1> DEFINE S == In(team)
           T == In(team')
           V == Open(invitation)
           W == Open(invitation')
<1>1. IsFiniteSet(S) /\ IsFiniteSet(V) /\ Seats(S, V) <= FewSeats /\ FewSeats \in Nat
  BY OpenCount DEF SeatsShape
<1>2. T \subseteq S /\ W \subseteq V
  OBVIOUS
<1>3. IsFiniteSet(T) /\ Seats(T, W) <= FewSeats
  <2> HIDE DEF S, T, V, W
  <2>1. /\ IsFiniteSet(T) /\ Seats(T, W) \in Nat /\ Seats(S, V) \in Nat
        /\ Seats(T, W) <= Seats(S, V)
    BY <1>1, <1>2, FewerSeats
  <2> QED BY <1>1, <2>1
<1> QED BY <1>3 DEF SeatsShape

\* Who leaves a list, or was not in it, takes nothing.
LEMMA SeatedWithout ==
  ASSUME team \in Seq(Anybody), NEW p
  PROVE  Seated!Without(p) \in Seq(Anybody) /\ In(Seated!Without(p)) \subseteq In(team)
<1>1. CASE p \notin Seated!Members
  BY <1>1 DEF Seated!Without
<1>2. CASE p \in Seated!Members
  <2> DEFINE k == CHOOSE i \in 1 .. Len(team) : team[i] = p
             r == SubSeq(team, 1, k - 1) \o SubSeq(team, k + 1, Len(team))
  <2>1. k \in 1 .. Len(team)
    BY <1>2 DEF Seated!Members
  <2>2. Seated!Without(p) = r
    BY <1>2 DEF Seated!Without
  <2> HIDE DEF k
  <2>3. /\ r \in Seq(Anybody) /\ Len(r) = Len(team) - 1
        /\ \A j \in 1 .. Len(r) : r[j] = IF j < k THEN team[j] ELSE team[j + 1]
    BY <2>1, PlaceTaken, Zenon
  <2>a. Len(team) \in Nat
    OBVIOUS
  <2> HIDE DEF r
  <2>4. \A j \in 1 .. Len(r) : r[j] \in In(team)
    <3> SUFFICES ASSUME NEW j \in 1 .. Len(r) PROVE r[j] \in In(team)
      OBVIOUS
    <3>1. j \in 1 .. Len(team) /\ j + 1 \in 1 .. Len(team)
      BY <2>3, <2>a
    <3> QED BY <2>3, <3>1 DEF In
  <2>5. In(r) \subseteq In(team)
    BY <2>4 DEF In
  <2> QED BY <2>2, <2>3, <2>5
<1> QED BY <1>1, <1>2

\* What each operation reads: a seat for who is invited, the one of the invitation for who
\* accepts it.
LEMMA SeatedReadsStep ==
  ASSUME SeatedInv,
         \/ \E by, p \in People :
              \/ \E r \in Seated!Roles :
                   Seated!ReadInvite("q", by, p, r) \/ Seated!ReadRole("q", by, p, r)
              \/ Seated!ReadRemove("q", by, p) \/ Seated!ReadTransfer("q", by, p)
         \/ \E by \in People :
              \/ \E i \in Seated!Invitations : Seated!ReadRevoke("q", by, i)
              \/ Seated!ReadClose("q", by) \/ Seated!ReadDelete("q", by)
         \/ \E i \in Seated!Invitations : Seated!ReadAccept("q", i)
  PROVE  SeatedInv'
<1>a. /\ SeatsShape /\ Seated!Members = In(team) /\ Seated!Invitations = 1 .. MaxInvitations
      /\ \A i \in Seated!Invitations : i \in Nat
      /\ Seated!Waiting = Open(invitation)
  BY DEF SeatedInv, Seated!Members, In, Seated!Invitations, Seated!Waiting, Open
<1>b. Seated!Free = [op |-> "none", by |-> Roster!Nobody, who |-> Roster!Nobody,
                     role |-> "VIEWER", invitation |-> 0]
  BY DEF Seated!Free, Seated!Nobody, Roster!Nobody
<1>c. Seated!Roles = Roster!Roles
  BY DEF Seated!Roles, Roster!Roles
<1>1. ASSUME NEW by \in People, NEW p \in People, NEW r \in Seated!Roles,
             Seated!ReadInvite("q", by, p, r)
      PROVE  SeatedInv'
  <2> DEFINE x == [Seated!Free EXCEPT !.op = "invite", !.by = by, !.who = p, !.role = r]
  <2>1. x \in TeamRequests /\ x.op = "invite" /\ x.role = r
    BY <1>b, <1>c DEF TeamRequests, Anybody, Roster!Operations
  <2>2. /\ Seated!Reads("q", x) /\ Seated!SeatForInvitation
        /\ r \in {"ADMIN", "AGENT", "VIEWER"}
    BY <1>1 DEF Seated!ReadInvite, Seated!Assignable
  <2> HIDE DEF x
  <2>3. Seats(In(team), Open(invitation)) < FewSeats
    BY <1>a, <2>2 DEF Seated!SeatForInvitation, Seats, Seated!Cardinality, Cardinality
  <2> QED BY <2>1, <2>2, <2>3, SeatedReads DEF Seating
<1>2. ASSUME NEW by \in People, NEW p \in People, NEW r \in Seated!Roles,
             Seated!ReadRole("q", by, p, r)
      PROVE  SeatedInv'
  <2> DEFINE x == [Seated!Free EXCEPT !.op = "role", !.by = by, !.who = p, !.role = r]
  <2>1. x \in TeamRequests /\ x.op = "role"
    BY <1>b, <1>c DEF TeamRequests, Anybody, Roster!Operations
  <2>2. Seated!Reads("q", x)
    BY <1>2 DEF Seated!ReadRole
  <2> HIDE DEF x
  <2> QED BY <2>1, <2>2, SeatedReads DEF Seating
<1>3. ASSUME NEW by \in People, NEW p \in People,
             Seated!ReadRemove("q", by, p) \/ Seated!ReadTransfer("q", by, p)
      PROVE  SeatedInv'
  <2> DEFINE op == IF Seated!ReadRemove("q", by, p) THEN "remove" ELSE "transfer"
             x == [Seated!Free EXCEPT !.op = op, !.by = by, !.who = p]
  <2>2. Seated!Reads("q", x) /\ op \in {"remove", "transfer"}
    BY <1>3 DEF Seated!ReadRemove, Seated!ReadTransfer
  <2> HIDE DEF op
  <2>1. x \in TeamRequests /\ x.op = op
    BY <1>b, <2>2 DEF TeamRequests, Anybody, Roster!Operations, Roster!Roles
  <2> HIDE DEF x
  <2> QED BY <2>1, <2>2, SeatedReads DEF Seating
<1>5. ASSUME NEW by \in People, NEW i \in Seated!Invitations, Seated!ReadRevoke("q", by, i)
      PROVE  SeatedInv'
  <2> DEFINE x == [Seated!Free EXCEPT !.op = "revoke", !.by = by, !.invitation = i]
  <2>1. x \in TeamRequests /\ x.op = "revoke"
    BY <1>a, <1>b DEF TeamRequests, Anybody, Roster!Operations, Roster!Roles
  <2>2. Seated!Reads("q", x)
    BY <1>5 DEF Seated!ReadRevoke
  <2> HIDE DEF x
  <2> QED BY <2>1, <2>2, SeatedReads DEF Seating
<1>6. ASSUME NEW by \in People, Seated!ReadClose("q", by)
      PROVE  SeatedInv'
  <2> DEFINE x == [Seated!Free EXCEPT !.op = "close", !.by = by]
  <2>1. x \in TeamRequests /\ x.op = "close"
    BY <1>b DEF TeamRequests, Anybody, Roster!Operations, Roster!Roles
  <2>2. Seated!Reads("q", x)
    BY <1>6 DEF Seated!ReadClose
  <2> HIDE DEF x
  <2> QED BY <2>1, <2>2, SeatedReads DEF Seating
<1>7. ASSUME NEW i \in Seated!Invitations, Seated!ReadAccept("q", i)
      PROVE  SeatedInv'
  <2> DEFINE w == invitation[i].person
             x == [Seated!Free EXCEPT !.op = "accept", !.who = w, !.invitation = i]
  <2>1. w \in Anybody /\ i \in Open(invitation)
    BY <1>7, <1>a DEF Seated!ReadAccept, SeatsShape, InvitationRows
  <2>2. Seated!Reads("q", x)
    BY <1>7 DEF Seated!ReadAccept
  <2> HIDE DEF w
  <2>3. x \in TeamRequests /\ x.op = "accept" /\ x.invitation = i
    BY <1>a, <1>b, <2>1 DEF TeamRequests, Anybody, Roster!Operations, Roster!Roles
  <2> HIDE DEF x
  <2>4. /\ Cardinality(Open(invitation) \ {i}) = Cardinality(Open(invitation)) - 1
        /\ Cardinality(Open(invitation)) \in Nat /\ FewSeats \in Nat
    BY <2>1, OpenCount
  <2>5. Cardinality(In(team)) \in Nat
    BY <1>a, FS_CardinalityType DEF SeatsShape
  <2>6. Seats(In(team), Open(invitation) \ {i}) < FewSeats
    BY <1>a, <2>4, <2>5 DEF SeatsShape, Seats
  <2> QED BY <1>a, <2>2, <2>3, <2>6, SeatedReads DEF Seating
<1>8. ASSUME NEW by \in People, Seated!ReadDelete("q", by)
      PROVE  SeatedInv'
  <2> DEFINE plan == Seated!Plan(by)
             op == plan[1]
             who == plan[2]
             rest == Seated!Without(by)
             x == [Seated!Free EXCEPT !.op = op, !.by = by, !.who = who]
  <2>1. Seated!Reads("q", x)
    BY <1>8 DEF Seated!ReadDelete
  <2>2. op \in {"erase", "leave", "inherit"} /\ who \in Anybody
    <3>1. rest \in Seq(Anybody)
      BY <1>a, SeatedWithout DEF SeatsShape
    <3>2. Seated!Plan(by) = IF rest = << >> THEN <<"erase", Seated!Nobody>>
                            ELSE IF \/ role[by] # "OWNER"
                                    \/ \E k \in 1 .. Len(rest) : role[rest[k]] = "OWNER"
                                 THEN <<"leave", Seated!Nobody>>
                            ELSE <<"inherit", Seated!Heir(rest)>>
      BY DEF Seated!Plan
    <3> HIDE DEF rest
    <3>3. Seated!Heir(rest) = Roster!Heir(rest)
      BY DEF Seated!Heir, Roster!Heir, Seated!Rank, Roster!Rank
    <3>4. ASSUME rest # << >> PROVE Seated!Heir(rest) \in Anybody
      <4>1. \E k \in 1 .. Len(rest) : Roster!Heir(rest) = rest[k]
        BY <3>1, <3>4, HeirIsOne
      <4> QED BY <3>1, <3>3, <4>1
    <3> QED BY <3>2, <3>4 DEF Anybody, Seated!Nobody, Roster!Nobody
  <2> HIDE DEF op, who
  <2>3. x \in TeamRequests /\ x.op = op
    BY <1>b, <2>2 DEF TeamRequests, Anybody, Roster!Operations, Roster!Roles
  <2> HIDE DEF x
  <2> QED BY <2>1, <2>2, <2>3, SeatedReads DEF Seating
<1> QED BY <1>1, <1>2, <1>3, <1>5, <1>6, <1>7, <1>8

\* What each operation writes: an invitation or a member has a seat, everything else needs
\* none.
LEMMA SeatedWritesStep ==
  ASSUME SeatedInv,
         \/ Seated!Invites("q") \/ Seated!Revokes("q") \/ Seated!Accepts("q")
         \/ Seated!ChangesRole("q") \/ Seated!Removes("q") \/ Seated!Transfers("q")
         \/ Seated!Closes("q") \/ Seated!Leaves("q") \/ Seated!Inherits("q")
         \/ Seated!Erases("q") \/ Seated!Aborts("q")
  PROVE  SeatedInv'
<1> DEFINE x == teamRequest["q"]
<1>a. /\ SeatsShape /\ Seated!Members = In(team) /\ x \in TeamRequests
      /\ team \in Seq(Anybody) /\ Seating(x) /\ Seats(In(team), Open(invitation)) <= FewSeats
      /\ invitation \in [1 .. MaxInvitations -> InvitationRows] /\ IsFiniteSet(In(team))
      /\ Cardinality(In(team)) \in Nat
  BY FS_CardinalityType DEF SeatedInv, SeatsShape, Seated!Members, In
<1>b. FewSeats \in Nat /\ Cardinality(Open(invitation)) \in Nat /\ IsFiniteSet(Open(invitation))
  BY OpenCount
<1>1. CASE Seated!Invites("q")
  <2> DEFINE new == Seated!Invited(x.who, x.role)
  <2>1. PICK i \in 1 .. MaxInvitations : invitation' = [invitation EXCEPT ![i] = new]
    BY <1>1 DEF Seated!Invites, Seated!Invitations
  <2>2. /\ x.op = "invite" /\ team' = team
        /\ teamRequest' = [teamRequest EXCEPT !["q"] = Seated!Free]
    BY <1>1 DEF Seated!Invites, Seated!Writes
  <2>3. /\ x.role \in {"ADMIN", "AGENT", "VIEWER"}
        /\ Cardinality(In(team)) + Cardinality(Open(invitation)) < FewSeats
    BY <1>a, <2>2 DEF Seating, Seats
  <2>4. new \in InvitationRows
    BY <1>a, <2>3 DEF Seated!Invited, InvitationRows, TeamRequests
  <2> HIDE DEF new
  <2>5. /\ invitation' \in [1 .. MaxInvitations -> InvitationRows]
        /\ \A j \in 1 .. MaxInvitations : j # i => invitation'[j] = invitation[j]
    BY <1>a, <2>1, <2>4
  <2> DEFINE V == Open(invitation)
             W == Open(invitation')
  <2>6. W \subseteq V \cup {i}
    BY <2>5 DEF Open
  <2>7. IsFiniteSet(V) /\ Cardinality(V) \in Nat
    BY <1>b
  <2>8. Cardinality(W) \in Nat
    BY OpenCount
  <2>9. Cardinality(W) <= Cardinality(V) + 1
    <3> HIDE DEF V, W
    <3>1. /\ IsFiniteSet(V \cup {i})
          /\ Cardinality(V \cup {i}) = IF i \in V THEN Cardinality(V) ELSE Cardinality(V) + 1
      BY <2>7, FS_AddElement
    <3>2. Cardinality(W) <= Cardinality(V \cup {i})
      BY <2>6, <3>1, FS_Subset
    <3>3. Cardinality(V \cup {i}) \in Nat
      BY <3>1, FS_CardinalityType
    <3> QED BY <2>7, <2>8, <3>1, <3>2, <3>3
  <2>10. Seats(In(team'), W) <= FewSeats
    BY <1>a, <1>b, <2>2, <2>3, <2>7, <2>8, <2>9 DEF Seats
  <2>11. SeatsShape'
    BY <1>a, <2>2, <2>5, <2>10 DEF SeatsShape
  <2> QED BY <2>2, <2>11, SeatedWrites
<1>2. CASE Seated!Accepts("q")
  <2> DEFINE i == x.invitation
             p == x.who
             new == [invitation[i] EXCEPT !.status = "ACCEPTED"]
  <2>1. /\ x.op = "accept" /\ teamRequest' = [teamRequest EXCEPT !["q"] = Seated!Free]
        /\ team' = Append(team, p) /\ invitation' = [invitation EXCEPT ![i] = new]
    BY <1>2 DEF Seated!Accepts, Seated!Writes
  <2>2. p \in Anybody
    BY <1>a DEF TeamRequests
  <2>3. /\ i \in 1 .. MaxInvitations
        /\ Cardinality(In(team)) + Cardinality(Open(invitation) \ {i}) < FewSeats
    BY <1>a, <2>1 DEF Seating, Seats
  <2>4. new \in InvitationRows /\ new.status = "ACCEPTED"
    BY <1>a, <2>3 DEF InvitationRows
  <2> HIDE DEF new, i, p
  <2>5. /\ invitation' \in [1 .. MaxInvitations -> InvitationRows] /\ invitation'[i] = new
        /\ \A j \in 1 .. MaxInvitations : j # i => invitation'[j] = invitation[j]
    BY <1>a, <2>1, <2>3, <2>4
  <2>6. team' \in Seq(Anybody) /\ In(team') = In(team) \cup {p}
    BY <1>a, <2>1, <2>2, OneJoins
  <2> DEFINE S == In(team)
             T == In(team')
             V == Open(invitation) \ {i}
             W == Open(invitation')
  <2>7. W \subseteq V /\ IsFiniteSet(V) /\ Cardinality(V) \in Nat /\ Cardinality(W) \in Nat
    BY <2>4, <2>5, OpenCount DEF Open
  <2>8. /\ IsFiniteSet(T) /\ Cardinality(T) \in Nat
        /\ Cardinality(T) <= Cardinality(S) + 1
    <3>1. T = S \cup {p} /\ IsFiniteSet(S) /\ Cardinality(S) \in Nat
      BY <1>a, <2>6
    <3> HIDE DEF S, T
    <3>2. /\ IsFiniteSet(T)
          /\ Cardinality(T) = IF p \in S THEN Cardinality(S) ELSE Cardinality(S) + 1
      BY <3>1, FS_AddElement
    <3> QED BY <3>1, <3>2
  <2>9. Cardinality(W) <= Cardinality(V)
    <3> HIDE DEF V, W
    <3> QED BY <2>7, FS_Subset
  <2>10. Seats(T, W) <= FewSeats
    BY <1>a, <1>b, <2>3, <2>7, <2>8, <2>9 DEF Seats
  <2>11. SeatsShape'
    BY <2>5, <2>6, <2>8, <2>10 DEF SeatsShape
  <2> QED BY <2>1, <2>11, SeatedWrites
<1>3. CASE Seated!Revokes("q")
  <2> DEFINE i == x.invitation
             new == [invitation[i] EXCEPT !.status = "REVOKED"]
  <2>1. /\ team' = team /\ teamRequest' = [teamRequest EXCEPT !["q"] = Seated!Free]
        /\ invitation' = [invitation EXCEPT ![i] = new]
    BY <1>3 DEF Seated!Revokes, Seated!Writes
  <2>2. i \in 1 .. MaxInvitations => new \in InvitationRows /\ new.status = "REVOKED"
    BY <1>a DEF InvitationRows
  <2> HIDE DEF new, i
  <2>3. /\ invitation' \in [1 .. MaxInvitations -> InvitationRows]
        /\ \A j \in 1 .. MaxInvitations :
             invitation'[j] = invitation[j] \/ invitation'[j].status = "REVOKED"
    BY <1>a, <2>1, <2>2
  <2>4. Open(invitation') \subseteq Open(invitation)
    BY <2>3 DEF Open
  <2>5. SeatsShape'
    BY <1>a, <2>1, <2>3, <2>4, SeatsShrink
  <2> QED BY <2>1, <2>5, SeatedWrites
<1>4. CASE Seated!Closes("q") \/ Seated!Erases("q")
  <2>1. /\ team' = << >> /\ teamRequest' = [teamRequest EXCEPT !["q"] = Seated!Free]
        /\ invitation' = [i \in 1 .. MaxInvitations |-> Seated!NoInvitation]
    BY <1>4 DEF Seated!Closes, Seated!Erases, Seated!Gone, Seated!Writes, Seated!Invitations
  <2> DEFINE none == Seated!NoInvitation
  <2>2. none \in InvitationRows /\ none.status = "NONE"
    BY DEF Seated!NoInvitation, InvitationRows, Anybody, Seated!Nobody, Roster!Nobody
  <2>3. invitation' = [i \in 1 .. MaxInvitations |-> none]
    BY <2>1
  <2> HIDE DEF none
  <2>4. /\ invitation' \in [1 .. MaxInvitations -> InvitationRows]
        /\ Open(invitation') \subseteq Open(invitation)
    BY <2>2, <2>3 DEF Open
  <2>5. team' \in Seq(Anybody) /\ In(team') \subseteq In(team)
    BY <2>1 DEF In
  <2>6. SeatsShape'
    BY <1>a, <2>4, <2>5, SeatsShrink
  <2> QED BY <2>1, <2>6, SeatedWrites
<1>5. CASE Seated!Removes("q") \/ Seated!Leaves("q") \/ Seated!Inherits("q")
  <2>1. /\ invitation' = invitation /\ teamRequest' = [teamRequest EXCEPT !["q"] = Seated!Free]
        /\ \E p \in {x.who, x.by} : team' = Seated!Without(p)
    BY <1>5 DEF Seated!Removes, Seated!Leaves, Seated!Inherits, Seated!Writes
  <2>2. team' \in Seq(Anybody) /\ In(team') \subseteq In(team)
    BY <1>a, <2>1, SeatedWithout
  <2>3. SeatsShape'
    BY <1>a, <2>1, <2>2, SeatsShrink
  <2> QED BY <2>1, <2>3, SeatedWrites
<1>6. CASE Seated!ChangesRole("q") \/ Seated!Transfers("q") \/ Seated!Aborts("q")
  <2>1. /\ UNCHANGED <<team, invitation>>
        /\ teamRequest' = [teamRequest EXCEPT !["q"] = Seated!Free]
    BY <1>6 DEF Seated!ChangesRole, Seated!Transfers, Seated!Aborts, Seated!Writes
  <2>2. SeatsShape'
    BY <1>a, <2>1 DEF SeatsShape
  <2> QED BY <2>1, <2>2, SeatedWrites
<1> QED BY <1>1, <1>2, <1>3, <1>4, <1>5, <1>6

\* An invitation that is refused, or whose time is over, gives its seat back.
LEMMA SeatedAges ==
  ASSUME SeatedInv, NEW i \in Seated!Invitations, Seated!Rejects("q", i) \/ Seated!Expires(i)
  PROVE  SeatedInv'
<1> DEFINE x == teamRequest["q"]
<1>a. /\ SeatsShape /\ Seating(x) /\ i \in 1 .. MaxInvitations
      /\ invitation \in [1 .. MaxInvitations -> InvitationRows]
      /\ team \in Seq(Anybody) /\ IsFiniteSet(In(team))
      /\ UNCHANGED <<team, teamRequest>>
  BY DEF SeatedInv, SeatsShape, Seated!Invitations, Seated!Rejects, Seated!Expires
<1>1. /\ invitation' \in [1 .. MaxInvitations -> InvitationRows]
      /\ \A j \in 1 .. MaxInvitations : invitation'[j] = invitation[j] \/ j \notin Open(invitation')
  <2>1. CASE Seated!Rejects("q", i)
    <3> DEFINE new == [invitation[i] EXCEPT !.status = "REJECTED"]
    <3>1. new \in InvitationRows /\ new.status = "REJECTED"
      BY <1>a DEF InvitationRows
    <3>2. invitation' = [invitation EXCEPT ![i] = new]
      BY <2>1 DEF Seated!Rejects
    <3> HIDE DEF new
    <3> QED BY <1>a, <3>1, <3>2 DEF Open
  <2>2. CASE Seated!Expires(i)
    <3> DEFINE new == [invitation[i] EXCEPT !.live = FALSE]
    <3>1. new \in InvitationRows /\ ~ new.live
      BY <1>a DEF InvitationRows
    <3>2. invitation' = [invitation EXCEPT ![i] = new]
      BY <2>2 DEF Seated!Expires
    <3> HIDE DEF new
    <3> QED BY <1>a, <3>1, <3>2 DEF Open
  <2> QED BY <2>1, <2>2
<1>2. Open(invitation') \subseteq Open(invitation)
  BY <1>1 DEF Open
<1>3. SeatsShape'
  BY <1>a, <1>1, <1>2, SeatsShrink
<1>4. ASSUME NEW k
      PROVE  /\ Seats(In(team), Open(invitation') \ {k}) <= Seats(In(team), Open(invitation) \ {k})
             /\ Seats(In(team), Open(invitation')) <= Seats(In(team), Open(invitation))
  <2> DEFINE V == Open(invitation)
             W == Open(invitation')
             S == In(team)
  <2>1. IsFiniteSet(V) /\ IsFiniteSet(V \ {k}) /\ IsFiniteSet(S) /\ W \subseteq V
    BY <1>a, <1>2, OpenCount
  <2> HIDE DEF V, W, S
  <2>2. W \ {k} \subseteq V \ {k}
    BY <2>1
  <2> QED BY <2>1, <2>2, FewerSeats DEF V, W, S
<1>5. ASSUME NEW k
      PROVE  /\ Seats(In(team), Open(invitation) \ {k}) \in Nat
             /\ Seats(In(team), Open(invitation') \ {k}) \in Nat
             /\ Seats(In(team), Open(invitation)) \in Nat
             /\ Seats(In(team), Open(invitation')) \in Nat /\ FewSeats \in Nat
  <2>1. Cardinality(In(team)) \in Nat
    BY <1>a, FS_CardinalityType
  <2>2. /\ Cardinality(Open(invitation)) \in Nat
        /\ Cardinality(Open(invitation) \ {k}) \in Nat /\ FewSeats \in Nat
    BY OpenCount
  <2>3. /\ Cardinality(Open(invitation')) \in Nat
        /\ Cardinality(Open(invitation') \ {k}) \in Nat
    BY OpenCount
  <2> QED BY <2>1, <2>2, <2>3 DEF Seats
<1>6. Seating(x)'
  <2> DEFINE n(k) == Seats(In(team), Open(invitation) \ {k})
             m(k) == Seats(In(team), Open(invitation') \ {k})
             a == Seats(In(team), Open(invitation))
             b == Seats(In(team), Open(invitation'))
  <2>1. \A k : n(k) \in Nat /\ m(k) \in Nat /\ m(k) <= n(k)
    BY <1>4, <1>5
  <2>2. a \in Nat /\ b \in Nat /\ b <= a /\ FewSeats \in Nat
    BY <1>4, <1>5
  <2>3. /\ x.op = "invite" => x.role \in {"ADMIN", "AGENT", "VIEWER"} /\ a < FewSeats
        /\ x.op = "accept" => x.invitation \in 1 .. MaxInvitations /\ n(x.invitation) < FewSeats
    BY <1>a DEF Seating
  <2>4. x' = x /\ team' = team
    BY <1>a
  <2>5. Seating(x)' <=>
          /\ x.op = "invite" => x.role \in {"ADMIN", "AGENT", "VIEWER"} /\ b < FewSeats
          /\ x.op = "accept" => x.invitation \in 1 .. MaxInvitations /\ m(x.invitation) < FewSeats
    BY <2>4 DEF Seating
  <2> HIDE DEF n, m, a, b
  <2>6. /\ x.op = "invite" => x.role \in {"ADMIN", "AGENT", "VIEWER"} /\ b < FewSeats
        /\ x.op = "accept" => x.invitation \in 1 .. MaxInvitations /\ m(x.invitation) < FewSeats
    BY <2>1, <2>2, <2>3
  <2> QED BY <2>5, <2>6
<1> QED BY <1>a, <1>3, <1>6 DEF SeatedInv

\* Whatever one request does, there is a seat for each member and each invitation that waits.
LEMMA SeatedStep == SeatedInv /\ [Seated!Next]_(Seated!vars) => SeatedInv'
<1> SUFFICES ASSUME SeatedInv, [Seated!Next]_(Seated!vars) PROVE SeatedInv'
  OBVIOUS
<1>1. CASE UNCHANGED Seated!vars
  BY <1>1 DEF Seated!vars, SeatedInv, SeatsShape, Seating
<1>2. CASE Seated!Next
  <2>1. CASE \/ \E by, p \in People :
                  \/ \E r \in Seated!Roles :
                       Seated!ReadInvite("q", by, p, r) \/ Seated!ReadRole("q", by, p, r)
                  \/ Seated!ReadRemove("q", by, p) \/ Seated!ReadTransfer("q", by, p)
             \/ \E by \in People :
                  \/ \E i \in Seated!Invitations : Seated!ReadRevoke("q", by, i)
                  \/ Seated!ReadClose("q", by) \/ Seated!ReadDelete("q", by)
             \/ \E i \in Seated!Invitations : Seated!ReadAccept("q", i)
    BY <2>1, SeatedReadsStep
  <2>2. CASE \/ Seated!Invites("q") \/ Seated!Revokes("q") \/ Seated!Accepts("q")
             \/ Seated!ChangesRole("q") \/ Seated!Removes("q") \/ Seated!Transfers("q")
             \/ Seated!Closes("q") \/ Seated!Leaves("q") \/ Seated!Inherits("q")
             \/ Seated!Erases("q") \/ Seated!Aborts("q")
    BY <2>2, SeatedWritesStep
  <2>3. CASE \E i \in Seated!Invitations : Seated!Rejects("q", i) \/ Seated!Expires(i)
    BY <2>3, SeatedAges
  <2> QED BY <1>2, <2>1, <2>2, <2>3, Zenon DEF Seated!Next
<1> QED BY <1>1, <1>2

\* The seats the plan counts are those of the members and of the invitations that wait.
LEMMA SeatedHolds == SeatedInv => Seated!SeatsKept
<1>1. Seated!Members = In(team) /\ Seated!Waiting = Open(invitation)
  BY DEF Seated!Members, In, Seated!Waiting, Seated!Invitations, Open
<1> QED BY <1>1 DEF SeatedInv, SeatsShape, Seated!SeatsKept, Seats, Seated!Cardinality,
   Cardinality

\* What a quotient leaves.
LEMMA Remainder ==
  ASSUME NEW n \in Nat, NEW d \in Nat \ {0}
  PROVE  n % d \in 0 .. d - 1 /\ n = (n \div d) * d + (n % d)
OBVIOUS

\* A number below a length leaves itself, after any multiple of the length.
LEMMA OneRemainder ==
  ASSUME NEW n \in Nat, NEW d \in Nat \ {0}, NEW k \in Nat, NEW r \in 0 .. d - 1, n = k * d + r
  PROVE  n % d = r
<1> DEFINE q == n \div d
           s == n % d
<1>1. q \in Nat /\ s \in 0 .. d - 1 /\ n = q * d + s
  BY Quotient, Remainder
<1> HIDE DEF q, s
<1>2. k * d \in Nat /\ q * d \in Nat
  BY <1>1
<1>3. ASSUME k < q PROVE FALSE
  <2>1. (k + 1) * d <= q * d
    BY <1>1, <1>3
  <2>2. (k + 1) * d = k * d + d
    BY <1>1
  <2> QED BY <1>1, <1>2, <2>1, <2>2
<1>4. ASSUME q < k PROVE FALSE
  <2>1. (q + 1) * d <= k * d
    BY <1>1, <1>4
  <2>2. (q + 1) * d = q * d + d
    BY <1>1
  <2> QED BY <1>1, <1>2, <2>1, <2>2
<1>5. k = q
  BY <1>1, <1>3, <1>4
<1> QED BY <1>1, <1>2, <1>5 DEF s

------------------------------------------------------------------------------
(***************************************************************************)
(* The notices of a trial.                                                 *)
(***************************************************************************)
\* The remainder follows the clock, and starts again with the day.
LEMMA NextRemainder ==
  ASSUME NEW n \in Nat, NEW d \in Nat \ {0}
  PROVE  (n + 1) % d = IF n % d = d - 1 THEN 0 ELSE (n % d) + 1
<1> DEFINE q == n \div d
           r == n % d
<1>1. q \in Nat /\ r \in 0 .. d - 1 /\ n = q * d + r
  BY Quotient, Remainder
<1> HIDE DEF q, r
<1>2. q * d \in Nat /\ (q + 1) * d = q * d + d
  BY <1>1
<1>3. CASE r = d - 1
  <2>1. n + 1 = (q + 1) * d + 0 /\ q + 1 \in Nat /\ 0 \in 0 .. d - 1 /\ n + 1 \in Nat
    BY <1>1, <1>2, <1>3
  <2>2. (n + 1) % d = 0
    BY <2>1, OneRemainder
  <2> QED BY <1>3, <2>2 DEF r
<1>4. CASE r # d - 1
  <2>1. n + 1 = q * d + (r + 1) /\ r + 1 \in 0 .. d - 1 /\ n + 1 \in Nat
    BY <1>1, <1>2, <1>4
  <2>2. (n + 1) % d = r + 1
    BY <1>1, <2>1, OneRemainder
  <2> QED BY <1>4, <2>2 DEF r
<1> QED BY <1>3, <1>4

\* Every hour comes once within a day.
LEMMA WithinADay ==
  ASSUME NEW n \in Nat, NEW d \in Nat \ {0}, NEW h \in 0 .. d - 1
  PROVE  \E t \in Nat : n <= t /\ t < n + d /\ t % d = h
<1> DEFINE q == n \div d
           r == n % d
<1>1. q \in Nat /\ r \in 0 .. d - 1 /\ n = q * d + r
  BY Quotient, Remainder
<1> HIDE DEF q, r
<1>2. q * d \in Nat /\ (q + 1) * d = q * d + d /\ (q + 1) * d \in Nat
  BY <1>1
<1>3. CASE r <= h
  <2> DEFINE t == q * d + h
  <2>1. t \in Nat /\ n <= t /\ t < n + d
    BY <1>1, <1>2, <1>3
  <2>2. t % d = h
    BY <1>1, <2>1, OneRemainder
  <2> QED BY <2>1, <2>2
<1>4. CASE ~ (r <= h)
  <2> DEFINE t == (q + 1) * d + h
  <2>1. t \in Nat /\ n <= t /\ t < n + d /\ q + 1 \in Nat
    BY <1>1, <1>2, <1>4
  <2>2. t % d = h
    BY <2>1, OneRemainder
  <2> QED BY <2>1, <2>2
<1> QED BY <1>3, <1>4

Marks == {3, 1, 0}
JobRows == [pc : {"idle", "next", "mail"}, left : SUBSET TrialOrgs, of : SUBSET TrialOrgs,
            milestone : Marks]
\* The job of an instant reserves the notices of three days and of one.
Noticed(o, t) ==
  /\ t < end[o] /\ end[o] <= t + Day => 1 \in reserved[o]
  /\ t + 2 * Day < end[o] /\ end[o] <= t + 3 * Day => 3 \in reserved[o]
RemindersShape ==
  /\ reminderNow \in Nat /\ ran \in BOOLEAN
  /\ reminderRow \in [TrialOrgs -> {"TRIALING", "EXPIRED", "ACTIVE"}]
  /\ end \in [TrialOrgs -> Ends] /\ reserved \in [TrialOrgs -> SUBSET Marks]
  /\ mailed \in [TrialOrgs -> [Marks -> Nat]] /\ job \in [Requests -> JobRows]
\* A mail that is about to go out is of a notice that was reserved, by one run.
MailedOnce ==
  /\ \A o \in TrialOrgs, m \in Marks :
       mailed[o][m] <= 1 /\ (m \notin reserved[o] => mailed[o][m] = 0)
  /\ \A j \in Requests : job[j].pc = "mail" =>
       \A o \in job[j].of : job[j].milestone \in reserved[o] /\ mailed[o][job[j].milestone] = 0
  /\ \A i, j \in Requests :
       i # j /\ job[i].pc = "mail" /\ job[j].pc = "mail" /\ job[i].milestone = job[j].milestone =>
         job[i].of \cap job[j].of = {}
\* Of a trial that was not paid, the jobs of the former days and of this one, if it has run,
\* reserved their notices; a run under way, those of what it has left behind.
NoticedInTime ==
  /\ reminderNow % Day < Hour => ~ ran
  /\ \A j \in Requests : job[j].pc # "idle" => reminderNow % Day = Hour
  /\ \A o \in TrialOrgs :
       /\ reminderRow[o] = "EXPIRED" => end[o] <= reminderNow
       /\ reminderRow[o] # "ACTIVE" =>
            /\ \A j \in Requests :
                 job[j].pc # "idle" => o \in job[j].left \/ Noticed(o, reminderNow)
            /\ \A t \in Nat :
                 t % Day = Hour /\ (t < reminderNow \/ (t = reminderNow /\ ran)) => Noticed(o, t)
RemindersInv == RemindersShape /\ MailedOnce /\ NoticedInTime

\* The job runs at one hour of the day; trials are longer than their first notice.
LEMMA RemindersConstants ==
  /\ Day \in Nat \ {0} /\ Hour \in 0 .. Day - 1 /\ Ends \subseteq Nat
  /\ \A e \in Ends : 3 * Day <= e
  /\ Reminders!LastStart = Hour /\ Reminders!Milestones = Marks
BY Bounds DEF Reminders!RemindersAssumption, Reminders!LastStart, Reminders!Milestones, Marks

\* Nothing was reserved or mailed at the start.
LEMMA RemindersInit == Reminders!Init => RemindersInv
<1> SUFFICES ASSUME Reminders!Init PROVE RemindersInv
  OBVIOUS
<1>1. Reminders!Free \in JobRows /\ Reminders!Free.pc = "idle"
  BY DEF Reminders!Free, JobRows, Marks
<1>2. RemindersShape
  BY <1>1, RemindersConstants DEF Reminders!Init, RemindersShape, Marks
<1>3. \A j \in Requests : job[j].pc = "idle"
  BY <1>1 DEF Reminders!Init
<1>4. MailedOnce
  BY <1>3, RemindersConstants DEF Reminders!Init, MailedOnce, Marks
<1>5. NoticedInTime
  BY <1>3, RemindersConstants DEF Reminders!Init, NoticedInTime
<1> QED BY <1>2, <1>4, <1>5 DEF RemindersInv

\* The days that are left are one or three within the day or the third day before the end.
LEMMA DaysToTheEnd ==
  ASSUME RemindersShape, NEW o \in TrialOrgs
  PROVE  /\ reminderNow < end[o] /\ end[o] <= reminderNow + Day => Reminders!DaysLeft(o) = 1
         /\ reminderNow + 2 * Day < end[o] /\ end[o] <= reminderNow + 3 * Day =>
              Reminders!DaysLeft(o) = 3
<1> DEFINE e == end[o]
           n == e - reminderNow + Day - 1
<1>1. e \in Nat /\ reminderNow \in Nat /\ Day \in Nat \ {0}
  BY RemindersConstants DEF RemindersShape
<1>2. ASSUME reminderNow < e
      PROVE  /\ e <= reminderNow + Day => n \div Day = 1
             /\ reminderNow + 2 * Day < e /\ e <= reminderNow + 3 * Day => n \div Day = 3
             /\ Reminders!DaysLeft(o) = n \div Day
  <2>1. n \in Nat
    BY <1>1, <1>2
  <2>2. Reminders!DaysLeft(o) = n \div Day
    BY <1>1, <1>2 DEF Reminders!DaysLeft
  <2> DEFINE q == n \div Day
  <2>3. q \in Nat /\ \A k \in Nat : k <= q <=> k * Day <= n
    BY <1>1, <2>1, Quotient
  <2> HIDE DEF q
  <2>4. /\ 1 <= q <=> 1 * Day <= n
        /\ 2 <= q <=> 2 * Day <= n
        /\ 3 <= q <=> 3 * Day <= n
        /\ 4 <= q <=> 4 * Day <= n
    BY <2>3
  <2>5. /\ e <= reminderNow + Day => q = 1
        /\ reminderNow + 2 * Day < e /\ e <= reminderNow + 3 * Day => q = 3
    BY <1>1, <1>2, <2>3, <2>4
  <2> QED BY <2>2, <2>5 DEF q
<1>3. reminderNow + 2 * Day < e => reminderNow < e
  BY <1>1
<1> HIDE DEF e, n
<1> QED BY <1>2, <1>3 DEF e

\* A run that changes only itself, and neither reserves nor mails.
LEMMA RunMoves ==
  ASSUME RemindersInv, NEW j \in Requests, NEW x \in JobRows,
         UNCHANGED <<reminderNow, reminderRow, end, reserved, mailed>>, ran' \in BOOLEAN,
         job' = [job EXCEPT ![j] = x], x.pc # "mail",
         x.pc # "idle" => reminderNow % Day = Hour /\
           \A o \in TrialOrgs : reminderRow[o] # "ACTIVE" => o \in x.left \/ Noticed(o, reminderNow),
         ran' # ran => reminderNow % Day = Hour /\
           \A o \in TrialOrgs : reminderRow[o] # "ACTIVE" => Noticed(o, reminderNow)
  PROVE  RemindersInv'
<1>1. /\ job' \in [Requests -> JobRows] /\ job'[j] = x
      /\ \A i \in Requests : i # j => job'[i] = job[i]
  BY DEF RemindersInv, RemindersShape
<1>2. RemindersShape'
  BY <1>1 DEF RemindersInv, RemindersShape
<1>3. \A i \in Requests : job'[i].pc = "mail" => i # j /\ job'[i] = job[i]
  BY <1>1
<1>4. MailedOnce'
  BY <1>3 DEF RemindersInv, MailedOnce
<1>5. \A o, t : Noticed(o, t)' <=> Noticed(o, t)
  BY DEF Noticed
<1>6. reminderNow % Day = Hour => ~ (reminderNow % Day < Hour)
  BY RemindersConstants
<1>7. NoticedInTime'
  <2>1. reminderNow' % Day < Hour => ~ ran'
    BY <1>6 DEF RemindersInv, NoticedInTime
  <2>2. \A i \in Requests : job'[i].pc # "idle" => reminderNow' % Day = Hour
    BY <1>1 DEF RemindersInv, NoticedInTime
  <2>3. ASSUME NEW o \in TrialOrgs
        PROVE  reminderRow'[o] = "EXPIRED" => end'[o] <= reminderNow'
    BY DEF RemindersInv, NoticedInTime
  <2>4. ASSUME NEW o \in TrialOrgs, reminderRow'[o] # "ACTIVE", NEW i \in Requests,
               job'[i].pc # "idle"
        PROVE  o \in job'[i].left \/ Noticed(o, reminderNow)
    BY <1>1, <2>4 DEF RemindersInv, NoticedInTime
  <2>5. ASSUME NEW o \in TrialOrgs, reminderRow'[o] # "ACTIVE", NEW t \in Nat, t % Day = Hour,
               t < reminderNow \/ (t = reminderNow /\ ran')
        PROVE  Noticed(o, t)
    BY <2>5 DEF RemindersInv, NoticedInTime
  <2> QED BY <1>5, <2>1, <2>2, <2>3, <2>4, <2>5 DEF NoticedInTime
<1> QED BY <1>2, <1>4, <1>7 DEF RemindersInv

\* A run starts, passes over an organization, ends or is cut.
LEMMA RunStep ==
  ASSUME RemindersInv, NEW j \in Requests,
         \/ Reminders!Starts(j) \/ Reminders!Finishes(j) \/ Reminders!Dies(j)
         \/ \E o \in TrialOrgs : Reminders!Passes(j, o)
  PROVE  RemindersInv'
<1>a. /\ job[j] \in JobRows /\ ran \in BOOLEAN /\ reminderNow \in Nat
      /\ job[j].pc # "idle" => /\ reminderNow % Day = Hour
                               /\ \A o \in TrialOrgs : reminderRow[o] # "ACTIVE" =>
                                    o \in job[j].left \/ Noticed(o, reminderNow)
  BY DEF RemindersInv, RemindersShape, NoticedInTime
<1>b. Reminders!Free \in JobRows /\ Reminders!Free.pc = "idle"
  BY DEF Reminders!Free, JobRows, Marks
<1>1. CASE Reminders!Starts(j)
  <2> DEFINE due == {o \in TrialOrgs : Reminders!Due(o)}
             x == [Reminders!Free EXCEPT !.pc = "next", !.left = due]
  <2>1. /\ reminderNow % Day = Hour /\ ran' = ran
        /\ UNCHANGED <<reminderNow, reminderRow, end, reserved, mailed>>
        /\ job' = [job EXCEPT ![j] = x]
    BY <1>1 DEF Reminders!Starts
  <2>2. x \in JobRows /\ x.pc = "next" /\ x.left = due
    <3>1. due \subseteq TrialOrgs
      OBVIOUS
    <3> HIDE DEF due
    <3> QED BY <3>1 DEF Reminders!Free, JobRows, Marks
  <2>3. ASSUME NEW o \in TrialOrgs, reminderRow[o] # "ACTIVE", o \notin due
        PROVE  Noticed(o, reminderNow)
    <3>1. /\ end[o] \in Nat /\ Day \in Nat
          /\ reminderRow[o] = "EXPIRED" => end[o] <= reminderNow
          /\ reminderRow[o] \in {"TRIALING", "EXPIRED", "ACTIVE"}
      BY RemindersConstants DEF RemindersInv, RemindersShape, NoticedInTime
    <3>2. ~ Reminders!Due(o)
      BY <2>3
    <3>3. \/ end[o] <= reminderNow
          \/ ~ (reminderNow - 2 * Day <= end[o] /\ end[o] <= reminderNow + 4 * Day)
      BY <2>3, <3>1, <3>2 DEF Reminders!Due
    <3> QED BY <1>a, <3>1, <3>3 DEF Noticed
  <2> HIDE DEF x, due
  <2> QED BY <1>a, <2>1, <2>2, <2>3, RunMoves
<1>2. CASE Reminders!Finishes(j)
  <2>1. /\ job[j].pc = "next" /\ job[j].left = {} /\ ran' = TRUE
        /\ UNCHANGED <<reminderNow, reminderRow, end, reserved, mailed>>
        /\ job' = [job EXCEPT ![j] = Reminders!Free]
    BY <1>2 DEF Reminders!Finishes
  <2> QED BY <1>a, <1>b, <2>1, RunMoves
<1>3. CASE Reminders!Dies(j)
  <2>1. /\ ran' = ran /\ UNCHANGED <<reminderNow, reminderRow, end, reserved, mailed>>
        /\ job' = [job EXCEPT ![j] = Reminders!Free]
    BY <1>3 DEF Reminders!Dies
  <2> QED BY <1>a, <1>b, <2>1, RunMoves
<1>4. ASSUME NEW o \in TrialOrgs, Reminders!Passes(j, o)
      PROVE  RemindersInv'
  <2> DEFINE x == [job[j] EXCEPT !.left = job[j].left \ {o}]
  <2>1. /\ job[j].pc = "next" /\ ran' = ran
        /\ UNCHANGED <<reminderNow, reminderRow, end, reserved, mailed>>
        /\ job' = [job EXCEPT ![j] = x]
        /\ Reminders!DaysLeft(o) \in Marks => Reminders!DaysLeft(o) \in reserved[o]
    BY <1>4, RemindersConstants DEF Reminders!Passes, Reminders!FreeKey
  <2>2. x \in JobRows /\ x.pc = "next" /\ x.left = job[j].left \ {o}
    <3> DEFINE old == job[j]
               rest == old.left \ {o}
    <3>1. old \in JobRows /\ rest \subseteq TrialOrgs /\ old.pc = "next"
      BY <1>a, <2>1 DEF JobRows
    <3> HIDE DEF old, rest
    <3>2. LET y == [old EXCEPT !.left = rest] IN y \in JobRows /\ y.pc = "next" /\ y.left = rest
      BY <3>1 DEF JobRows
    <3> QED BY <3>2 DEF old, rest
  <2>3. Noticed(o, reminderNow)
    BY <2>1, DaysToTheEnd DEF Noticed, Marks, RemindersInv
  <2> HIDE DEF x
  <2> QED BY <1>a, <2>1, <2>2, <2>3, RunMoves
<1> QED BY <1>1, <1>2, <1>3, <1>4

\* A run reserves the notice of the day of an organization, which had not been mailed.
LEMMA ReservesStep ==
  ASSUME RemindersInv, NEW j \in Requests, NEW o \in TrialOrgs, Reminders!Reserves(j, o)
  PROVE  RemindersInv'
<1> DEFINE m == Reminders!DaysLeft(o)
           rest == job[j].left \ {o}
           x == [pc |-> "mail", left |-> rest, of |-> {o}, milestone |-> m]
           taken == reserved[o] \cup {m}
<1>1. /\ job[j].pc = "next" /\ m \in Marks /\ m \notin reserved[o]
      /\ UNCHANGED <<reminderNow, reminderRow, end, mailed, ran>>
      /\ reserved' = [reserved EXCEPT ![o] = taken]
      /\ job' = [job EXCEPT ![j] = x]
  BY RemindersConstants DEF Reminders!Reserves, Reminders!FreeKey, Reminders!Key
<1>2. rest \subseteq TrialOrgs /\ taken \subseteq Marks
  BY <1>1 DEF RemindersInv, RemindersShape, JobRows
<1> HIDE DEF m
<1>3. x \in JobRows /\ x.pc = "mail" /\ x.left = rest /\ x.of = {o} /\ x.milestone = m
  <2> HIDE DEF rest
  <2> QED BY <1>1, <1>2 DEF JobRows
<1>4. m \in taken /\ reserved[o] \subseteq taken /\ taken \subseteq reserved[o] \cup {m}
  OBVIOUS
<1> HIDE DEF x, taken
<1>5. /\ job' \in [Requests -> JobRows] /\ job'[j] = x
      /\ \A i \in Requests : i # j => job'[i] = job[i]
  BY <1>1, <1>3 DEF RemindersInv, RemindersShape
<1>6. /\ reserved' \in [TrialOrgs -> SUBSET Marks] /\ reserved'[o] = taken
      /\ \A p \in TrialOrgs : p # o => reserved'[p] = reserved[p]
  BY <1>1, <1>2 DEF RemindersInv, RemindersShape
<1>7. RemindersShape'
  BY <1>1, <1>5, <1>6 DEF RemindersInv, RemindersShape
<1>8. MailedOnce'
  <2>1. \A p \in TrialOrgs, n \in Marks :
          mailed'[p][n] <= 1 /\ (n \notin reserved'[p] => mailed'[p][n] = 0)
    BY <1>1, <1>4, <1>6 DEF RemindersInv, MailedOnce
  <2>2. ASSUME NEW i \in Requests, job'[i].pc = "mail", NEW p \in job'[i].of
        PROVE  job'[i].milestone \in reserved'[p] /\ mailed'[p][job'[i].milestone] = 0
    <3>1. CASE i = j
      BY <1>1, <1>3, <1>4, <1>5, <1>6, <2>2, <3>1 DEF RemindersInv, MailedOnce
    <3>2. CASE i # j
      <4>1. job'[i] = job[i] /\ p \in TrialOrgs
        BY <1>5, <2>2, <3>2 DEF RemindersInv, RemindersShape, JobRows
      <4>2. job[i].milestone \in reserved[p] /\ mailed[p][job[i].milestone] = 0
        BY <2>2, <4>1 DEF RemindersInv, MailedOnce
      <4> QED BY <1>1, <1>4, <1>6, <4>1, <4>2
    <3> QED BY <3>1, <3>2
  <2>3. ASSUME NEW i \in Requests, job[i].pc = "mail", job[i].milestone = m
        PROVE  o \notin job[i].of
    BY <1>1, <2>3 DEF RemindersInv, MailedOnce
  <2>4. ASSUME NEW i \in Requests, NEW k \in Requests, i # k, job'[i].pc = "mail",
               job'[k].pc = "mail", job'[i].milestone = job'[k].milestone
        PROVE  job'[i].of \cap job'[k].of = {}
    BY <1>3, <1>5, <2>3, <2>4 DEF RemindersInv, MailedOnce
  <2> QED BY <2>1, <2>2, <2>4 DEF MailedOnce
<1>9. NoticedInTime'
  <2>1. \A p \in TrialOrgs : \A t : Noticed(p, t) => Noticed(p, t)'
    BY <1>1, <1>4, <1>6 DEF Noticed
  <2>2. Noticed(o, reminderNow)'
    <3>1. /\ reminderNow < end[o] /\ end[o] <= reminderNow + Day => m = 1
          /\ reminderNow + 2 * Day < end[o] /\ end[o] <= reminderNow + 3 * Day => m = 3
      BY DaysToTheEnd DEF RemindersInv, m
    <3> QED BY <1>1, <1>4, <1>6, <3>1 DEF Noticed
  <2>3. /\ reminderNow' % Day < Hour => ~ ran'
        /\ \A i \in Requests : job'[i].pc # "idle" => reminderNow' % Day = Hour
    BY <1>1, <1>5 DEF RemindersInv, NoticedInTime
  <2>4. ASSUME NEW p \in TrialOrgs
        PROVE  reminderRow'[p] = "EXPIRED" => end'[p] <= reminderNow'
    BY <1>1 DEF RemindersInv, NoticedInTime
  <2>5. ASSUME NEW p \in TrialOrgs, reminderRow'[p] # "ACTIVE", NEW i \in Requests,
               job'[i].pc # "idle"
        PROVE  p \in job'[i].left \/ Noticed(p, reminderNow)'
    <3>1. job[i].pc # "idle"
      BY <1>1, <1>5, <2>5
    <3>2. p \in job[i].left \/ Noticed(p, reminderNow)
      BY <1>1, <2>5, <3>1 DEF RemindersInv, NoticedInTime
    <3>3. p = o \/ p \notin job[i].left \/ p \in job'[i].left
      BY <1>3, <1>5
    <3> QED BY <1>1, <2>1, <2>2, <3>2, <3>3
  <2>6. ASSUME NEW p \in TrialOrgs, reminderRow'[p] # "ACTIVE", NEW t \in Nat, t % Day = Hour,
               t < reminderNow \/ (t = reminderNow /\ ran)
        PROVE  Noticed(p, t)'
    BY <1>1, <2>1, <2>6 DEF RemindersInv, NoticedInTime
  <2> QED BY <1>1, <2>2, <2>3, <2>4, <2>5, <2>6 DEF NoticedInTime
<1> QED BY <1>7, <1>8, <1>9 DEF RemindersInv

\* A mail goes out, or fails.
LEMMA MailsStep ==
  ASSUME RemindersInv, NEW j \in Requests, NEW o \in TrialOrgs, NEW sent \in BOOLEAN,
         Reminders!Mails(j, o, sent)
  PROVE  RemindersInv'
<1> DEFINE m == job[j].milestone
           rest == job[j].left
           old == mailed[o]
           sum == [old EXCEPT ![m] = old[m] + 1]
           x == [Reminders!Free EXCEPT !.pc = "next", !.left = rest]
<1>1. /\ job[j].pc = "mail" /\ o \in job[j].of /\ m \in Marks /\ rest \subseteq TrialOrgs
      /\ UNCHANGED <<reminderNow, reminderRow, end, reserved, ran>>
      /\ mailed' = IF sent THEN [mailed EXCEPT ![o] = sum] ELSE mailed
      /\ job' = [job EXCEPT ![j] = x]
  BY DEF Reminders!Mails, RemindersInv, RemindersShape, JobRows
<1>2. x \in JobRows /\ x.pc = "next" /\ x.left = rest
  <2> HIDE DEF rest
  <2> QED BY <1>1 DEF Reminders!Free, JobRows, Marks
<1>3. /\ old[m] = 0 /\ m \in reserved[o] /\ old \in [Marks -> Nat]
  BY <1>1 DEF RemindersInv, RemindersShape, MailedOnce
<1> HIDE DEF m, old
<1>4. /\ sum \in [Marks -> Nat] /\ sum[m] = 1 /\ \A n \in Marks : n # m => sum[n] = old[n]
  BY <1>1, <1>3
<1> HIDE DEF x, sum
<1>5. /\ job' \in [Requests -> JobRows] /\ job'[j] = x
      /\ \A i \in Requests : i # j => job'[i] = job[i]
  BY <1>1, <1>2 DEF RemindersInv, RemindersShape
<1>6. /\ mailed' \in [TrialOrgs -> [Marks -> Nat]]
      /\ mailed'[o] = old \/ mailed'[o] = sum
      /\ \A p \in TrialOrgs : p # o => mailed'[p] = mailed[p]
  BY <1>1, <1>4 DEF RemindersInv, RemindersShape, old
<1>7. RemindersShape'
  BY <1>1, <1>5, <1>6 DEF RemindersInv, RemindersShape
<1>8. MailedOnce'
  <2>1. ASSUME NEW p \in TrialOrgs, NEW n \in Marks
        PROVE  mailed'[p][n] <= 1 /\ (n \notin reserved'[p] => mailed'[p][n] = 0)
    <3>1. mailed[p][n] <= 1 /\ (n \notin reserved[p] => mailed[p][n] = 0)
      BY DEF RemindersInv, MailedOnce
    <3>2. mailed'[p][n] = mailed[p][n] \/ (p = o /\ n = m /\ mailed'[p][n] = 1)
      BY <1>4, <1>6 DEF old
    <3> QED BY <1>1, <1>3, <3>1, <3>2
  <2>2. ASSUME NEW i \in Requests, job'[i].pc = "mail"
        PROVE  i # j /\ job'[i] = job[i]
    BY <1>2, <1>5, <2>2
  <2>3. ASSUME NEW i \in Requests, job'[i].pc = "mail", NEW p \in job'[i].of
        PROVE  job'[i].milestone \in reserved'[p] /\ mailed'[p][job'[i].milestone] = 0
    <3>1. i # j /\ job'[i] = job[i] /\ p \in TrialOrgs /\ job[i].milestone \in Marks
      BY <2>2, <2>3 DEF RemindersInv, RemindersShape, JobRows
    <3>2. job[i].milestone \in reserved[p] /\ mailed[p][job[i].milestone] = 0
      BY <2>3, <3>1 DEF RemindersInv, MailedOnce
    <3>3. job[i].milestone = m => p # o
      BY <1>1, <2>3, <3>1 DEF RemindersInv, MailedOnce, m
    <3>4. mailed'[p][job[i].milestone] = mailed[p][job[i].milestone]
      BY <1>4, <1>6, <3>1, <3>3 DEF old
    <3> QED BY <1>1, <3>1, <3>2, <3>4
  <2>4. ASSUME NEW i \in Requests, NEW k \in Requests, i # k, job'[i].pc = "mail",
               job'[k].pc = "mail", job'[i].milestone = job'[k].milestone
        PROVE  job'[i].of \cap job'[k].of = {}
    BY <2>2, <2>4 DEF RemindersInv, MailedOnce
  <2> QED BY <2>1, <2>3, <2>4 DEF MailedOnce
<1>9. NoticedInTime'
  <2>1. \A p, t : Noticed(p, t)' <=> Noticed(p, t)
    BY <1>1 DEF Noticed
  <2>2. \A i \in Requests : job'[i].pc # "idle" <=> job[i].pc # "idle"
    BY <1>1, <1>2, <1>5
  <2>3. \A i \in Requests : job'[i].left = job[i].left
    BY <1>2, <1>5
  <2> QED BY <1>1, <2>1, <2>2, <2>3 DEF RemindersInv, NoticedInTime
<1> QED BY <1>7, <1>8, <1>9 DEF RemindersInv

\* Time passes, a trial is closed, an organization pays.
LEMMA TrialStep ==
  ASSUME RemindersInv,
         Reminders!Tick \/ \E o \in TrialOrgs : Reminders!Expires(o) \/ Reminders!Pays(o)
  PROVE  RemindersInv'
<1>1. CASE Reminders!Tick
  <2> DEFINE r == reminderNow % Day
  <2>1. /\ \A j \in Requests : job[j].pc = "idle"
        /\ r = Hour => ran
        /\ reminderNow' = reminderNow + 1
        /\ ran' = (ran /\ r # Day - 1)
        /\ UNCHANGED <<reminderRow, end, reserved, mailed, job>>
    BY <1>1, RemindersConstants DEF Reminders!Tick
  <2>2. /\ reminderNow \in Nat /\ r \in 0 .. Day - 1
        /\ (reminderNow + 1) % Day = IF r = Day - 1 THEN 0 ELSE r + 1
        /\ r < Hour => ~ ran
        /\ Day \in Nat \ {0} /\ Hour \in 0 .. Day - 1
    BY RemindersConstants, Remainder, NextRemainder
       DEF RemindersInv, RemindersShape, NoticedInTime
  <2> DEFINE s == (reminderNow + 1) % Day
  <2>a. /\ s = IF r = Day - 1 THEN 0 ELSE r + 1
        /\ reminderNow' % Day = s
    BY <2>1, <2>2
  <2> HIDE DEF r, s
  <2>3. RemindersShape'
    BY <2>1, <2>2 DEF RemindersInv, RemindersShape
  <2>4. MailedOnce'
    BY <2>1 DEF RemindersInv, MailedOnce
  <2>b. ASSUME ran'
        PROVE  ~ (s < Hour) /\ s # Hour
    <3>1. ran /\ r # Day - 1
      BY <2>1, <2>b, Zenon
    <3>2. ~ (r < Hour)
      BY <2>2, <3>1, Zenon
    <3> QED BY <2>2, <2>a, <3>1, <3>2
  <2>5. s < Hour => ~ ran'
    BY <2>b
  <2>6. s = Hour => ~ ran'
    BY <2>b
  <2>7. \A o, t : Noticed(o, t)' <=> Noticed(o, t)
    BY <2>1 DEF Noticed
  <2>8. ASSUME NEW o \in TrialOrgs, reminderRow[o] # "ACTIVE", NEW t \in Nat, t % Day = Hour,
               t < reminderNow + 1 \/ (t = reminderNow + 1 /\ ran')
        PROVE  Noticed(o, t)
    <3>1. t < reminderNow + 1
      BY <2>6, <2>8 DEF s
    <3>2. t < reminderNow \/ (t = reminderNow /\ ran)
      BY <2>1, <2>2, <2>8, <3>1 DEF r
    <3> QED BY <2>8, <3>2 DEF RemindersInv, NoticedInTime
  <2>9. ASSUME NEW o \in TrialOrgs, reminderRow[o] = "EXPIRED"
        PROVE  end[o] <= reminderNow + 1
    <3>1. end[o] <= reminderNow /\ end[o] \in Nat
      BY <2>9, RemindersConstants DEF RemindersInv, RemindersShape, NoticedInTime
    <3> QED BY <2>2, <3>1
  <2>10. NoticedInTime'
    BY <2>1, <2>a, <2>5, <2>7, <2>8, <2>9 DEF NoticedInTime
  <2> QED BY <2>3, <2>4, <2>10 DEF RemindersInv
<1>2. ASSUME NEW o \in TrialOrgs, Reminders!Expires(o) \/ Reminders!Pays(o)
      PROVE  RemindersInv'
  <2>1. /\ UNCHANGED <<reminderNow, end, reserved, mailed, job, ran>>
        /\ \E s \in {"EXPIRED", "ACTIVE"} :
             /\ reminderRow' = [reminderRow EXCEPT ![o] = s]
             /\ s = "EXPIRED" => end[o] <= reminderNow /\ reminderRow[o] # "ACTIVE"
    BY <1>2 DEF Reminders!Expires, Reminders!Pays
  <2>2. RemindersShape' /\ MailedOnce'
    BY <2>1 DEF RemindersInv, RemindersShape, MailedOnce
  <2>3. \A p, t : Noticed(p, t)' <=> Noticed(p, t)
    BY <2>1 DEF Noticed
  <2>4. \A p \in TrialOrgs : /\ reminderRow'[p] # "ACTIVE" => reminderRow[p] # "ACTIVE"
                             /\ reminderRow'[p] = "EXPIRED" => end[p] <= reminderNow
    BY <2>1 DEF RemindersInv, RemindersShape, NoticedInTime
  <2>5. NoticedInTime'
    BY <2>1, <2>3, <2>4 DEF RemindersInv, NoticedInTime
  <2> QED BY <2>2, <2>5 DEF RemindersInv
<1> QED BY <1>1, <1>2

\* Whatever runs of the job, the clock and the other pages do.
LEMMA RemindersStep == RemindersInv /\ [Reminders!Next]_(Reminders!vars) => RemindersInv'
<1> SUFFICES ASSUME RemindersInv, [Reminders!Next]_(Reminders!vars) PROVE RemindersInv'
  OBVIOUS
<1>1. CASE UNCHANGED Reminders!vars
  BY <1>1 DEF Reminders!vars, RemindersInv, RemindersShape, MailedOnce, NoticedInTime, Noticed
<1>2. CASE Reminders!Next
  BY <1>2, RunStep, ReservesStep, MailsStep, TrialStep, Zenon DEF Reminders!Next
<1> QED BY <1>1, <1>2

\* A notice is mailed once; and the days of the first two come before the end of a trial.
LEMMA RemindersHold == RemindersInv => Reminders!OnceEach /\ Reminders!NoticesBeforeEnd
<1> SUFFICES ASSUME RemindersInv PROVE Reminders!OnceEach /\ Reminders!NoticesBeforeEnd
  OBVIOUS
<1>1. Reminders!OnceEach
  BY RemindersConstants DEF Reminders!OnceEach, RemindersInv, MailedOnce
<1>2. ASSUME NEW o \in TrialOrgs, reminderRow[o] # "ACTIVE", end[o] < reminderNow
      PROVE  {3, 1} \subseteq reserved[o]
  <2> DEFINE e == end[o]
  <2>1. /\ e \in Nat /\ 3 * Day <= e /\ Day \in Nat \ {0} /\ Hour \in 0 .. Day - 1
        /\ reminderNow \in Nat
    BY RemindersConstants DEF RemindersInv, RemindersShape
  <2>2. \A t \in Nat : t % Day = Hour /\ t < e => Noticed(o, t)
    BY <1>2, <2>1 DEF RemindersInv, NoticedInTime
  <2> DEFINE a == e - Day
             b == e - 3 * Day
  <2>3. a \in Nat /\ b \in Nat
    BY <2>1
  <2>4. 1 \in reserved[o]
    <3> HIDE DEF a
    <3>1. PICK t \in Nat : a <= t /\ t < a + Day /\ t % Day = Hour
      BY <2>1, <2>3, WithinADay
    <3>2. t < e /\ e <= t + Day
      BY <2>1, <3>1 DEF a
    <3> QED BY <2>2, <3>1, <3>2 DEF Noticed
  <2>5. 3 \in reserved[o]
    <3> HIDE DEF b
    <3>1. PICK t \in Nat : b <= t /\ t < b + Day /\ t % Day = Hour
      BY <2>1, <2>3, WithinADay
    <3>2. t < e /\ t + 2 * Day < e /\ e <= t + 3 * Day
      BY <2>1, <3>1 DEF b
    <3> QED BY <2>2, <3>1, <3>2 DEF Noticed
  <2> QED BY <2>4, <2>5
<1> QED BY <1>1, <1>2 DEF Reminders!NoticesBeforeEnd

------------------------------------------------------------------------------
(***************************************************************************)
(* The plan that is paid.                                                  *)
(***************************************************************************)
\* Of some positions there is a last one.
LEMMA Largest ==
  ASSUME NEW n \in Nat, NEW S, S \subseteq 1 .. n, S # {}
  PROVE  PlanChange!Max(S) \in S
<1> DEFINE D == {n - k : k \in S}
<1>1. D \subseteq Nat /\ D # {}
  <2>1. \A k \in S : n - k \in Nat /\ n - k \in D
    BY SMT
  <2>2. \A d \in D : d \in Nat
    BY <2>1
  <2> HIDE DEF D
  <2> QED BY <2>1, <2>2
<1> HIDE DEF D
<1>2. PICK d \in D : \A j \in D : d <= j
  BY <1>1, Smallest
<1>3. PICK m \in S : d = n - m
  BY <1>2 DEF D
<1>4. \A j \in S : n - j \in D /\ j \in Nat /\ m \in Nat
  BY DEF D
<1>5. \A j \in S : j <= m
  BY <1>2, <1>3, <1>4
<1>6. \E x \in S : \A y \in S : x >= y
  BY <1>4, <1>5
<1> QED BY <1>6 DEF PlanChange!Max

Ks == 1 .. MaxCheckouts
LocalRows == [status : PlanChange!Statuses, plan : PlanChange!Plans, external : 0 .. MaxCheckouts]
CheckoutStatuses == {"NONE", "QUOTED", "PENDING", "CONFIRMED", "FAILED", "EXPIRED"}
CheckoutRows == [status : CheckoutStatuses, plan : PlanChange!Plans, linked : BOOLEAN]
RemoteRows == [status : PlanChange!RemoteStatuses \cup {"none"}, version : Nat, paid : BOOLEAN]
SeenRows == {<< >>} \cup [status : PlanChange!Statuses, external : 0 .. MaxCheckouts,
                          checkout : CheckoutStatuses, trial : {"running", "over"}]
AskRows == [pc : {"idle", "read", "apply", "cleanup"}, checkout : 0 .. MaxCheckouts,
            kind : {"none", "approved", "rejected", "sync", "cancel"},
            status : PlanChange!RemoteStatuses \cup {"none"}, version : Nat, seen : SeenRows,
            old : 0 .. MaxCheckouts]
\* A checkout that has its link is waiting, or was applied; what was authorized was paid.
CheckoutsShape ==
  /\ local \in LocalRows /\ billingTrial \in {"running", "over"}
  /\ snapshot \in [Ks -> CheckoutRows] /\ remote \in [Ks -> RemoteRows]
  /\ \A k \in Ks :
       /\ snapshot[k].linked => snapshot[k].status \in CheckoutStatuses \ {"NONE", "QUOTED"}
       /\ snapshot[k].linked /\ local.external = 0 => snapshot[k].status = "PENDING"
       /\ remote[k].status = "authorized" => remote[k].paid
       /\ remote[k].paid => remote[k].status # "none"
\* What the row says is true of the subscription in force.
RowIsTrue ==
  /\ local.status = "ACTIVE" => /\ local.external # 0 /\ remote[local.external].paid
                                /\ snapshot[local.external].linked
                                /\ snapshot[local.external].plan = local.plan
  /\ local.status = "CANCELED" => /\ local.external # 0
                                  /\ remote[local.external].status = "cancelled"
\* What a request fetched stays true, and so does what it read of the rows.
Asked(x) ==
  /\ x.pc \in {"read", "apply"} =>
       /\ x.checkout # 0
       /\ x.status = "authorized" => remote[x.checkout].paid
       /\ x.status = "cancelled" => remote[x.checkout].status = "cancelled"
       /\ local.status = "CANCELED" /\ x.checkout = local.external => x.status = "cancelled"
  /\ x.pc = "apply" => /\ snapshot[x.checkout].linked
                       /\ x.seen.external = local.external
                       /\ x.seen.checkout = snapshot[x.checkout].status
PlansInv ==
  /\ CheckoutsShape /\ RowIsTrue
  /\ billingRequest \in [{"q"} -> AskRows] /\ Asked(billingRequest["q"])

\* The checkouts are counted from one.
LEMMA CheckoutCount == MaxCheckouts \in Nat /\ PlanChange!Checkouts = Ks
BY Bounds DEF PlanChange!BillingAssumption, PlanChange!Checkouts, Ks

\* A request that is idle has fetched nothing.
LEMMA IdleAsks == PlanChange!Idle \in AskRows /\ PlanChange!Idle.pc = "idle"
<1>1. << >> \in SeenRows
  BY Zenon DEF SeenRows
<1> QED BY <1>1, CheckoutCount DEF PlanChange!Idle, AskRows

\* An organization starts with its trial, and without checkouts.
LEMMA PlansInit == PlanChange!Init => PlansInv
<1> SUFFICES ASSUME PlanChange!Init PROVE PlansInv
  OBVIOUS
<1> DEFINE s == PlanChange!NoSnapshot
           m == PlanChange!NoRemote
           x == PlanChange!Idle
<1>1. s \in CheckoutRows /\ ~ s.linked /\ m \in RemoteRows /\ m.status = "none" /\ ~ m.paid
  BY DEF PlanChange!NoSnapshot, PlanChange!NoRemote, CheckoutRows, RemoteRows,
     CheckoutStatuses, PlanChange!Plans
<1>2. /\ local \in LocalRows /\ local.status = "TRIALING" /\ billingTrial = "running"
  BY CheckoutCount DEF PlanChange!Init, LocalRows, PlanChange!Statuses, PlanChange!Plans
<1>3. /\ snapshot = [k \in Ks |-> s] /\ remote = [k \in Ks |-> m]
      /\ billingRequest = [r \in {"q"} |-> x]
  BY CheckoutCount DEF PlanChange!Init
<1>4. x \in AskRows /\ x.pc = "idle"
  BY IdleAsks
<1> HIDE DEF s, m, x
<1>5. CheckoutsShape
  BY <1>1, <1>2, <1>3 DEF CheckoutsShape
<1>6. billingRequest \in [{"q"} -> AskRows] /\ Asked(billingRequest["q"])
  BY <1>3, <1>4 DEF Asked
<1> QED BY <1>2, <1>5, <1>6 DEF PlansInv, RowIsTrue

\* What is paid or cancelled at the provider stays so.
RemoteGrows ==
  /\ remote' \in [Ks -> RemoteRows]
  /\ \A k \in Ks : /\ remote[k].paid => remote'[k].paid
                   /\ remote[k].status = "cancelled" => remote'[k].status = "cancelled"
                   /\ remote'[k].status = "authorized" => remote'[k].paid
                   /\ remote'[k].paid => remote'[k].status # "none"
\* A checkout that has its link is not rewritten.
CheckoutsGrow ==
  /\ snapshot' \in [Ks -> CheckoutRows]
  /\ \A k \in Ks : /\ snapshot[k].linked => snapshot'[k] = snapshot[k]
                   /\ snapshot'[k].linked => snapshot[k].linked \/ snapshot'[k].status = "PENDING"

\* Nothing of what the row and the request say is lost to a checkout or a change at the
\* provider, or to the end of a trial.
LEMMA PlansStay ==
  ASSUME PlansInv, RemoteGrows, CheckoutsGrow, billingTrial' \in {"running", "over"},
         local' = local \/ local' = [local EXCEPT !.status = "EXPIRED"]
  PROVE  /\ CheckoutsShape' /\ RowIsTrue'
         /\ \A x \in AskRows : Asked(x) => Asked(x)'
<1>1. /\ local' \in LocalRows /\ local'.external = local.external /\ local'.plan = local.plan
      /\ local'.status = local.status \/ local'.status = "EXPIRED"
      /\ local.external \in 0 .. MaxCheckouts
  BY DEF PlansInv, CheckoutsShape, LocalRows, PlanChange!Statuses
<1>2. local.external # 0 => local.external \in Ks
  BY <1>1, CheckoutCount DEF Ks
<1>3. CheckoutsShape'
  BY <1>1 DEF PlansInv, CheckoutsShape, RemoteGrows, CheckoutsGrow, CheckoutStatuses
<1>4. RowIsTrue'
  BY <1>1, <1>2 DEF PlansInv, RowIsTrue, RemoteGrows, CheckoutsGrow
<1>5. ASSUME NEW x \in AskRows, Asked(x)
      PROVE  Asked(x)'
  <2>1. x.checkout \in 0 .. MaxCheckouts
    BY DEF AskRows
  <2>2. x.checkout # 0 => x.checkout \in Ks
    BY <2>1, CheckoutCount DEF Ks
  <2>3. x.pc \in {"read", "apply"} =>
          /\ x.checkout # 0
          /\ x.status = "authorized" => remote'[x.checkout].paid
          /\ x.status = "cancelled" => remote'[x.checkout].status = "cancelled"
          /\ local'.status = "CANCELED" /\ x.checkout = local'.external => x.status = "cancelled"
    BY <1>1, <1>5, <2>2 DEF Asked, RemoteGrows
  <2>4. x.pc = "apply" => /\ snapshot'[x.checkout].linked
                          /\ x.seen.external = local'.external
                          /\ x.seen.checkout = snapshot'[x.checkout].status
    BY <1>1, <1>5, <2>2 DEF Asked, CheckoutsGrow
  <2> QED BY <2>3, <2>4 DEF Asked
<1> QED BY <1>3, <1>4, <1>5

\* A change of a subscription that is not cancelled, or its cancellation.
LEMMA RemoteChanges ==
  ASSUME CheckoutsShape, NEW k \in Ks, NEW s \in {"authorized", "paused", "cancelled"},
         s = "cancelled" \/ remote[k].status # "cancelled",
         remote' = [remote EXCEPT ![k] = PlanChange!Changed(remote[k], s)]
  PROVE  RemoteGrows /\ remote'[k] = PlanChange!Changed(remote[k], s) /\ remote'[k].status = s
<1> DEFINE r == remote[k]
           new == PlanChange!Changed(r, s)
<1>1. r \in RemoteRows /\ r.version + 1 \in Nat /\ r.paid \in BOOLEAN
  BY DEF CheckoutsShape, RemoteRows
<1>2. new \in RemoteRows /\ new.status = s /\ (new.paid <=> (r.paid \/ s = "authorized"))
  <2> HIDE DEF r
  <2>1. new = [r EXCEPT !.status = s, !.version = r.version + 1,
                        !.paid = (r.paid \/ s = "authorized")]
    BY DEF PlanChange!Changed
  <2> DEFINE p == (r.paid \/ s = "authorized")
             v == r.version + 1
  <2>2. p \in BOOLEAN /\ v \in Nat /\ s \in PlanChange!RemoteStatuses
    BY <1>1 DEF PlanChange!RemoteStatuses
  <2>3. new = [r EXCEPT !.status = s, !.version = v, !.paid = p]
    BY <2>1
  <2>4. r = [status |-> r.status, version |-> r.version, paid |-> r.paid]
    BY <1>1 DEF RemoteRows
  <2> HIDE DEF p, v, new
  <2>5. new = [status |-> s, version |-> v, paid |-> p]
    BY <2>3, <2>4
  <2>6. new \in RemoteRows /\ new.status = s /\ new.paid = p
    BY <2>2, <2>5 DEF RemoteRows
  <2> QED BY <2>6 DEF p
<1>3. remote' = [remote EXCEPT ![k] = new]
  OBVIOUS
<1> HIDE DEF new
<1>4. /\ remote' \in [Ks -> RemoteRows] /\ remote'[k] = new
      /\ \A j \in Ks : j # k => remote'[j] = remote[j]
  BY <1>2, <1>3 DEF CheckoutsShape
<1>5. RemoteGrows
  BY <1>2, <1>4 DEF CheckoutsShape, RemoteGrows
<1> QED BY <1>2, <1>4, <1>5 DEF new

\* Checkouts, changes at the provider and the end of the trial ask nothing of a request.
LEMMA PlansOutside ==
  ASSUME PlansInv,
         \/ \E plan \in PlanChange!Plans : PlanChange!Quotes(plan)
         \/ \E k \in Ks :
              \/ PlanChange!Creates(k) \/ PlanChange!Links(k) \/ PlanChange!FailsCheckout(k)
              \/ \E status \in {"authorized", "paused", "cancelled"} :
                   PlanChange!Becomes(k, status)
         \/ PlanChange!TrialEnds \/ PlanChange!Expires
  PROVE  /\ PlansInv' /\ local'.external = local.external
         /\ local' = local \/ local'.status = "EXPIRED"
<1>a. /\ CheckoutsShape /\ snapshot \in [Ks -> CheckoutRows] /\ remote \in [Ks -> RemoteRows]
      /\ billingRequest \in [{"q"} -> AskRows] /\ Asked(billingRequest["q"])
      /\ billingTrial \in {"running", "over"} /\ local \in LocalRows
  BY DEF PlansInv, CheckoutsShape
<1>b. \A k \in Ks : /\ snapshot[k].linked => snapshot[k].status \in CheckoutStatuses \ {"NONE", "QUOTED"}
                    /\ remote[k].status = "authorized" => remote[k].paid
                    /\ remote[k].paid => remote[k].status # "none"
  BY <1>a DEF CheckoutsShape
<1>c. remote' = remote => RemoteGrows
  BY <1>a, <1>b DEF RemoteGrows
<1>d. snapshot' = snapshot => CheckoutsGrow
  BY <1>a DEF CheckoutsGrow
<1>e. ASSUME NEW k \in Ks, NEW row \in CheckoutRows, ~ snapshot[k].linked,
             row.linked => row.status = "PENDING", snapshot' = [snapshot EXCEPT ![k] = row]
      PROVE  CheckoutsGrow
  <2>1. /\ snapshot' \in [Ks -> CheckoutRows] /\ snapshot'[k] = row
        /\ \A j \in Ks : j # k => snapshot'[j] = snapshot[j]
    BY <1>a, <1>e
  <2> QED BY <1>e, <2>1 DEF CheckoutsGrow
<1>1. /\ RemoteGrows /\ CheckoutsGrow /\ UNCHANGED billingRequest
      /\ billingTrial' \in {"running", "over"}
      /\ local' = local \/ local' = [local EXCEPT !.status = "EXPIRED"]
  <2>1. ASSUME NEW plan \in PlanChange!Plans, PlanChange!Quotes(plan)
        PROVE  CheckoutsGrow
    <3> DEFINE S == {k \in Ks : snapshot[k].status = "NONE"}
               m == PlanChange!Min(S)
               row == [status |-> "QUOTED", plan |-> plan, linked |-> FALSE]
    <3>1. S # {} /\ snapshot' = [snapshot EXCEPT ![m] = row]
      BY <2>1, CheckoutCount DEF PlanChange!Quotes
    <3>2. S \subseteq Ks /\ Ks \subseteq Nat
      BY CheckoutCount DEF Ks
    <3>3. m \in S
      <4> HIDE DEF S
      <4>1. PICK x \in S : \A y \in S : x <= y
        BY <3>1, <3>2, Smallest
      <4> QED BY <4>1 DEF PlanChange!Min
    <3>4. m \in Ks /\ snapshot[m].status = "NONE"
      BY <3>3
    <3>5. row \in CheckoutRows /\ ~ row.linked
      BY DEF CheckoutRows, CheckoutStatuses
    <3> HIDE DEF row, m
    <3> QED BY <1>b, <1>e, <3>1, <3>4, <3>5
  <2>2. ASSUME NEW k \in Ks, PlanChange!Creates(k)
        PROVE  RemoteGrows
    <3> DEFINE row == [status |-> "pending", version |-> 1, paid |-> FALSE]
    <3>1. remote[k].status = "none" /\ remote' = [remote EXCEPT ![k] = row]
      BY <2>2 DEF PlanChange!Creates
    <3>2. row \in RemoteRows /\ ~ row.paid /\ row.status = "pending"
      BY DEF RemoteRows, PlanChange!RemoteStatuses
    <3> HIDE DEF row
    <3>3. /\ remote' \in [Ks -> RemoteRows] /\ remote'[k] = row
          /\ \A j \in Ks : j # k => remote'[j] = remote[j]
      BY <1>a, <3>1, <3>2
    <3> QED BY <1>b, <3>1, <3>2, <3>3 DEF RemoteGrows
  <2>3. ASSUME NEW k \in Ks, PlanChange!Links(k)
        PROVE  CheckoutsGrow
    <3> DEFINE old == snapshot[k]
               row == [old EXCEPT !.status = "PENDING", !.linked = TRUE]
    <3>1. old.status = "QUOTED" /\ snapshot' = [snapshot EXCEPT ![k] = row]
      BY <2>3, <1>a DEF PlanChange!Links
    <3>2. old \in CheckoutRows
      BY <1>a
    <3>4. row \in CheckoutRows /\ row.status = "PENDING"
      <4> HIDE DEF old
      <4> QED BY <3>2 DEF CheckoutRows, CheckoutStatuses
    <3> HIDE DEF row
    <3> QED BY <1>b, <1>e, <3>1, <3>4
  <2>4. ASSUME NEW k \in Ks, PlanChange!FailsCheckout(k)
        PROVE  CheckoutsGrow
    <3> DEFINE old == snapshot[k]
               row == [old EXCEPT !.status = "FAILED"]
    <3>1. old.status = "QUOTED" /\ snapshot' = [snapshot EXCEPT ![k] = row]
      BY <2>4, <1>a DEF PlanChange!FailsCheckout
    <3>2. old \in CheckoutRows /\ ~ old.linked
      BY <1>a, <1>b, <3>1
    <3>4. row \in CheckoutRows /\ ~ row.linked
      <4> HIDE DEF old
      <4> QED BY <3>2 DEF CheckoutRows, CheckoutStatuses
    <3> HIDE DEF row
    <3> QED BY <1>e, <3>1, <3>2, <3>4
  <2>5. ASSUME NEW k \in Ks, NEW s \in {"authorized", "paused", "cancelled"},
               PlanChange!Becomes(k, s)
        PROVE  RemoteGrows
    <3>1. /\ remote[k].status # "cancelled"
          /\ remote' = [remote EXCEPT ![k] = PlanChange!Changed(remote[k], s)]
      BY <2>5 DEF PlanChange!Becomes
    <3> QED BY <1>a, <3>1, RemoteChanges
  <2> QED BY <1>a, <1>c, <1>d, <2>1, <2>2, <2>3, <2>4, <2>5
     DEF PlanChange!Quotes, PlanChange!Creates, PlanChange!Links, PlanChange!FailsCheckout,
         PlanChange!Becomes, PlanChange!TrialEnds, PlanChange!Expires
<1>2. CheckoutsShape' /\ RowIsTrue' /\ \A x \in AskRows : Asked(x) => Asked(x)'
  BY <1>1, PlansStay
<1>3. Asked(billingRequest["q"])'
  BY <1>a, <1>1, <1>2 DEF Asked
<1>4. local'.external = local.external /\ (local' = local \/ local'.status = "EXPIRED")
  BY <1>a, <1>1 DEF LocalRows
<1> QED BY <1>a, <1>1, <1>2, <1>3, <1>4 DEF PlansInv

\* A request fetches the state of a subscription, or cancels it.
LEMMA PlansFetched ==
  ASSUME PlansInv,
         \/ PlanChange!Synchronizes("q") \/ PlanChange!Cancels("q")
         \/ \E k \in Ks, kind \in {"approved", "rejected"} : PlanChange!Notifies("q", k, kind)
  PROVE  PlansInv' /\ local' = local
<1>a. /\ CheckoutsShape /\ remote \in [Ks -> RemoteRows] /\ snapshot \in [Ks -> CheckoutRows]
      /\ billingRequest \in [{"q"} -> AskRows] /\ local \in LocalRows
  BY DEF PlansInv, CheckoutsShape
<1>1. /\ UNCHANGED <<local, billingTrial, snapshot>>
      /\ RemoteGrows
      /\ \E k \in Ks, kind \in {"approved", "rejected", "sync", "cancel"} :
           billingRequest' = [billingRequest EXCEPT !["q"] =
                                PlanChange!Fetched(kind, k, remote'[k])]
  <2>a. remote' = remote => RemoteGrows
    BY <1>a DEF CheckoutsShape, RemoteGrows
  <2>1. CASE PlanChange!Synchronizes("q")
    <3> DEFINE S == PlanChange!PendingLinked
               k == IF S # {} THEN PlanChange!Max(S) ELSE local.external
    <3>1. /\ k # 0 /\ UNCHANGED <<local, billingTrial, snapshot, remote>>
          /\ billingRequest' = [billingRequest EXCEPT !["q"] =
                                  PlanChange!Fetched("sync", k, remote[k])]
      BY <2>1 DEF PlanChange!Synchronizes
    <3>2. k \in Ks
      <4>1. S \subseteq 1 .. MaxCheckouts
        BY CheckoutCount DEF PlanChange!PendingLinked, Ks
      <4>2. local.external \in 0 .. MaxCheckouts
        BY <1>a DEF LocalRows
      <4> HIDE DEF S
      <4>3. CASE S # {}
        <5>1. PlanChange!Max(S) \in S
          BY <4>1, <4>3, CheckoutCount, Largest
        <5> QED BY <4>1, <4>3, <5>1 DEF Ks
      <4>4. CASE S = {}
        BY <3>1, <4>2, <4>4, CheckoutCount DEF Ks
      <4> QED BY <4>3, <4>4
    <3> HIDE DEF k
    <3> QED BY <2>a, <3>1, <3>2
  <2>2. CASE PlanChange!Cancels("q")
    <3> DEFINE k == local.external
               new == PlanChange!Changed(remote[k], "cancelled")
    <3>1. /\ k # 0 /\ UNCHANGED <<local, billingTrial, snapshot>>
          /\ remote' = [remote EXCEPT ![k] = new]
          /\ billingRequest' = [billingRequest EXCEPT !["q"] =
                                  PlanChange!Fetched("cancel", k, new)]
      BY <2>2 DEF PlanChange!Cancels
    <3>2. k \in Ks
      BY <1>a, <3>1, CheckoutCount DEF LocalRows, Ks
    <3> HIDE DEF k
    <3>3. RemoteGrows /\ remote'[k] = new
      BY <1>a, <3>1, <3>2, RemoteChanges
    <3> HIDE DEF new
    <3> QED BY <3>1, <3>2, <3>3
  <2>3. ASSUME NEW k \in Ks, NEW kind \in {"approved", "rejected"},
               PlanChange!Notifies("q", k, kind)
        PROVE  /\ UNCHANGED <<local, billingTrial, snapshot, remote>>
               /\ billingRequest' = [billingRequest EXCEPT !["q"] =
                                       PlanChange!Fetched(kind, k, remote[k])]
    BY <2>3 DEF PlanChange!Notifies
  <2> QED BY <2>a, <2>1, <2>2, <2>3
<1>2. PICK k \in Ks, kind \in {"approved", "rejected", "sync", "cancel"}, r \in RemoteRows :
        /\ r = remote'[k]
        /\ billingRequest' = [billingRequest EXCEPT !["q"] = PlanChange!Fetched(kind, k, r)]
  BY <1>1 DEF RemoteGrows
<1> DEFINE x == PlanChange!Fetched(kind, k, r)
<1>3. r \in RemoteRows
  OBVIOUS
<1>4. x \in AskRows /\ x.pc = "read" /\ x.checkout = k /\ x.status = r.status
  <2> DEFINE s == r.status
             v == r.version
             e == PlanChange!Idle
  <2>1. s \in PlanChange!RemoteStatuses \cup {"none"} /\ v \in Nat /\ k \in 0 .. MaxCheckouts
    BY <1>3, CheckoutCount DEF RemoteRows, Ks
  <2>2. x = [e EXCEPT !.pc = "read", !.checkout = k, !.kind = kind, !.status = s, !.version = v]
    BY DEF PlanChange!Fetched
  <2>3. e \in AskRows
    BY IdleAsks
  <2> HIDE DEF e, s, v, x
  <2>4. /\ x = [pc |-> "read", checkout |-> k, kind |-> kind, status |-> s, version |-> v,
                seen |-> e.seen, old |-> e.old]
        /\ e.seen \in SeenRows /\ e.old \in 0 .. MaxCheckouts
    BY <2>2, <2>3 DEF AskRows
  <2>5. x \in AskRows /\ x.pc = "read" /\ x.checkout = k /\ x.status = s
    BY <2>1, <2>4 DEF AskRows
  <2> QED BY <2>5 DEF s
<1>5. CheckoutsGrow /\ billingTrial' \in {"running", "over"}
  BY <1>a, <1>1 DEF CheckoutsGrow, CheckoutsShape
<1>6. CheckoutsShape' /\ RowIsTrue'
  BY <1>1, <1>5, PlansStay
<1> HIDE DEF x
<1>7. billingRequest' \in [{"q"} -> AskRows] /\ billingRequest'["q"] = x
  BY <1>a, <1>2, <1>4 DEF x
<1>8. Asked(x)'
  BY <1>2, <1>4, <1>6, CheckoutCount DEF Asked, CheckoutsShape, RowIsTrue, Ks
<1>9. Asked(billingRequest["q"])'
  BY <1>7, <1>8 DEF Asked
<1> QED BY <1>1, <1>6, <1>7, <1>9 DEF PlansInv

\* A request reads the rows, gives up, or cancels the subscription that was replaced.
LEMMA PlansRead ==
  ASSUME PlansInv,
         PlanChange!Reads("q") \/ PlanChange!Fails("q") \/ PlanChange!CancelsOld("q")
  PROVE  PlansInv' /\ local' = local
<1> DEFINE q == billingRequest["q"]
<1>a. /\ CheckoutsShape /\ remote \in [Ks -> RemoteRows] /\ snapshot \in [Ks -> CheckoutRows]
      /\ billingRequest \in [{"q"} -> AskRows] /\ local \in LocalRows /\ Asked(q)
      /\ q \in AskRows /\ RowIsTrue /\ billingTrial \in {"running", "over"}
  BY DEF PlansInv, CheckoutsShape
<1>b. remote' = remote => RemoteGrows
  BY <1>a DEF CheckoutsShape, RemoteGrows
<1>1. CASE PlanChange!Reads("q")
  <2> DEFINE k == q.checkout
             seen == [status |-> local.status, external |-> local.external,
                      checkout |-> snapshot[k].status, trial |-> billingTrial]
             x == IF ~ snapshot[k].linked THEN PlanChange!Idle
                  ELSE [q EXCEPT !.pc = "apply", !.seen = seen]
  <2>1. /\ q.pc = "read" /\ UNCHANGED <<local, billingTrial, snapshot, remote>>
        /\ billingRequest' = [billingRequest EXCEPT !["q"] = x]
    BY <1>1 DEF PlanChange!Reads
  <2>2. k \in Ks
    BY <1>a, <2>1, CheckoutCount DEF Asked, AskRows, Ks
  <2>3. /\ local.status \in PlanChange!Statuses /\ local.external \in 0 .. MaxCheckouts
        /\ snapshot[k].status \in CheckoutStatuses
    BY <1>a, <2>2 DEF LocalRows, CheckoutRows
  <2>4. /\ seen \in SeenRows /\ seen.external = local.external
        /\ seen.checkout = snapshot[k].status
    BY <1>a, <2>3 DEF SeenRows
  <2> HIDE DEF seen, q
  <2>5. x \in AskRows /\ Asked(x)
    <3>1. CASE ~ snapshot[k].linked
      BY <3>1, IdleAsks DEF Asked
    <3>2. CASE snapshot[k].linked
      <4> DEFINE y == [q EXCEPT !.pc = "apply", !.seen = seen]
      <4>1. /\ y \in AskRows /\ y.pc = "apply" /\ y.seen = seen /\ y.checkout = k
            /\ y.status = q.status
        BY <1>a, <2>4 DEF AskRows
      <4>2. x = y
        BY <3>2
      <4> HIDE DEF x, y
      <4> QED BY <1>a, <2>1, <2>4, <3>2, <4>1, <4>2 DEF Asked
    <3> QED BY <3>1, <3>2
  <2> HIDE DEF x
  <2>6. billingRequest' \in [{"q"} -> AskRows] /\ billingRequest'["q"] = x
    BY <1>a, <2>1, <2>5
  <2>7. /\ CheckoutsShape' /\ RowIsTrue' /\ Asked(billingRequest["q"])'
    BY <1>a, <2>1, <2>5, <2>6 DEF CheckoutsShape, RowIsTrue, Asked
  <2> QED BY <2>1, <2>6, <2>7 DEF PlansInv
<1>2. CASE PlanChange!Fails("q") \/ PlanChange!CancelsOld("q")
  <2> DEFINE k == q.old
  <2>1. /\ UNCHANGED <<local, billingTrial, snapshot>>
        /\ billingRequest' = [billingRequest EXCEPT !["q"] = PlanChange!Idle]
        /\ \/ remote' = remote
           \/ remote' = [remote EXCEPT ![k] = PlanChange!Changed(remote[k], "cancelled")]
    BY <1>2, <1>a DEF PlanChange!Fails, PlanChange!CancelsOld
  <2> HIDE DEF k
  <2>2. RemoteGrows
    <3>1. CASE k \in Ks
      BY <1>a, <1>b, <2>1, <3>1, RemoteChanges
    <3>2. CASE k \notin Ks
      <4>1. remote' = remote
        BY <1>a, <2>1, <3>2
      <4> QED BY <1>b, <4>1
    <3> QED BY <3>1, <3>2
  <2>3. CheckoutsGrow
    BY <1>a, <2>1 DEF CheckoutsGrow
  <2>4. CheckoutsShape' /\ RowIsTrue'
    BY <1>a, <2>1, <2>2, <2>3, PlansStay
  <2>5. billingRequest' \in [{"q"} -> AskRows] /\ billingRequest'["q"].pc = "idle"
    BY <1>a, <2>1, IdleAsks
  <2>6. Asked(billingRequest["q"])'
    BY <2>5 DEF Asked
  <2> QED BY <2>1, <2>4, <2>5, <2>6 DEF PlansInv
<1> QED BY <1>1, <1>2

\* What was fetched is written: access is paid, a subscription in force is replaced by a
\* checkout that waits, and one that was cancelled is not brought back.
LEMMA PlansApplied ==
  ASSUME PlansInv, PlanChange!Applies("q")
  PROVE  /\ PlansInv'
         /\ PlanChange!ChangedByCheckoutStep /\ PlanChange!CanceledForGoodStep
<1> DEFINE q == billingRequest["q"]
           k == q.checkout
           next == PlanChange!NextStatus(q)
           stale == PlanChange!Stale(q)
           written == ~ (PlanChange!Key(q) \in events \/ stale)
           replaces == /\ next = "ACTIVE" /\ q.seen.external \notin {0, k}
                       /\ q.kind \notin {"sync", "cancel"}
           x == IF written /\ replaces
                THEN [PlanChange!Idle EXCEPT !.pc = "cleanup", !.old = q.seen.external]
                ELSE PlanChange!Idle
<1>a. /\ CheckoutsShape /\ remote \in [Ks -> RemoteRows] /\ snapshot \in [Ks -> CheckoutRows]
      /\ billingRequest \in [{"q"} -> AskRows] /\ local \in LocalRows /\ Asked(q)
      /\ q \in AskRows /\ RowIsTrue /\ billingTrial \in {"running", "over"}
  BY DEF PlansInv, CheckoutsShape
<1>1. /\ q.pc = "apply" /\ UNCHANGED <<billingTrial, remote>>
      /\ billingRequest' = [billingRequest EXCEPT !["q"] = x]
      /\ ~ written => UNCHANGED <<local, snapshot>>
      /\ written =>
           /\ local' = [status |-> next, external |-> k,
                        plan |-> IF next = "ACTIVE" THEN snapshot[k].plan ELSE local.plan]
           /\ snapshot' = [snapshot EXCEPT ![k].status = PlanChange!CheckoutStatus(next)]
  BY DEF PlanChange!Applies
<1>2. /\ k \in Ks /\ k # 0 /\ snapshot[k].linked /\ snapshot[k].plan \in PlanChange!Plans
      /\ q.seen.external = local.external /\ q.seen.checkout = snapshot[k].status
      /\ q.status = "authorized" => remote[k].paid
      /\ q.status = "cancelled" => remote[k].status = "cancelled"
      /\ local.status = "CANCELED" /\ k = local.external => q.status = "cancelled"
  BY <1>a, <1>1, CheckoutCount DEF Asked, AskRows, Ks, CheckoutRows
<1>3. /\ next \in PlanChange!Statuses \ {"EXPIRED"}
      /\ next = "ACTIVE" => q.status = "authorized"
      /\ next = "CANCELED" => q.status = "cancelled"
      /\ q.status = "cancelled" => next # "ACTIVE"
  <2>1. q.kind # "pending"
    BY <1>a DEF AskRows
  <2> HIDE DEF q
  <2> QED BY <2>1 DEF PlanChange!NextStatus, PlanChange!Rejected, PlanChange!Statuses
<1>4. x \in AskRows /\ x.pc \in {"idle", "cleanup"}
  <2> DEFINE e == PlanChange!Idle
             o == q.seen.external
             y == [e EXCEPT !.pc = "cleanup", !.old = o]
  <2>1. o \in 0 .. MaxCheckouts
    BY <1>a, <1>2 DEF LocalRows
  <2>2. e \in AskRows /\ e.pc = "idle"
    BY IdleAsks
  <2> HIDE DEF e, o
  <2>3. y \in AskRows /\ y.pc = "cleanup"
    BY <2>1, <2>2 DEF AskRows
  <2>4. x = y \/ x = e
    BY DEF e, o
  <2> HIDE DEF x, y
  <2> QED BY <2>2, <2>3, <2>4
<1> HIDE DEF x
<1>5. billingRequest' \in [{"q"} -> AskRows] /\ Asked(billingRequest["q"])'
  BY <1>a, <1>1, <1>4 DEF Asked
<1>6. CASE ~ written
  <2>1. UNCHANGED <<local, snapshot, remote, billingTrial>>
    BY <1>1, <1>6
  <2>2. CheckoutsShape' /\ RowIsTrue'
    BY <1>a, <2>1 DEF CheckoutsShape, RowIsTrue
  <2> QED BY <1>5, <2>1, <2>2
      DEF PlansInv, PlanChange!ChangedByCheckoutStep, PlanChange!CanceledForGoodStep
<1>7. CASE written
  <2> DEFINE s == PlanChange!CheckoutStatus(next)
             old == snapshot[k]
             row == [old EXCEPT !.status = s]
             plan == IF next = "ACTIVE" THEN old.plan ELSE local.plan
  <2>1. /\ local' = [status |-> next, external |-> k, plan |-> plan]
        /\ snapshot' = [snapshot EXCEPT ![k] = row]
    BY <1>1, <1>7
  <2>2. s \in CheckoutStatuses \ {"NONE", "QUOTED"}
    BY DEF PlanChange!CheckoutStatus, CheckoutStatuses
  <2>3. old \in CheckoutRows /\ plan \in PlanChange!Plans
    BY <1>a, <1>2 DEF LocalRows, CheckoutRows
  <2>4. row \in CheckoutRows /\ row.status = s /\ row.plan = old.plan /\ row.linked = old.linked
    <3> HIDE DEF old, s
    <3> QED BY <2>2, <2>3 DEF CheckoutRows
  <2>5. old.linked /\ q.seen.external = local.external /\ q.seen.checkout = old.status
    BY <1>2
  <2>6. ~ stale
    BY <1>7
  <2>7. local.external = k \/ old.status = "PENDING"
    <3>1. local.external \in {0, k} \/ old.status = "PENDING"
      BY <2>5, <2>6 DEF PlanChange!Stale
    <3>2. local.external = 0 => old.status = "PENDING"
      BY <1>a, <1>2 DEF CheckoutsShape
    <3> QED BY <3>1, <3>2
  <2>8. next = "ACTIVE" => plan = old.plan
    OBVIOUS
  <2> HIDE DEF row, old, s, plan, next, stale, written
  <2>9. /\ snapshot' \in [Ks -> CheckoutRows] /\ snapshot'[k] = row
        /\ \A j \in Ks : j # k => snapshot'[j] = snapshot[j]
    BY <1>a, <1>2, <2>1, <2>4
  <2>10. /\ local' \in LocalRows /\ local'.status = next /\ local'.external = k
         /\ local'.plan = plan
    BY <1>2, <1>3, <2>1, <2>3, CheckoutCount DEF LocalRows, Ks
  <2>11. CheckoutsShape'
    BY <1>a, <1>1, <1>2, <2>2, <2>4, <2>9, <2>10 DEF CheckoutsShape
  <2>12. RowIsTrue'
    BY <1>1, <1>2, <1>3, <2>4, <2>5, <2>8, <2>9, <2>10 DEF RowIsTrue
  <2>13. PlanChange!ChangedByCheckoutStep
    BY <2>7, <2>10 DEF PlanChange!ChangedByCheckoutStep, old
  <2>14. PlanChange!CanceledForGoodStep
    BY <1>2, <1>3, <2>10 DEF PlanChange!CanceledForGoodStep
  <2> QED BY <1>5, <2>11, <2>12, <2>13, <2>14 DEF PlansInv
<1> QED BY <1>6, <1>7

\* Whatever one request does of checkouts, notifications and cancellations.
LEMMA PlansStep ==
  PlansInv /\ [PlanChange!Next]_(PlanChange!vars) =>
    PlansInv' /\ PlanChange!ChangedByCheckoutStep /\ PlanChange!CanceledForGoodStep
<1> SUFFICES ASSUME PlansInv, [PlanChange!Next]_(PlanChange!vars)
             PROVE  /\ PlansInv' /\ PlanChange!ChangedByCheckoutStep
                    /\ PlanChange!CanceledForGoodStep
  OBVIOUS
<1>a. /\ local'.external = local.external /\ local'.status \in {local.status, "EXPIRED"} =>
           PlanChange!ChangedByCheckoutStep /\ PlanChange!CanceledForGoodStep
  BY DEF PlanChange!ChangedByCheckoutStep, PlanChange!CanceledForGoodStep
<1>1. CASE UNCHANGED PlanChange!vars
  <2>1. PlansInv' /\ local' = local
    BY <1>1 DEF PlanChange!vars, PlansInv, CheckoutsShape, RowIsTrue, Asked
  <2> QED BY <1>a, <2>1
<1>2. CASE PlanChange!Next
  <2>1. CASE \/ \E plan \in PlanChange!Plans : PlanChange!Quotes(plan)
             \/ \E k \in Ks :
                  \/ PlanChange!Creates(k) \/ PlanChange!Links(k) \/ PlanChange!FailsCheckout(k)
                  \/ \E status \in {"authorized", "paused", "cancelled"} :
                       PlanChange!Becomes(k, status)
             \/ PlanChange!TrialEnds \/ PlanChange!Expires
    BY <1>a, <2>1, PlansOutside
  <2>2. CASE \/ PlanChange!Synchronizes("q") \/ PlanChange!Cancels("q")
             \/ \E k \in Ks, kind \in {"approved", "rejected"} :
                  PlanChange!Notifies("q", k, kind)
    BY <1>a, <2>2, PlansFetched
  <2>3. CASE PlanChange!Reads("q") \/ PlanChange!Fails("q") \/ PlanChange!CancelsOld("q")
    BY <1>a, <2>3, PlansRead
  <2>4. CASE PlanChange!Applies("q")
    BY <2>4, PlansApplied
  <2> QED BY <1>2, <2>1, <2>2, <2>3, <2>4, CheckoutCount, Zenon DEF PlanChange!Next
<1> QED BY <1>1, <1>2

\* An active row is one that is true of a subscription that was paid.
LEMMA PlansHold == PlansInv => PlanChange!ActiveWasPaid
BY DEF PlansInv, RowIsTrue, PlanChange!ActiveWasPaid

\* Only a trial that is over is closed; nothing a request writes expires a row.
LEMMA ExpiryStep ==
  [Subscription!Next]_(Subscription!vars) => Subscription!PaidNotExpiredStep
<1> SUFFICES ASSUME [Subscription!Next]_(Subscription!vars), local'.status = "EXPIRED"
             PROVE  local.status \in {"TRIALING", "EXPIRED"}
  BY DEF Subscription!PaidNotExpiredStep
<1>1. ASSUME NEW r \in Requests, Subscription!Applies(r)
      PROVE  local' = local \/ local'.status # "EXPIRED"
  <2> DEFINE q == billingRequest[r]
             next == Subscription!NextStatus(q)
  <2>1. next # "EXPIRED"
    <3> HIDE DEF q
    <3> QED BY DEF Subscription!NextStatus, Subscription!Rejected
  <2>2. \/ local' = local
        \/ local' = [status |-> next, external |-> q.checkout,
                     plan |-> IF next = "ACTIVE" THEN snapshot[q.checkout].plan ELSE local.plan]
    BY <1>1 DEF Subscription!Applies
  <2> HIDE DEF next
  <2> QED BY <2>1, <2>2
<1>2. Subscription!Expires => local.status = "TRIALING"
  BY DEF Subscription!Expires, Subscription!Expirable
<1>3. \/ local' = local \/ Subscription!Expires
      \/ \E r \in Requests : Subscription!Applies(r)
  BY DEF Subscription!Next, Subscription!vars, Subscription!Quotes, Subscription!Creates,
     Subscription!Links, Subscription!FailsCheckout, Subscription!Becomes,
     Subscription!TrialEnds, Subscription!Synchronizes, Subscription!Cancels,
     Subscription!Reads, Subscription!CancelsOld, Subscription!Fails, Subscription!Notifies
<1> QED BY <1>1, <1>2, <1>3

------------------------------------------------------------------------------
\* The team and the ways into an account: one owner, a seat for everybody, as many attempts as
\* a window allows, and links that take effect once, the last one sent.
THEOREM AccessKeeps == Spec => []AccessKept
<1> DEFINE T == part = "team" => RosterInv
           S == part = "seats" => SeatedInv
           A == part = "attempts" => AttemptsInv
           V == part = "verification" => VerificationInv
           R == part = "reset" => ResetInv
<1>1. Init => T /\ S /\ A /\ V /\ R
  BY PartsStart, RosterInit, SeatedInit, AttemptsInit, LinksInit
<1>2. T /\ S /\ A /\ V /\ R /\ [Next]_vars => T' /\ S' /\ A' /\ V' /\ R'
  BY PartStays, PartsStep, RosterStep, SeatedStep, AttemptsStep, VerificationStep, ResetStep
<1>3. T /\ S /\ A /\ V /\ R => AccessKept
  BY RosterHolds, SeatedHolds, LinksHold DEF AccessKept, AttemptsInv, Attempts!WithinLimit
<1> QED BY <1>1, <1>2, <1>3, PTL DEF Spec

------------------------------------------------------------------------------
\* The trial and the plan: a notice is mailed once, those of three days and one were reserved
\* when the trial of who has not paid is over, and an active organization has paid for its plan.
THEOREM PlanKeeps == Spec => []PlanKept
<1> DEFINE N == part = "reminders" => RemindersInv
           P == part = "plans" => PlansInv
<1>1. Init => N /\ P
  BY PartsStart, RemindersInit, PlansInit
<1>2. N /\ P /\ [Next]_vars => N' /\ P'
  BY PartStays, PartsStep, RemindersStep, PlansStep
<1>3. N /\ P => PlanKept
  BY RemindersHold, PlansHold DEF PlanKept
<1> QED BY <1>1, <1>2, <1>3, PTL DEF Spec

\* No step of an account, of a team or of a plan does what their steps never do: a shared
\* organization does not end with an account, nobody joins without an invitation, a block is
\* not extended, the last link works, a step that was left out stays so, and a plan that is
\* paid, changed or cancelled is so by what the payer did.
THEOREM AccountStepsKeep == Spec => AccountSteps
<1> DEFINE T == part = "team" => RosterInv
           H == part = "throttle" => ThrottleInv
           R == part = "reset" => ResetInv
           S == part = "skips" => SkipsInv
           P == part = "plans" => PlansInv
           A == /\ part = "team" => /\ Roster!SharedKeptStep
                                    /\ Roster!JoinsByInvitationStep
                /\ part = "throttle" => Throttle!BlockNotExtendedStep
                /\ part = "reset" => Reset!LastWorksStep
                /\ part = "skips" => Skips!SkipsKeptStep
                /\ part = "subscription" => Subscription!PaidNotExpiredStep
                /\ part = "plans" => /\ PlanChange!ChangedByCheckoutStep
                                     /\ PlanChange!CanceledForGoodStep
<1>1. Init => T /\ H /\ R /\ S /\ P
  BY PartsStart, RosterInit, AttemptsInit, LinksInit, SkipsInit, PlansInit
<1>2. T /\ H /\ R /\ S /\ P /\ [Next]_vars => T' /\ H' /\ R' /\ S' /\ P' /\ [A]_vars
  BY PartStays, PartsStep, RosterStep, ThrottleStep, ResetStep, SkipsStep, PlansStep, ExpiryStep
<1> QED BY <1>1, <1>2, PTL DEF Spec, AccountSteps
==================================================================================

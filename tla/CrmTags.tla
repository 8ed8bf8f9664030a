-------------------------------- MODULE CrmTags --------------------------------
(***************************************************************************)
(* The tags of an organization and what they are applied to                *)
(* (actions/crm.ts): the catalogue, and the tags of its conversations and  *)
(* customers.  Every action reads first and writes in another statement;   *)
(* the unique indexes and the foreign keys are those of the schema.        *)
(***************************************************************************)
EXTENDS Naturals, FiniteSets

CONSTANTS
  Requests,      \* requests that may be running at once
  Tags,          \* identifiers of tags
  Names,
  Targets,       \* conversations and customers
  MaxTags,       \* MAX_TAGS_PER_ORGANIZATION
  MaxApplied,    \* MAX_TAGS_PER_ENTITY
  None

\* What the constants must be, for the instances of this module.
CrmTagsAssumption ==
  /\ MaxTags \in Nat /\ MaxApplied \in Nat
  /\ None \notin Tags \cup Names \cup Targets

VARIABLES
  name,          \* the name of each tag of the catalogue, or None
  applied,       \* the pairs of a target and a tag
  request,       \* the local state of a request
  refused        \* the last application that was refused for its limit, or None

vars == <<name, applied, request, refused>>

Free == [pc |-> "idle", tag |-> None, name |-> None, target |-> None]

\* The catalogue, what is applied and the requests keep their types.
TypeOK ==
  /\ name \in [Tags -> Names \cup {None}]
  /\ applied \subseteq Targets \X Tags
  /\ request \in [Requests -> [pc : {"idle", "create", "rename", "apply"},
                               tag : Tags \cup {None}, name : Names \cup {None},
                               target : Targets \cup {None}]]
  /\ refused \in (Targets \X Tags) \cup {None}

Init ==
  /\ name = [t \in Tags |-> None]
  /\ applied = {} /\ refused = None
  /\ request = [r \in Requests |-> Free]

Catalogue == {t \in Tags : name[t] # None}
Taken(n, t) == \E u \in Tags \ {t} : name[u] = n
Of(target) == {t \in Tags : <<target, t>> \in applied}

Idle(r) == request[r].pc = "idle"
Becomes(r, state) == request' = [request EXCEPT ![r] = state]

(***************************************************************************)
(* createTag, updateTag, deleteTag.                                        *)
(***************************************************************************)
\* Mutation: one tag more.
RoomForOne == Cardinality(Catalogue) <= MaxTags
RoomForTag == Cardinality(Catalogue) < MaxTags

AsksCreate(r, n) ==
  /\ Idle(r)
  /\ RoomForTag
  /\ ~ Taken(n, None)
  /\ Becomes(r, [Free EXCEPT !.pc = "create", !.name = n])
  /\ UNCHANGED <<name, applied, refused>>

AsksRename(r, t, n) ==
  /\ Idle(r)
  /\ t \in Catalogue
  /\ ~ Taken(n, t)
  /\ Becomes(r, [Free EXCEPT !.pc = "rename", !.tag = t, !.name = n])
  /\ UNCHANGED <<name, applied, refused>>

\* Mutation: the schema has no unique index of the names.
NoIndex(n, t) == TRUE
\* "@@unique([organizationId, name])".
UniqueIndex(n, t) == ~ Taken(n, t)

Writes(r, t) ==
  /\ \/ request[r].pc = "create" /\ t \notin Catalogue
     \/ request[r].pc = "rename" /\ t = request[r].tag
  /\ name' = IF /\ UniqueIndex(request[r].name, t)
                /\ request[r].pc = "create" \/ t \in Catalogue
               THEN [name EXCEPT ![t] = request[r].name] ELSE name
  /\ Becomes(r, Free)
  /\ UNCHANGED <<applied, refused>>

\* Mutation: what was applied stays.
NoCascade(t) == applied
\* "Las asignaciones caen por cascada."
Cascade(t) == {a \in applied : a[2] # t}

Deletes(t) ==
  /\ t \in Catalogue
  /\ name' = [name EXCEPT ![t] = None]
  /\ applied' = Cascade(t)
  /\ UNCHANGED <<request, refused>>

(***************************************************************************)
(* toggleConversationTag and toggleCustomerTag.                            *)
(***************************************************************************)
\* Mutation: one tag more.
RoomForOneMore(target) == Cardinality(Of(target)) <= MaxApplied
RoomForApplied(target) == Cardinality(Of(target)) < MaxApplied

\* Mutation: refused with no tag.
NoTag(target, t) == <<target, None>>
Pair(target, t) == <<target, t>>

\* The panel offers every tag, and removes the ones that are applied.
Offered == Catalogue

AsksApply(r, target, t) ==
  /\ Idle(r)
  /\ t \in Offered
  /\ IF RoomForApplied(target)
       THEN /\ Becomes(r, [Free EXCEPT !.pc = "apply", !.tag = t, !.target = target])
            /\ UNCHANGED refused
       ELSE refused' = Pair(target, t) /\ UNCHANGED request
  /\ UNCHANGED <<name, applied>>

\* The upsert, which fails if the tag was deleted.
Applies(r) ==
  /\ request[r].pc = "apply"
  /\ applied' = IF request[r].tag \in Catalogue
                  THEN applied \cup {<<request[r].target, request[r].tag>>} ELSE applied
  /\ Becomes(r, Free)
  /\ UNCHANGED <<name, refused>>

Removes(target, t) ==
  /\ <<target, t>> \in applied
  /\ applied' = applied \ {<<target, t>>}
  /\ UNCHANGED <<name, request, refused>>

Next ==
  \/ \E t \in Tags : Deletes(t)
  \/ \E target \in Targets, t \in Tags : Removes(target, t)
  \/ \E r \in Requests : \/ \E n \in Names : AsksCreate(r, n)
                         \/ \E t \in Tags, n \in Names : AsksRename(r, t, n)
                         \/ \E t \in Tags : Writes(r, t)
                         \/ \E target \in Targets, t \in Tags : AsksApply(r, target, t)
                         \/ Applies(r)

Spec == Init /\ [][Next]_vars

(***************************************************************************)
(* Properties.                                                             *)
(***************************************************************************)
\* No two tags of an organization have one name, whatever is created and renamed at once.
UniqueNames == \A t, u \in Catalogue : name[t] = name[u] => t = u

\* What is applied is a tag of the catalogue, whatever is deleted at once.
AppliedExists == \A a \in applied : a[2] \in Catalogue

\* "Llegaste al máximo de ... etiquetas."
CatalogueLimit == Cardinality(Catalogue) <= MaxTags

\* "Una conversación puede tener hasta ... etiquetas."
AppliedLimit == \A target \in Targets : Cardinality(Of(target)) <= MaxApplied

\* "volver a aplicar la misma etiqueta no falla": what is refused was not applied.
Reapplied == [][refused' # refused => refused' \notin applied]_vars
================================================================================

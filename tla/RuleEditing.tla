------------------------------ MODULE RuleEditing ------------------------------
(***************************************************************************)
(* A rule of the automations edited by several people: the transaction     *)
(* that saves it with an optimistic version (automation/rules.ts) and the  *)
(* panel each of them has open (automation-rules-panel.tsx).  The values   *)
(* of a field are small integers; its validation is left out.              *)
(***************************************************************************)
EXTENDS Naturals

CONSTANTS
  Editors,
  Fields,        \* the fields of the form, the switch among them
  Refreshed,     \* the fields a panel takes again from the answer of its save
  Values,
  MaxVersion     \* bound of the version

\* What the constants must be, for the instances of this module.
RuleEditingAssumption ==
  Refreshed \subseteq Fields /\ MaxVersion \in Nat /\ Values \subseteq Nat /\ 0 \in Values

VARIABLES
  rule,          \* the row: its version, 0 when there is none, and its content
  panel          \* what each editor has on the screen

vars == <<rule, panel>>

Closed == [pc |-> "closed", version |-> 0, form |-> [f \in Fields |-> 0], edited |-> {},
           loaded |-> FALSE]

Panel == [pc : {"closed", "open", "saved"}, version : 0 .. MaxVersion,
          form : [Fields -> Values], edited : SUBSET Fields, loaded : BOOLEAN]

\* The row and the panels keep their types.  A panel is loaded until it first saves.
TypeOK ==
  /\ rule \in [version : 0 .. MaxVersion, content : [Fields -> Values]]
  /\ panel \in [Editors -> Panel]

\* A rule that was never saved shows its defaults and no version.
Init ==
  /\ rule = [version |-> 0, content |-> [f \in Fields |-> 0]]
  /\ panel = [e \in Editors |-> Closed]

\* getAutomationRules, when the page is rendered.
Loads(e) ==
  /\ panel[e].pc # "saved"
  /\ panel' = [panel EXCEPT ![e] = [pc |-> "open", version |-> rule.version,
                                    form |-> rule.content, edited |-> {}, loaded |-> TRUE]]
  /\ UNCHANGED rule

Edits(e, f, value) ==
  /\ panel[e].pc = "open"
  /\ panel' = [panel EXCEPT ![e].form[f] = value, ![e].edited = @ \cup {f}]
  /\ UNCHANGED rule

\* Mutation: a version is expected, whichever it is.
AnyVersion(e) == panel[e].version # 0 <=> rule.version # 0
\* updateMany of the expected version; a row that exists is not created again.
Expected(e) == panel[e].version = rule.version

\* Mutation: the panel is closed while its save is answered.
Answering == "answering"
Saved == "saved"

\* updateAutomationRule commits; the controls are disabled until it answers.
Saves(e) ==
  /\ panel[e].pc = "open"
  /\ rule.version < MaxVersion
  /\ Expected(e)
  /\ rule' = [version |-> rule.version + 1, content |-> panel[e].form]
  /\ panel' = [panel EXCEPT ![e].pc = Saved]

\* The answer holds the rule as it is when it is read again, outside the transaction.
ReadsBack(e) ==
  /\ panel[e].pc = "saved"
  /\ panel' = [panel EXCEPT ![e] =
       [pc |-> "open", version |-> rule.version, edited |-> {}, loaded |-> FALSE,
        form |-> [f \in Fields |-> IF f \in Refreshed THEN rule.content[f] ELSE @.form[f]]]]
  /\ UNCHANGED rule

\* The save commits and its answer is lost: the panel keeps the version it had.
Unanswered(e) ==
  /\ panel[e].pc = "saved"
  /\ panel' = [panel EXCEPT ![e].pc = "open"]
  /\ UNCHANGED rule

Next == \E e \in Editors : \/ Loads(e) \/ Saves(e) \/ ReadsBack(e) \/ Unanswered(e)
                           \/ \E f \in Fields, value \in Values : Edits(e, f, value)

Spec == Init /\ [][Next]_vars

(***************************************************************************)
(* Properties.                                                             *)
(***************************************************************************)
Commits(e) == panel[e].pc = "open" /\ panel'[e].pc = "saved"

OnlyEdited(e) == \A f \in Fields : rule'.content[f] # rule.content[f] => f \in panel[e].edited

\* "La regla cambió mientras la estabas editando": a save changes the fields its editor
\* touched since the panel last showed an answer, and no other.
NoLostUpdate == [][\A e \in Editors : Commits(e) => OnlyEdited(e)]_vars

\* A panel that has not saved since its page was loaded shows the row it read: its first
\* save changes the fields its editor touched, and no other (updateRule).
FirstSaveKeepsStep == \A e \in Editors : Commits(e) /\ panel[e].loaded => OnlyEdited(e)
FirstSaveKeeps == [][FirstSaveKeepsStep]_vars
================================================================================

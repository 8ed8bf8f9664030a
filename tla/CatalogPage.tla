------------------------------ MODULE CatalogPage ------------------------------
(***************************************************************************)
(* The pages of products, services and questions: the table each member    *)
(* has open with its dialogs (products-view.tsx, services-view.tsx,        *)
(* faqs-view.tsx and their form dialogs), the server actions               *)
(* (actions/products.ts, services.ts, faqs.ts), which a browser sends one  *)
(* after the other, and the search and filters kept in the address         *)
(* (use-table-filters.ts).  The text of an item is the number of the       *)
(* submission that wrote it.                                               *)
(***************************************************************************)
EXTENDS Naturals, Sequences

CONSTANTS
  Members,
  Patient,       \* whether a member waits for an answer before going on
  MaxItems, MaxSubmits, MaxChoices     \* bounds

\* What the constants must be, for the instances of this module.
CatalogAssumption == {MaxItems, MaxSubmits, MaxChoices} \subseteq Nat /\ Patient \in BOOLEAN

VARIABLES
  item,          \* the rows
  page,          \* what each member has on the screen and has asked for
  submits,       \* forms submitted so far
  filter,        \* the address of one page, and what is on its way there
  wanted, choices     \* what its member chose last, and how many times

vars == <<item, page, submits, filter, wanted, choices>>

Items == 1 .. MaxItems
Texts == 0 .. MaxSubmits
Rows == [status : {"unborn", "live", "deleted"}, active : BOOLEAN, text : Texts]
Unborn == [status |-> "unborn", active |-> FALSE, text |-> 0]
Live(i) == item[i].status = "live"

New == MaxItems + 1
NoForm == [of |-> 0, sent |-> FALSE]
Params == [q : {"", "x"}, status : {"", "activos"}]
NoParams == [q |-> "", status |-> ""]
NoTimer == [q |-> "", base |-> NoParams, set |-> FALSE]
NoMove == [to |-> NoParams, set |-> FALSE]

Request == [op : {"create", "update", "toggle", "delete"}, of : 0 .. New, active : BOOLEAN,
            text : Texts, base : Rows, pc : {"sent", "ran", "rendered", "failed"},
            view : [Items -> Rows]]

\* What a page shows, the dialogs open over it and the calls it has under way;
\* the address, the text that waits to be searched and the navigation.
Page == [shown : [Items -> Rows], form : [of : 0 .. New, sent : BOOLEAN],
         deleting : 0 .. MaxItems, queue : Seq(Request)]
Filter == [url : Params, timer : [q : {"", "x"}, base : Params, set : BOOLEAN],
           move : [to : Params, set : BOOLEAN]]

\* The rows, the pages and the address keep their types.
TypeOK ==
  /\ item \in [Items -> Rows] /\ submits \in Texts /\ choices \in 0 .. MaxChoices
  /\ page \in [Members -> Page] /\ \A m \in Members : Len(page[m].queue) <= 2
  /\ filter \in Filter /\ wanted \in Params

Init ==
  /\ item = [i \in Items |-> IF i = 1 THEN [Unborn EXCEPT !.status = "live"] ELSE Unborn]
  /\ page = [m \in Members |-> [shown |-> item, form |-> NoForm, deleting |-> 0, queue |-> <<>>]]
  /\ submits = 0 /\ choices = 0
  /\ filter = [url |-> NoParams, timer |-> NoTimer, move |-> NoMove] /\ wanted = NoParams

(***************************************************************************)
(* The table and its dialogs.                                              *)
(***************************************************************************)
notFilter == <<filter, wanted, choices>>
Shown(m, i) == page[m].shown[i].status = "live"
Modal(m) == page[m].form.of # 0 \/ page[m].deleting # 0
\* isPending, which toggles and deletions share.
Pending(m) == \E k \in DOMAIN page[m].queue : page[m].queue[k].op \in {"toggle", "delete"}
Waits(m) == Patient => page[m].queue = <<>>

Sent(op, i, active, text, base) ==
  [op |-> op, of |-> i, active |-> active, text |-> text, base |-> base, pc |-> "sent",
   view |-> [j \in Items |-> Unborn]]

\* openCreate and openEdit: the form takes the row of the table.
Opens(m, i) ==
  /\ ~ Modal(m) /\ Waits(m)
  /\ (i # New => Shown(m, i))
  /\ page' = [page EXCEPT ![m].form = [of |-> i, sent |-> FALSE]]
  /\ UNCHANGED <<item, submits, notFilter>>

\* Escape closes a dialog, whether or not its request was answered.
Closes(m) ==
  /\ Modal(m) /\ Waits(m)
  /\ page' = [page EXCEPT ![m].form = NoForm, ![m].deleting = 0]
  /\ UNCHANGED <<item, submits, notFilter>>

\* onSubmit, with every field of the form, the switch among them.
Submits(m, active) == LET i == page[m].form.of IN
  /\ i # 0 /\ ~ page[m].form.sent /\ submits < MaxSubmits /\ Len(page[m].queue) < 2
  /\ submits' = submits + 1
  /\ page' = [page EXCEPT ![m].form.sent = TRUE,
       ![m].queue = Append(@, IF i = New
         THEN Sent("create", 0, active, submits', Unborn)
         ELSE Sent("update", i, active, submits', page[m].shown[i]))]
  /\ UNCHANGED <<item, notFilter>>

\* handleToggle asks for the opposite of what the table shows.
Toggles(m, i) ==
  /\ ~ Modal(m) /\ Waits(m) /\ ~ Pending(m) /\ Shown(m, i) /\ Len(page[m].queue) < 2
  /\ page' = [page EXCEPT ![m].queue =
       Append(@, Sent("toggle", i, ~ page[m].shown[i].active, 0, Unborn))]
  /\ UNCHANGED <<item, submits, notFilter>>

AsksDelete(m, i) ==
  /\ ~ Modal(m) /\ Waits(m) /\ Shown(m, i)
  /\ page' = [page EXCEPT ![m].deleting = i]
  /\ UNCHANGED <<item, submits, notFilter>>

\* handleDelete.
Confirms(m) ==
  /\ page[m].deleting # 0 /\ ~ Pending(m) /\ Len(page[m].queue) < 2
  /\ page' = [page EXCEPT ![m].queue =
       Append(@, Sent("delete", page[m].deleting, FALSE, 0, Unborn))]
  /\ UNCHANGED <<item, submits, notFilter>>

\* The member loads the page again.
Reloads(m) ==
  /\ ~ Modal(m) /\ page[m].queue = <<>>
  /\ page' = [page EXCEPT ![m].shown = item]
  /\ UNCHANGED <<item, submits, notFilter>>

(***************************************************************************)
(* The server actions.                                                     *)
(***************************************************************************)
\* Mutation: a row that is missing is written anew.
FoundOrNew(i) == item[i].status \in {"live", "deleted"}
\* findOwnProduct, findOwnService and findOwnFaq; update fails too when the row is gone.
Found(i) == Live(i)

Head1(m) == page[m].queue[1]
Moves(m, pc) == page' = [page EXCEPT ![m].queue[1].pc = pc]

Creates(m, i) ==
  /\ page[m].queue # <<>> /\ Head1(m).pc = "sent" /\ Head1(m).op = "create"
  /\ item[i] = Unborn /\ \A j \in Items : item[j] = Unborn => i <= j
  /\ item' = [item EXCEPT ![i] = [status |-> "live", active |-> Head1(m).active,
                                  text |-> Head1(m).text]]
  /\ Moves(m, "ran") /\ UNCHANGED <<submits, notFilter>>

Writes(m) == LET call == Head1(m) IN
  /\ page[m].queue # <<>> /\ call.pc = "sent" /\ call.op # "create" /\ Found(call.of)
  /\ item' = [item EXCEPT ![call.of] =
       CASE call.op = "update" -> [status |-> "live", active |-> call.active, text |-> call.text]
         [] call.op = "toggle" -> [@ EXCEPT !.active = call.active]
         [] call.op = "delete" -> [@ EXCEPT !.status = "deleted"]]
  /\ Moves(m, "ran") /\ UNCHANGED <<submits, notFilter>>

\* The row does not exist, or the request is refused or lost.
Refuses(m) ==
  /\ page[m].queue # <<>> /\ Head1(m).pc = "sent"
  /\ Moves(m, "failed") /\ UNCHANGED <<item, submits, notFilter>>

\* Mutation: the page of the dashboard is revalidated, and not the one of the table.
LeftAsItWas(m) == page[m].shown
\* revalidatePath: the answer carries the table as it is now.
Revalidated(m) == item

Renders(m) ==
  /\ page[m].queue # <<>> /\ Head1(m).pc = "ran"
  /\ page' = [page EXCEPT ![m].queue[1].pc = "rendered", ![m].queue[1].view = Revalidated(m)]
  /\ UNCHANGED <<item, submits, notFilter>>

\* The answer closes the dialog of its kind, whichever item it is open on.
Answered(m) ==
  /\ page[m].queue # <<>> /\ Head1(m).pc \in {"rendered", "failed"}
  /\ LET call == Head1(m)  done == call.pc = "rendered" IN
     page' = [page EXCEPT ![m] =
       [shown |-> IF done THEN call.view ELSE @.shown, queue |-> Tail(@.queue),
        form |-> IF call.op \notin {"create", "update"} THEN @.form
                 ELSE IF done THEN NoForm ELSE [@.form EXCEPT !.sent = FALSE],
        deleting |-> IF done /\ call.op = "delete" THEN 0 ELSE @.deleting]]
  /\ UNCHANGED <<item, submits, notFilter>>

(***************************************************************************)
(* The search and the filters.                                             *)
(***************************************************************************)
notTable == <<item, page, submits>>
Chooses == choices < MaxChoices /\ choices' = choices + 1
Still == ~ filter.timer.set /\ ~ filter.move.set

\* Mutation: a parameter replaces the others.
Alone(base, key, value) == [NoParams EXCEPT ![key] = value]
\* setParam, on the parameters of the render it belongs to.
With(base, key, value) == [base EXCEPT ![key] = value]

\* setSearch: the timer is restarted, and keeps the parameters of this render.
Types(text) ==
  /\ Chooses /\ (Patient => ~ filter.move.set)
  /\ wanted' = [wanted EXCEPT !.q = text]
  /\ filter' = [filter EXCEPT !.timer = [q |-> text, base |-> filter.url, set |-> TRUE]]
  /\ UNCHANGED notTable

Fires ==
  /\ filter.timer.set
  /\ filter' = [filter EXCEPT !.timer = NoTimer,
       !.move = [to |-> With(filter.timer.base, "q", filter.timer.q), set |-> TRUE]]
  /\ UNCHANGED <<notTable, wanted, choices>>

Selects(value) ==
  /\ Chooses /\ (Patient => Still)
  /\ wanted' = [wanted EXCEPT !.status = value]
  /\ filter' = [filter EXCEPT !.move = [to |-> With(filter.url, "status", value), set |-> TRUE]]
  /\ UNCHANGED notTable

\* clearAll, offered while the address has a filter; the timer goes on.
ClearsAll ==
  /\ Chooses /\ (Patient => Still) /\ filter.url # NoParams
  /\ wanted' = NoParams
  /\ filter' = [filter EXCEPT !.move = [to |-> NoParams, set |-> TRUE]]
  /\ UNCHANGED notTable

\* The navigation ends; a later one replaced those before it.
Arrives ==
  /\ filter.move.set
  /\ filter' = [filter EXCEPT !.url = filter.move.to, !.move = NoMove]
  /\ UNCHANGED <<notTable, wanted, choices>>

Next ==
  \/ \E m \in Members :
       \/ \E i \in Items \cup {New} : Opens(m, i)
       \/ Closes(m) \/ Confirms(m) \/ Reloads(m)
       \/ \E active \in BOOLEAN : Submits(m, active)
       \/ \E i \in Items : Toggles(m, i) \/ AsksDelete(m, i) \/ Creates(m, i)
       \/ Writes(m) \/ Refuses(m) \/ Renders(m) \/ Answered(m)
  \/ \E text \in {"", "x"} : Types(text)
  \/ \E value \in {"", "activos"} : Selects(value)
  \/ Fires \/ ClearsAll \/ Arrives

Spec == Init /\ [][Next]_vars

(***************************************************************************)
(* Properties.                                                             *)
(***************************************************************************)
\* "Esta acción no se puede deshacer": what was deleted stays deleted, although another member
\* has it in an open form or another browser has a request for it on its way.
DeletedStaysStep == \A i \in Items :
  item[i].status = "deleted" => item'[i].status = "deleted"
DeletedStays == [][DeletedStaysStep]_vars

\* A save overwrites the row its form was opened on, and no later one, when one member edits and
\* waits for the answers: the form rewrites every field, the switch of the table among them.
OverwritesWhatItShowedStep == \A m \in Members :
  (/\ page[m].queue # <<>> /\ Head1(m).op = "update"
   /\ Head1(m).pc = "sent" /\ page'[m].queue[1].pc = "ran") =>
  item[Head1(m).of] = Head1(m).base
OverwritesWhatItShowed == [][OverwritesWhatItShowedStep]_vars

\* "Sincroniza búsqueda y filtros de tablas con los parámetros de la URL": once nothing is on its
\* way, the address has what the member chose last, when each choice waits for the former one.
FollowsChoices == Still => filter.url = wanted
================================================================================

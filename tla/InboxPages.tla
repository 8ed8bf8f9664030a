------------------------------- MODULE InboxPages -------------------------------
(***************************************************************************)
(* The pages of the inbox (getInboxPage of inbox.ts): somebody asks for    *)
(* one page after another, each from the identifier of the last            *)
(* conversation of the page before, while messages move conversations to   *)
(* the top.                                                                *)
(***************************************************************************)
EXTENDS Naturals, FiniteSets

CONSTANTS
  Size,         \* identifiers of conversations are 1 .. Size
  PageSize,
  MaxTime       \* bound of the clock of the messages

\* What the constants must be, for the instances of this module.
InboxPagesAssumption == Size \in Nat /\ PageSize \in Nat \ {0} /\ MaxTime \in Nat

VARIABLES
  last,         \* lastMessageAt, 0 when it is null
  clock,        \* of the messages; two may have the same instant
  reader        \* the cursor of the next page, and how often each conversation was shown

vars == <<last, clock, reader>>

Ids == 1 .. Size
Begin == [pc |-> "first", cursor |-> 0, shown |-> [c \in Ids |-> 0], quiet |-> Ids]

\* Conversations and reader keep their types.
TypeOK ==
  /\ last \in [Ids -> 0 .. MaxTime] /\ clock \in 0 .. MaxTime
  /\ reader \in [pc : {"first", "more", "end"}, cursor : 0 .. Size,
                 shown : [Ids -> Nat], quiet : SUBSET Ids]

Init ==
  /\ clock = MaxTime \div 2
  /\ last \in [Ids -> 0 .. clock]
  /\ reader = Begin

\* orderBy: activity, the null ones last; then creation and identifier.
Above(c, d) == last[c] > last[d] \/ (last[c] = last[d] /\ c > d)

\* The conversations after the cursor, where it is now, and how many come before c.
Rest == {c \in Ids : reader.cursor = 0 \/ Above(reader.cursor, c)}
Rank(c) == Cardinality({d \in Rest : Above(d, c)})

\* The rows that are read: one more than the page has, only to know whether there are more.
Rows == {c \in Rest : Rank(c) < PageSize + 1}
HasMore(rows) == Cardinality(rows) > PageSize
Page(rows) == {c \in rows : HasMore(rows) => Rank(c) < PageSize}

\* The last row of the page.
NextCursor(rows) == CHOOSE c \in Page(rows) : \A d \in Page(rows) \ {c} : Above(d, c)
AtEnd == "end"

\* A message of a conversation.
Arrives(c) ==
  /\ \E t \in clock .. clock + 1 : t <= MaxTime /\ clock' = t /\ last' = [last EXCEPT ![c] = t]
  /\ reader' = IF reader.pc = "more" THEN [reader EXCEPT !.quiet = @ \ {c}] ELSE reader

ReadsPage ==
  /\ reader.pc # "end"
  /\ LET rows == Rows IN
     reader' = [reader EXCEPT
       !.shown = [c \in Ids |-> @[c] + IF c \in Page(rows) THEN 1 ELSE 0],
       !.pc = IF HasMore(rows) THEN "more" ELSE AtEnd,
       !.cursor = IF HasMore(rows) THEN NextCursor(rows) ELSE 0]
  /\ UNCHANGED <<last, clock>>

Next == ReadsPage \/ \E c \in Ids : Arrives(c)

Spec == Init /\ [][Next]_vars

------------------------------------------------------------------------------
\* A conversation without new messages is on some page, whatever moved around it.
QuietShown == reader.pc = "end" => \A c \in reader.quiet : reader.shown[c] >= 1

\* What the comment says of OFFSET, and chooses a cursor for: a new message between two
\* pages makes the pages skip or repeat no other conversation.
QuietOnce == \A c \in reader.quiet : reader.shown[c] <= 1
================================================================================

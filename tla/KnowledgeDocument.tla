--------------------------- MODULE KnowledgeDocument ---------------------------
(***************************************************************************)
(* A document of the knowledge centre: uploaded and replaced by its routes *)
(* (api/knowledge/documents), processed after the answer                   *)
(* (knowledge/processing.ts), and retried, disabled and deleted by the     *)
(* actions (actions/knowledge.ts).  Files are numbered by upload, and the  *)
(* fragments are named by the file they were taken from, 0 for none.       *)
(***************************************************************************)
EXTENDS Naturals

CONSTANTS
  Requests,      \* requests that may be running at once, with what they leave for after
  MaxFiles       \* bound of the files uploaded

\* What the constants must be, for the instances of this module.
KnowledgeDocumentAssumption == MaxFiles \in Nat \ {0}

VARIABLES
  doc,           \* the row and its fragments
  files,         \* the binaries in the storage
  uploads,       \* files uploaded so far
  request        \* the local state of a request: the file it read or stored

vars == <<doc, files, uploads, request>>

Free == [pc |-> "idle", key |-> 0, new |-> 0]
Absent == [status |-> "NONE", enabled |-> FALSE, key |-> 0, chunks |-> 0]

\* The row, the storage and the requests keep their types.
TypeOK ==
  /\ doc \in [status : {"NONE", "UPLOADED", "PROCESSING", "READY", "FAILED", "DISABLED"},
              enabled : BOOLEAN, key : 0 .. MaxFiles, chunks : 0 .. MaxFiles]
  /\ files \subseteq 1 .. MaxFiles
  /\ uploads \in 0 .. MaxFiles
  /\ request \in [Requests -> [pc : {"idle", "create", "replace", "erase", "remove", "erased",
                                     "enable", "disable", "retry", "after", "mark", "load",
                                     "commit", "fail", "clear"},
                               key : 0 .. MaxFiles, new : 0 .. MaxFiles]]

Init ==
  /\ doc = Absent
  /\ files = {} /\ uploads = 0
  /\ request = [r \in Requests |-> Free]

Exists == doc.status # "NONE"
At(r, pc) == request[r].pc = pc
Goes(r, pc) == request' = [request EXCEPT ![r].pc = pc]
Stops(r) == request' = [request EXCEPT ![r] = Free]

(***************************************************************************)
(* POST /api/knowledge/documents and /documents/[id]/file.                 *)
(***************************************************************************)
\* A file is chosen for a new document, or to replace the one the page shows.
Chosen == Exists \/ uploads = 0

\* The binary is stored under a key of its own, before the row is written.
Stores(r) ==
  /\ At(r, "idle")
  /\ uploads < MaxFiles
  /\ Chosen
  /\ uploads' = uploads + 1
  /\ files' = files \cup {uploads'}
  /\ request' = [request EXCEPT ![r] = [pc |-> IF Exists THEN "replace" ELSE "create",
                                        key |-> doc.key, new |-> uploads']]
  /\ UNCHANGED doc

Uploaded(key) == [status |-> "UPLOADED", enabled |-> TRUE, key |-> key, chunks |-> 0]

Creates(r) ==
  /\ At(r, "create")
  /\ doc' = Uploaded(request[r].new)
  /\ Goes(r, "after")
  /\ UNCHANGED <<files, uploads>>

\* Mutation: what was extracted stays until it is processed.
OnlyFile(key) == [doc EXCEPT !.key = key]
\* Mutation: the status stays until it is processed.
SameStatus(key) == [Uploaded(key) EXCEPT !.status = doc.status, !.enabled = doc.enabled]
Replaced(key) == Uploaded(key)

\* The transaction changes nothing if the document was deleted.
Replaces(r) ==
  /\ At(r, "replace")
  /\ doc' = IF Exists THEN Replaced(request[r].new) ELSE doc
  /\ Goes(r, "erase")
  /\ UNCHANGED <<files, uploads>>

\* Mutation: the binary of the row as it is now.
CurrentFile(r) == doc.key
\* The binary the row had when the request read it.
PreviousFile(r) == request[r].key

Erases(r) ==
  /\ At(r, "erase")
  /\ files' = files \ {PreviousFile(r)}
  /\ Goes(r, "after")
  /\ UNCHANGED <<doc, uploads>>

(***************************************************************************)
(* The actions.  Each reads the document before it writes.                 *)
(***************************************************************************)
\* The menu the page shows for the document.
Offered ==
  {what \in {"retry", "enable", "disable"} :
     CASE what = "retry"  -> doc.status \in {"UPLOADED", "READY", "FAILED"}
       [] what = "enable" -> doc.status = "DISABLED"
       [] OTHER           -> doc.status = "READY" /\ doc.enabled}

\* The action refuses only PROCESSING.
AsksRetry(r) ==
  /\ At(r, "idle")
  /\ "retry" \in Offered
  /\ Goes(r, "retry")
  /\ UNCHANGED <<doc, files, uploads>>

Retries(r) ==
  /\ At(r, "retry")
  /\ doc' = IF Exists THEN [doc EXCEPT !.status = "PROCESSING"] ELSE doc
  /\ Goes(r, "after")
  /\ UNCHANGED <<files, uploads>>

AsksToggle(r) ==
  /\ At(r, "idle")
  /\ \E what \in Offered \ {"retry"} : Goes(r, what)
  /\ UNCHANGED <<doc, files, uploads>>

\* Mutation: only the flag is written.
OnlyFlag(on) == [doc EXCEPT !.enabled = on]
Switched(on) == [doc EXCEPT !.enabled = on, !.status = IF on THEN "READY" ELSE "DISABLED"]

Toggles(r) ==
  /\ At(r, "enable") \/ At(r, "disable")
  /\ doc' = IF Exists THEN Switched(At(r, "enable")) ELSE doc
  /\ Stops(r)
  /\ UNCHANGED <<files, uploads>>

AsksDelete(r) ==
  /\ At(r, "idle") /\ Exists
  /\ request' = [request EXCEPT ![r] = [pc |-> "remove", key |-> doc.key, new |-> 0]]
  /\ UNCHANGED <<doc, files, uploads>>

\* The fragments go with the row.
Deletes(r) ==
  /\ At(r, "remove")
  /\ doc' = Absent
  /\ IF Exists THEN Goes(r, "erased") ELSE Stops(r)
  /\ UNCHANGED <<files, uploads>>

DeletesFile(r) ==
  /\ At(r, "erased")
  /\ files' = files \ {request[r].key}
  /\ Stops(r)
  /\ UNCHANGED <<doc, uploads>>

(***************************************************************************)
(* processKnowledgeDocument.                                               *)
(***************************************************************************)
Reads(r) ==
  /\ At(r, "after")
  /\ request' = [request EXCEPT ![r] = IF Exists THEN [pc |-> "mark", key |-> doc.key, new |-> 0]
                                       ELSE Free]
  /\ UNCHANGED <<doc, files, uploads>>

\* Mutation: with a label of the page.
Label == "Procesando"
Processing == "PROCESSING"

Marks(r) ==
  /\ At(r, "mark")
  /\ doc' = IF Exists THEN [doc EXCEPT !.status = Processing] ELSE doc
  /\ Goes(r, "load")
  /\ UNCHANGED <<files, uploads>>

\* The download and the extraction, which fails for the files it does not read.
Extracts(r, readable) ==
  /\ At(r, "load")
  /\ Goes(r, IF readable /\ request[r].key \in files THEN "commit" ELSE "fail")
  /\ UNCHANGED <<doc, files, uploads>>

\* The transaction, which also fails without the row, or against another one.
Commits(r) ==
  /\ At(r, "commit")
  /\ \/ /\ Exists
        /\ doc' = [doc EXCEPT !.status = "READY", !.chunks = request[r].key]
        /\ Stops(r)
     \/ UNCHANGED doc /\ Goes(r, "fail")
  /\ UNCHANGED <<files, uploads>>

MarksFailed(r) ==
  /\ At(r, "fail")
  /\ doc' = IF Exists THEN [doc EXCEPT !.status = "FAILED"] ELSE doc
  /\ Goes(r, "clear")
  /\ UNCHANGED <<files, uploads>>

Clears(r) ==
  /\ At(r, "clear")
  /\ doc' = [doc EXCEPT !.chunks = 0]
  /\ Stops(r)
  /\ UNCHANGED <<files, uploads>>

\* The process ends, what it left for after included.
Dies(r) ==
  /\ request[r].pc # "idle"
  /\ Stops(r)
  /\ UNCHANGED <<doc, files, uploads>>

\* searchKnowledgeChunks finds something in it.
Searchable == doc.status = "READY" /\ doc.enabled /\ doc.chunks # 0

Works(r) ==
  \/ Creates(r) \/ Replaces(r) \/ Erases(r) \/ Retries(r) \/ Toggles(r) \/ Deletes(r)
  \/ DeletesFile(r) \/ Reads(r) \/ Marks(r) \/ Commits(r) \/ MarksFailed(r) \/ Clears(r)
  \/ \E readable \in BOOLEAN : Extracts(r, readable)

Next == \E r \in Requests :
  \/ Stores(r) \/ AsksRetry(r) \/ AsksToggle(r) \/ AsksDelete(r) \/ Works(r) \/ Dies(r)

Spec == Init /\ [][Next]_vars

\* A request that was received goes on, unless its process ends.
Fair == \A r \in Requests : WF_vars(Works(r))
FairSpec == Spec /\ Fair

(***************************************************************************)
(* Properties.                                                             *)
(***************************************************************************)
\* "Un documento NUNCA queda READY sin que sus fragmentos estén guardados".
ReadyHasChunks == doc.status = "READY" => doc.chunks # 0

\* "Reemplaza el archivo de un documento existente": what the agent finds in a document
\* was taken from its file.
CurrentText == Searchable => doc.chunks = doc.key

\* "Activa o desactiva la disponibilidad": a document the page shows as inactive can be
\* enabled, since its flag and its status agree.
FlagAgrees == Exists => (doc.enabled <=> doc.status # "DISABLED")

\* The file of a document is in the storage, whatever is replaced and deleted at once.
RowHasFile == Exists => doc.key \in files

\* "reintento tras un fallo": a document does not stay in PROCESSING.
Finishes == (doc.status = "PROCESSING") ~> (doc.status # "PROCESSING")
================================================================================

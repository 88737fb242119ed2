------------------------------ MODULE Knowledge ------------------------------
(***************************************************************************)
(* The knowledge base: document rows (crud/knowledge_document.py), the     *)
(* files they stand for (services/knowledge_storage.py), the handlers of   *)
(* api/v1/knowledge.py and the AI category suggestions                     *)
(* (services/knowledge_classification.py).                                 *)
(*                                                                         *)
(* A handler reads the row without a lock, writes it (which locks it until *)
(* the end of the transaction), moves the file, and then awaits the        *)
(* commit; when the commit raises an exception it moves the file back, and *)
(* a request that ends in any other way leaves the file where it is.  A    *)
(* directory under KNOWLEDGE_ROOT stands for the category it is named      *)
(* after, and file_path for its directory.                                 *)
(***************************************************************************)
EXTENDS Integers, FiniteSets

CONSTANTS
    Document, Category,
    Uncategorized,  \* UNCATEGORIZED_CODE
    Content(_),     \* content_hash of a document
    Handler,        \* requests in flight at once
    NoOne,
    MaxFailures,    \* bound on the requests that end otherwise than with their commit
    MaxSuggestions  \* bound on the documents suggestions are being made for at once

ASSUME KnowledgeAssumption ==
    /\ Uncategorized \in Category /\ MaxFailures \in Nat /\ MaxSuggestions \in Nat
    /\ NoOne \notin Handler /\ NoOne \notin Document /\ NoOne \notin Category

VARIABLES
    doc,        \* knowledge_documents: [state, category, path, suggested]
    root,       \* directories under KNOWLEDGE_ROOT that have the document's file
    trash,      \* directories under KNOWLEDGE_TRASH_ROOT that have it
    handler,    \* the requests in flight
    advice,     \* documents an AI suggestion is being made for, as read
    failures,
    overlapped, \* history: documents whose text two requests were about at once
    cut         \* history: documents a request on which was cut off after its move,
                \* or whose commit took effect and was answered with an error

knowledgeVars == <<doc, root, trash, handler, advice, failures, overlapped, cut>>

NoDoc == [state |-> "absent", category |-> NoOne, path |-> NoOne, suggested |-> NoOne]
Waiting == [at |-> "idle", op |-> "none", doc |-> NoOne, read |-> NoDoc, to |-> NoOne]
States == {"absent", "live", "deleted", "purged"}
Record == [state : States, category : Category \cup {NoOne}, path : Category \cup {NoOne},
           suggested : Category \cup {NoOne}]

KnowledgeTypeOK ==
    /\ doc \in [Document -> Record]
    /\ root \in [Document -> SUBSET Category] /\ trash \in [Document -> SUBSET Category]
    /\ handler \in [Handler -> [at : {"idle", "read", "moved"},
                                op : {"none", "upload", "delete", "restore", "purge", "categorise"},
                                doc : Document \cup {NoOne}, read : Record,
                                to : Category \cup {NoOne}]]
    /\ advice \in [Document -> Category \cup {NoOne}]
    /\ failures \in 0 .. MaxFailures
    /\ overlapped \subseteq Document /\ cut \subseteq Document

KnowledgeInit ==
    /\ doc = [d \in Document |-> NoDoc]
    /\ root = [d \in Document |-> {}] /\ trash = [d \in Document |-> {}]
    /\ handler = [h \in Handler |-> Waiting]
    /\ advice = [d \in Document |-> NoOne]
    /\ failures = 0
    /\ overlapped = {} /\ cut = {}

HasState(d, s) == doc[d].state = s
\* Two documents that may both be found, with the same text.
Twin(d, e) == e # d /\ HasState(e, "live") /\ Content(e) = Content(d)
Writes(h, d) == handler[h].at = "moved" /\ handler[h].doc = d
Locked(d) == \E h \in Handler : Writes(h, d)
Answers(h) == handler' = [handler EXCEPT ![h] = Waiting]
Fails == failures < MaxFailures /\ failures' = failures + 1

(***************************************************************************)
(* Moving files.  A file that is not where it is looked for is not moved,  *)
(* and that is no error.                                                   *)
(***************************************************************************)
ToTrash(d, p) ==
    IF p \in root[d]
    THEN /\ root' = [root EXCEPT ![d] = @ \ {p}]
         /\ trash' = [trash EXCEPT ![d] = @ \cup {p}]
    ELSE UNCHANGED <<root, trash>>
FromTrash(d, p) ==
    IF p \in trash[d]
    THEN /\ trash' = [trash EXCEPT ![d] = @ \ {p}]
         /\ root' = [root EXCEPT ![d] = @ \cup {p}]
    ELSE UNCHANGED <<root, trash>>
\* move_document_to_category
ToCategory(d, p, c) ==
    /\ root' = IF p \in root[d] THEN [root EXCEPT ![d] = (@ \ {p}) \cup {c}] ELSE root
    /\ UNCHANGED trash

(***************************************************************************)
(* The first reads of a handler, with no lock                              *)
(***************************************************************************)
InFlightOn(g, text) == handler[g].at # "idle" /\ Content(handler[g].doc) = text
\* Bound: no more requests on documents two requests have been about at once.
Starts(h, op, d, c) ==
    /\ handler[h].at = "idle" /\ d \notin overlapped
    /\ handler' = [handler EXCEPT ![h] = [at |-> "read", op |-> op, doc |-> d, read |-> doc[d], to |-> c]]
    /\ overlapped' = IF \E g \in Handler \ {h} : InFlightOn(g, Content(d))
                     THEN overlapped \cup {e \in Document : Content(e) = Content(d)} ELSE overlapped
    /\ UNCHANGED <<doc, root, trash, advice, failures, cut>>

\* A new row has a new id.  The same text in any category is a duplicate (DuplicateDocumentError).
UploadStarts(h, d, c) ==
    /\ HasState(d, "absent") /\ \A g \in Handler : handler[g].doc # d
    /\ root[d] = {}
    /\ ~\E e \in Document : Twin(d, e)
    /\ Starts(h, "upload", d, c)
DeleteStarts(h, d) == HasState(d, "live") /\ Starts(h, "delete", d, NoOne)
RestoreStarts(h, d) ==
    /\ HasState(d, "deleted") /\ ~\E e \in Document : Twin(d, e)
    /\ Starts(h, "restore", d, NoOne)
PurgeStarts(h, d) == HasState(d, "deleted") /\ Starts(h, "purge", d, NoOne)
CategoriseStarts(h, d, c) == HasState(d, "live") /\ Starts(h, "categorise", d, c)

(***************************************************************************)
(* The write, which waits for the row's lock, and the move of the file     *)
(***************************************************************************)
Moves(h, op) ==
    /\ handler[h].at = "read" /\ handler[h].op = op
    /\ ~Locked(handler[h].doc)
    /\ handler' = [handler EXCEPT ![h].at = "moved"]
    /\ UNCHANGED <<doc, advice, failures, overlapped, cut>>

\* ingest_document: row, file, chunks; then the embedding is awaited.
UploadMoves(h) ==
    /\ Moves(h, "upload")
    /\ root' = [root EXCEPT ![handler[h].doc] = @ \cup {handler[h].to}]
    /\ UNCHANGED trash
\* soft_delete reads the row again under its lock, but the path is the one read before.
DeleteMoves(h) ==
    /\ Moves(h, "delete") /\ HasState(handler[h].doc, "live")
    /\ ToTrash(handler[h].doc, handler[h].read.path)
RestoreMoves(h) ==
    /\ Moves(h, "restore") /\ ~HasState(handler[h].doc, "purged")
    /\ FromTrash(handler[h].doc, handler[h].read.path)
PurgeMoves(h) == Moves(h, "purge") /\ UNCHANGED <<root, trash>>
CategoriseMoves(h) ==
    /\ Moves(h, "categorise") /\ ~HasState(handler[h].doc, "purged")
    /\ ToCategory(handler[h].doc, handler[h].read.path, handler[h].to)

\* 404, a write that finds no row, an error (the audit record's of the others
\* comes before the move), a cancellation or a crash: nothing was moved.
EndsEarly(h) ==
    /\ handler[h].at = "read"
    /\ Answers(h)
    /\ UNCHANGED <<doc, root, trash, advice, failures, overlapped, cut>>

(***************************************************************************)
(* The commit, of the columns that changed                                 *)
(***************************************************************************)
Categorised(d, read, c) ==
    [doc[d] EXCEPT !.category = c, !.path = c,
                   !.suggested = IF read.suggested # NoOne THEN NoOne ELSE @]

\* The row of a request whose transaction is committed.
RowAfter(h) ==
    LET d == handler[h].doc
        op == handler[h].op IN
    CASE op = "upload" -> [state |-> "live", category |-> handler[h].to,
                           path |-> handler[h].to, suggested |-> NoOne]
      [] op = "delete" -> [doc[d] EXCEPT !.state = "deleted"]
      [] op = "restore" -> [doc[d] EXCEPT !.state = "live"]
      [] op = "purge" -> [doc[d] EXCEPT !.state = "purged"]
      [] op = "categorise" -> Categorised(d, handler[h].read, handler[h].to)

\* The purge deletes the file when its commit has returned.
Commits(h) ==
    LET d == handler[h].doc IN
    /\ handler[h].at = "moved"
    /\ doc' = [doc EXCEPT ![d] = RowAfter(h)]
    /\ trash' = IF handler[h].op = "purge" THEN [trash EXCEPT ![d] = @ \ {handler[h].read.path}] ELSE trash
    /\ Answers(h)
    /\ UNCHANGED <<root, advice, failures, overlapped, cut>>

\* The embedding fails: ingest_document deletes the file it wrote.
UploadFails(h) ==
    /\ handler[h].at = "moved" /\ handler[h].op = "upload" /\ Fails
    /\ root' = [root EXCEPT ![handler[h].doc] = @ \ {handler[h].to}]
    /\ Answers(h) /\ UNCHANGED <<doc, trash, advice, overlapped, cut>>

\* A wrong handler: a failed commit leaves the file where it has been moved.
LeavesFile(h) == UNCHANGED <<root, trash>>
\* The except branch around the commit.  An upload has none, so that its file
\* stays, and neither has a purge, whose file then lies in the trash.
MovesBack(h) ==
    LET d == handler[h].doc
        p == handler[h].read.path IN
    CASE handler[h].op = "delete" -> FromTrash(d, p)
      [] handler[h].op = "restore" -> ToTrash(d, p)
      [] handler[h].op = "categorise" -> ToCategory(d, handler[h].to, handler[h].read.category)
      [] OTHER -> UNCHANGED <<root, trash>>

CommitFails(h) ==
    /\ handler[h].at = "moved" /\ Fails
    /\ MovesBack(h)
    /\ Answers(h) /\ UNCHANGED <<doc, advice, overlapped, cut>>

\* The transaction is committed, and the exception is of the way back: the
\* handler moves the file back under a row that has been written.  So is a
\* purge that is cut off between its commit and the deletion of the file.
CommitLost(h) ==
    /\ handler[h].at = "moved" /\ Fails
    /\ doc' = [doc EXCEPT ![handler[h].doc] = RowAfter(h)]
    /\ MovesBack(h)
    /\ cut' = cut \cup {handler[h].doc}
    /\ Answers(h) /\ UNCHANGED <<advice, overlapped>>

\* The file has been moved, the row is rolled back, and no except branch runs:
\* the audit record of a categorisation or an upload cannot be written (it
\* comes after the move, outside the try), the request is cancelled
\* (CancelledError is no Exception), or the process dies.
CutOff(h) ==
    /\ handler[h].at = "moved" /\ Fails
    /\ cut' = cut \cup {handler[h].doc}
    /\ Answers(h) /\ UNCHANGED <<doc, root, trash, advice, overlapped>>

(***************************************************************************)
(* Suggestions: the rows are read, the model or the workflow is awaited,   *)
(* and the suggestion is written into the rows as they were read.          *)
(***************************************************************************)
SuggestStarts(d) ==
    /\ HasState(d, "live") /\ advice[d] = NoOne
    /\ Cardinality({e \in Document : advice[e] # NoOne}) < MaxSuggestions
    /\ advice' = [advice EXCEPT ![d] = doc[d].category]
    /\ UNCHANGED <<doc, root, trash, handler, failures, overlapped, cut>>

\* The answer is another category than the one read, and not the inbox.
SuggestSaves(d, c) ==
    /\ advice[d] # NoOne /\ ~Locked(d)
    /\ c \notin {Uncategorized, advice[d]}
    /\ doc' = IF doc[d].state \in {"live", "deleted"} THEN [doc EXCEPT ![d].suggested = c] ELSE doc
    /\ advice' = [advice EXCEPT ![d] = NoOne]
    /\ UNCHANGED <<root, trash, handler, failures, overlapped, cut>>

\* Unreadable text, a failed call, no match, or the category it has.
SuggestNothing(d) ==
    /\ advice[d] # NoOne
    /\ advice' = [advice EXCEPT ![d] = NoOne]
    /\ UNCHANGED <<doc, root, trash, handler, failures, overlapped, cut>>

KnowledgeNext ==
    \/ \E h \in Handler, d \in Document, c \in Category : UploadStarts(h, d, c) \/ CategoriseStarts(h, d, c)
    \/ \E h \in Handler, d \in Document : DeleteStarts(h, d) \/ RestoreStarts(h, d) \/ PurgeStarts(h, d)
    \/ \E h \in Handler : UploadMoves(h) \/ DeleteMoves(h) \/ RestoreMoves(h) \/ PurgeMoves(h)
                          \/ CategoriseMoves(h)
    \/ \E h \in Handler : EndsEarly(h) \/ Commits(h) \/ UploadFails(h)
                          \/ CommitFails(h) \/ CommitLost(h) \/ CutOff(h)
    \/ \E d \in Document : SuggestStarts(d) \/ SuggestNothing(d)
    \/ \E d \in Document, c \in Category : SuggestSaves(d, c)

KnowledgeSpec == KnowledgeInit /\ [][KnowledgeNext]_knowledgeVars

(***************************************************************************)
(* Properties                                                              *)
(***************************************************************************)
Quiet(d) == \A h \in Handler : handler[h].doc # d

\* The file of d is in one directory, of the categories or of the trash.
InOnePlace(d) == \E p \in Category :
    \/ root[d] = {p} /\ trash[d] = {}
    \/ root[d] = {} /\ trash[d] = {p}

FileAgrees(d) ==
    /\ HasState(d, "live") => root[d] = {doc[d].path} /\ trash[d] = {}
    /\ HasState(d, "deleted") => root[d] = {} /\ trash[d] = {doc[d].path}
    /\ HasState(d, "purged") => root[d] = {} /\ trash[d] = {}

\* However requests meet and end, the one file of a document with a row is
\* neither lost nor doubled.  When no request on a document is in flight, and no
\* two have been at once, no document that can be found has the text of another
\* one (ingest_document, active_with_content_hash): no constraint of the table
\* backs the check.  And unless a request was cut off between its move and its
\* commit, or its commit took effect with an error, row and file agree: the
\* tools that search directories and the searches of the table see the same
\* documents in the same categories, also after commits have failed.
FilesFollowRows ==
    \A d \in Document :
        /\ doc[d].state \in {"live", "deleted"} => InOnePlace(d)
        /\ d \notin overlapped /\ Quiet(d) =>
              /\ HasState(d, "live") => doc[d].path = doc[d].category /\ ~\E e \in Document : Twin(d, e)
              /\ d \notin cut => FileAgrees(d)
=============================================================================

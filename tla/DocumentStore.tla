--------------------------- MODULE DocumentStore ---------------------------
(***************************************************************************)
(* The knowledge base of one tenant of ai-platform in PostgreSQL: the rows *)
(* of documents and chunks and the column ingestion_jobs.document_id       *)
(* (backend/app/db/models.py), read and written by transactions at the     *)
(* isolation level READ COMMITTED (backend/app/db/session.py).             *)
(*                                                                         *)
(* A document is named by what creates it.  Transactions that only insert  *)
(* commit in one step.  A request that deletes holds what it deleted so    *)
(* far in `dropped` and `removed`: other transactions still see those rows *)
(* but wait for the locks on them.                                         *)
(***************************************************************************)
CONSTANTS Jobs,      \* ingestion jobs
          Uploads,   \* calls of POST /v1/documents
          Blank,     \* those of them whose text gives no chunk
          Requests   \* requests that may delete rows

Docs == Jobs \cup Uploads

ASSUME StoreAssumption == Blank \subseteq Docs /\ Jobs \cap Uploads = {}

VARIABLES stored,     \* documents that were ever inserted
          documents,  \* committed rows of documents
          chunks,     \* documents that have their rows of chunks
          linked,     \* jobs whose document_id is set
          dropped,    \* per request, the documents whose chunks it deleted
          removed     \* per request, the documents it deleted

rowVars == <<stored, documents, chunks, linked>>
storeVars == <<rowVars, dropped, removed>>

StoreTypeOK ==
    /\ stored \in SUBSET Docs
    /\ documents \in SUBSET Docs
    /\ chunks \in SUBSET Docs
    /\ linked \in SUBSET Jobs
    /\ dropped \in [Requests -> SUBSET Docs]
    /\ removed \in [Requests -> SUBSET Docs]

StoreInit ==
    /\ stored = {}
    /\ documents = {}
    /\ chunks = {}
    /\ linked = {}
    /\ dropped = [r \in Requests |-> {}]
    /\ removed = [r \in Requests |-> {}]

\* A document with all its chunks, under a fresh id.
InsertDocument(d) ==
    /\ d \notin stored
    /\ stored' = stored \cup {d}
    /\ documents' = documents \cup {d}
    /\ chunks' = chunks \cup ({d} \ Blank)
    /\ UNCHANGED <<linked, dropped, removed>>

LockedByOthers(r, rows) == UNION {rows[o] : o \in Requests \ {r}}

\* DELETE FROM chunks, of the given documents.
DropChunks(r, ds) ==
    /\ ds \cap LockedByOthers(r, dropped) = {}
    /\ dropped' = [dropped EXCEPT ![r] = ds \cap chunks]
    /\ UNCHANGED <<rowVars, removed>>

\* A row of chunks or of ingestion_jobs names one of the documents: neither
\* foreign key says ON DELETE, so deleting them fails.  (When another request
\* is deleting those chunks, one of the two is the victim of a deadlock.)
Referenced(r, ds) ==
    ds \cap documents \cap ((chunks \ dropped[r]) \cup linked) # {}

\* DELETE FROM documents; every document may be deleted by itself.
RemoveDocuments(r, ds) ==
    /\ ds \cap documents \cap LockedByOthers(r, removed) = {}
    /\ ~Referenced(r, ds)
    /\ removed' = [removed EXCEPT ![r] = ds \cap documents]
    /\ UNCHANGED <<rowVars, dropped>>

\* COMMIT of a request that deleted the chunks and these documents.
CommitDeletes(r, ds) ==
    /\ documents' = documents \ ds
    /\ chunks' = chunks \ dropped[r]
    /\ dropped' = [dropped EXCEPT ![r] = {}]
    /\ removed' = [removed EXCEPT ![r] = {}]
    /\ UNCHANGED <<stored, linked>>

Rollback(rs) ==
    /\ dropped' = [r \in Requests |-> IF r \in rs THEN {} ELSE dropped[r]]
    /\ removed' = [r \in Requests |-> IF r \in rs THEN {} ELSE removed[r]]
    /\ UNCHANGED rowVars

=============================================================================

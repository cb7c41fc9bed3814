------------------------------ MODULE RagIndex ------------------------------
(***************************************************************************)
(* The knowledge base of the assistant: ingests (rag/ingestion_service.py, *)
(* rag/pipeline.py) replace the chunks of a source in the vector store     *)
(* (rag/vector_store.py) one by one while retrievals (rag/retriever.py)    *)
(* search it and keep a keyword index of each project in memory.  The      *)
(* scripts scripts/ingest.py and ingest_confluence.py ingest into the same *)
(* store from a process of their own and know nothing of that index.       *)
(*                                                                         *)
(* A text stands for a child chunk and for its point: a point's id is the  *)
(* hash of its text, so that two sources with the same text share it.      *)
(* Parent points are left out, every search excludes them.                 *)
(***************************************************************************)
EXTENDS Integers, FiniteSets

CONSTANTS Projects,
          Sources,     \* sources of documents
          ProjectOf,   \* the project of each source
          Fetched,     \* sources read over MCP (Confluence, Jira); others are files
          Texts,
          Runs,        \* ingests, each started once
          None,
          MaxEdits     \* bound: changes of the documents, and resets

ASSUME IndexAssumption ==
    /\ ProjectOf \in [Sources -> Projects] /\ Fetched \subseteq Sources
    /\ MaxEdits \in Nat /\ None \notin Sources \cup Texts \cup Runs

VARIABLES content,   \* the texts of each source as they are now
          point,     \* the vector store: owner and staleness of each text
          ingest,    \* the ingests
          last,      \* the ingest of each source that began last
          index,     \* the keyword index of each project (_bm25_cache); outdated:
                     \* the project was cleared after it was built; writers: the
                     \* ingests that changed what is found in it since then
          edits      \* changes so far

vars == <<content, point, ingest, last, index, edits>>

NoPoint == [owner |-> None, stale |-> FALSE]
Unbuilt == [built |-> FALSE, texts |-> {}, outdated |-> FALSE, writers |-> {}]

\* script: run by a script; read: the texts found; left: those not embedded yet; lost: those skipped;
\* marked: the stale-marking worked; alone: no other ingest of the source ran
\* since this one began.
NotStarted == [ st |-> "idle", source |-> None, script |-> FALSE, read |-> {},
                left |-> {}, lost |-> {}, marked |-> FALSE, alone |-> FALSE ]

Active(r) == ingest[r].st \in {"fetched", "listing", "storing"}
ActiveOn(s) == {r \in Runs : Active(r) /\ ingest[r].source = s}

\* The filter of search and scroll_chunks: project and not stale.
LiveOf(s) == {t \in Texts : point[t].owner = s /\ ~point[t].stale}
Live(p) == UNION {LiveOf(s) : s \in {x \in Sources : ProjectOf[x] = p}}

\* ---- vector store ---------------------------------------------------------
\* mark_stale: all chunks of the project and source.
MarkStale(s) ==
    point' = [t \in Texts |-> [point[t] EXCEPT !.stale = @ \/ point[t].owner = s]]

\* Wrong on purpose: a point that exists keeps its mark.
UpsertMarked(t, s) == point' = [point EXCEPT ![t].owner = s]

\* upsert: the payload is replaced, owner included.
Upsert(t, s) == point' = [point EXCEPT ![t] = [owner |-> s, stale |-> FALSE]]

\* _mark_stale swallows errors, the scripts' calls of mark_stale do not.
MarkOrNot(s, marked) ==
    IF marked THEN MarkStale(s) ELSE UNCHANGED point

\* A step of the ingest r changes what is found in some projects.
NoteWriter(r) ==
    index' = [p \in Projects |->
                IF index[p].built /\ Live(p)' # Live(p)
                THEN [index[p] EXCEPT !.writers = @ \cup {r}] ELSE index[p]]

\* ---- ingests --------------------------------------------------------------
Edit(s, texts) ==
    /\ edits < MaxEdits /\ texts # content[s]
    /\ content' = [content EXCEPT ![s] = texts]
    /\ edits' = edits + 1
    /\ UNCHANGED <<point, ingest, last, index>>

\* The record of a new ingest; the ones of the source that still run are not
\* alone any more.
Begun(r, s, script, st, read, marked) ==
    [x \in Runs |->
        IF x = r THEN [ NotStarted EXCEPT !.st = st, !.source = s, !.script = script, !.read = read,
                          !.left = read, !.marked = marked, !.alone = ActiveOn(s) = {} ]
        ELSE [ingest[x] EXCEPT !.alone = @ /\ x \notin ActiveOn(s)]]

\* ingest_local, scripts/ingest.py: mark, then list the directory.
BeginLocal(r, s) ==
    /\ ingest[r].st = "idle" /\ s \notin Fetched
    /\ \E script \in BOOLEAN, marked \in BOOLEAN :
         /\ script => marked
         /\ MarkOrNot(s, marked)
         /\ ingest' = Begun(r, s, script, "listing", {}, marked)
    /\ NoteWriter(r)
    /\ last' = [last EXCEPT ![s] = r]
    /\ UNCHANGED <<content, edits>>

ListFiles(r) ==
    /\ ingest[r].st = "listing"
    /\ LET texts == content[ingest[r].source]
       IN  ingest' = [ingest EXCEPT ![r].st = "storing", ![r].read = texts, ![r].left = texts]
    /\ UNCHANGED <<content, point, last, index, edits>>

\* ingest_confluence, ingest_jira, scripts/ingest_confluence.py: fetch, return
\* at once when there is nothing, mark afterwards.
BeginFetch(r, s) ==
    /\ ingest[r].st = "idle" /\ s \in Fetched /\ content[s] # {}
    /\ \E script \in BOOLEAN : ingest' = Begun(r, s, script, "fetched", content[s], FALSE)
    /\ last' = [last EXCEPT ![s] = r]
    /\ UNCHANGED <<content, point, index, edits>>

MarkFetched(r) ==
    /\ ingest[r].st = "fetched"
    /\ \E marked \in BOOLEAN :
         /\ ingest[r].script => marked
         /\ MarkOrNot(ingest[r].source, marked)
         /\ ingest' = [ingest EXCEPT ![r].st = "storing", ![r].marked = marked]
    /\ NoteWriter(r)
    /\ UNCHANGED <<content, last, edits>>

\* _ingest_chunks, one chunk: stored, or skipped for its embedding, its
\* metadata, a reader that found no text or an attachment that failed.
Store(r, t) ==
    /\ ingest[r].st = "storing" /\ t \in ingest[r].left
    /\ Upsert(t, ingest[r].source)
    /\ NoteWriter(r)
    /\ ingest' = [ingest EXCEPT ![r].left = @ \ {t}]
    /\ UNCHANGED <<content, last, edits>>

Skip(r, t) ==
    /\ ingest[r].st = "storing" /\ t \in ingest[r].left
    /\ ingest' = [ingest EXCEPT ![r].left = @ \ {t}, ![r].lost = @ \cup {t}]
    /\ UNCHANGED <<content, point, last, index, edits>>

\* An error of a reader, the embedding model or the store ends the ingest.
Raise(r) ==
    /\ Active(r)
    /\ ingest' = [ingest EXCEPT ![r].st = "failed"]
    /\ UNCHANGED <<content, point, last, index, edits>>

\* Nothing is left to store.
End(r) ==
    /\ ingest[r].st = "storing" /\ ingest[r].left = {}
    /\ ingest' = [ingest EXCEPT ![r].st = "done"]

\* Wrong on purpose: the keyword index stays.
FinishQuietly(r) ==
    /\ ~ingest[r].script /\ End(r)
    /\ UNCHANGED <<content, point, last, index, edits>>

\* The end of an ingest of the server: _invalidate_bm25.
Finish(r) ==
    /\ ~ingest[r].script /\ End(r)
    /\ index' = [index EXCEPT ![ProjectOf[ingest[r].source]] = Unbuilt]
    /\ UNCHANGED <<content, point, last, edits>>

\* A script ends; the server's index is out of its reach.
FinishScript(r) ==
    /\ ingest[r].script /\ End(r)
    /\ UNCHANGED <<content, point, last, index, edits>>

\* ---- retrieval ------------------------------------------------------------
\* retrieve: without a hit of the vector search it returns before it looks at
\* the keyword index; else the index is built once and kept.
Retrieve(p) ==
    /\ Live(p) # {} /\ ~index[p].built
    /\ index' = [index EXCEPT ![p] = [Unbuilt EXCEPT !.built = TRUE, !.texts = Live(p)]]
    /\ UNCHANGED <<content, point, ingest, last, edits>>

\* The chunks' part of POST /admin/clear; the keyword index is not dropped.
ClearChunks(p) ==
    LET ofProject == {s \in Sources : ProjectOf[s] = p}
    IN  /\ edits < MaxEdits
        /\ edits' = edits + 1
        /\ point' = [t \in Texts |-> IF point[t].owner \in ofProject THEN NoPoint ELSE point[t]]
        /\ last' = [s \in Sources |-> IF s \in ofProject THEN None ELSE last[s]]
        /\ index' = [index EXCEPT ![p].outdated = index[p].built]
        /\ UNCHANGED <<content, ingest>>

\* The server; a script goes on.
Restart ==
    /\ \E p \in Projects : index[p].built
    /\ index' = [p \in Projects |-> Unbuilt]
    /\ ingest' = [r \in Runs |-> IF Active(r) /\ ~ingest[r].script
                                 THEN [ingest[r] EXCEPT !.st = "failed"]
                                 ELSE ingest[r]]
    /\ UNCHANGED <<content, point, last, edits>>

Init ==
    /\ content \in [Sources -> SUBSET Texts]
    /\ point = [t \in Texts |-> NoPoint]
    /\ ingest = [r \in Runs |-> NotStarted]
    /\ last = [s \in Sources |-> None]
    /\ index = [p \in Projects |-> Unbuilt]
    /\ edits = 0

IngestStep(r) ==
    \/ \E s \in Sources : BeginLocal(r, s) \/ BeginFetch(r, s)
    \/ ListFiles(r) \/ MarkFetched(r) \/ Raise(r) \/ Finish(r) \/ FinishScript(r)
    \/ \E t \in Texts : Store(r, t) \/ Skip(r, t)

Next ==
    \/ \E r \in Runs : IngestStep(r)
    \/ \E p \in Projects : Retrieve(p) \/ ClearChunks(p)
    \/ \E s \in Sources, texts \in SUBSET Texts : Edit(s, texts)
    \/ Restart

Spec == Init /\ [][Next]_vars

-----------------------------------------------------------------------------
(***************************************************************************)
(* Properties                                                              *)
(***************************************************************************)
\* A text no other source holds or has been ingested from.
OnlyIn(t, s) ==
    /\ \A x \in Sources \ {s} : t \notin content[x]
    /\ \A r \in Runs : ingest[r].source # s => t \notin ingest[r].read

\* Once the last ingest of a source is done, and no other one of it ran beside
\* it, searches find exactly what it read: nothing older is left, whatever was
\* there before and however earlier ingests ended, and nothing it stored is
\* missing, other sources with the same text aside (mark_stale, upsert).
IngestReplacesSource ==
    \A s \in Sources : \A r \in Runs :
        last[s] = r /\ ingest[r].st = "done" /\ ingest[r].marked /\ ingest[r].alone =>
            /\ LiveOf(s) \subseteq ingest[r].read \ ingest[r].lost
            /\ \A t \in ingest[r].read \ ingest[r].lost : OnlyIn(t, s) => t \in LiveOf(s)

\* An ingest of the server that ended well, of the project itself.
EndedWell(r, p) ==
    ingest[r].st = "done" /\ ~ingest[r].script /\ ProjectOf[ingest[r].source] = p

\* The keyword index of a project agrees with the store but for what was changed
\* since it was built by an ingest that is not at its end, failed, belongs to
\* another project whose text it took over, or was a script's, and but for a
\* clear.  An ingest the server ended leaves nothing behind, whatever retrieval
\* built the index while it was half done and whatever failed before it
\* (_get_or_build_bm25, _invalidate_bm25).  That is less than "must run after
\* EVERY ingest path" (ingestion_service.py): a failed ingest and the scripts
\* leave the index as it was.
IndexFollowsStore ==
    \A p \in Projects :
        index[p].built /\ index[p].texts # Live(p) =>
            index[p].outdated \/ \E r \in index[p].writers : ~EndedWell(r, p)
=============================================================================

--------------------------- MODULE DocumentIngest ---------------------------
(***************************************************************************)
(* One file on its way into the knowledge base and back (rag/pipeline.py,  *)
(* rag/loaders.py, rag/vector_store.py): a reader for its kind, the        *)
(* chunker, one upsert per chunk, and the recall of the whole document in  *)
(* the order it was written (get_document_chunks).                         *)
(*                                                                         *)
(* A chunk's id is the hash of its text, an image's that of its bytes: a   *)
(* text or an image that occurs twice is one point, and so is one that     *)
(* another document has as well.                                           *)
(***************************************************************************)
EXTENDS DocumentChunker

CONSTANTS ChunkTexts,   \* texts of chunks
          Images,       \* images, told apart by their bytes
          Pages,        \* pages that hold images
          MaxChunks,    \* bound: chunks of the file
          MaxTables     \* bound: tables of a PDF

ASSUME IngestAssumption ==
    /\ MaxChunks \in Nat \ {0} /\ MaxTables \in Nat /\ Pages \subseteq Nat \ {0}
    /\ ChunkTexts \cap Images = {}

VARIABLES file,     \* how the file is read
          chunks,   \* its chunks in the order they are stored
          tables,   \* tables of a PDF read so far
          stored,   \* chunks looked at so far
          skipped,  \* those that were not stored
          marked,   \* the older version was marked stale
          payload   \* the vector store: the payload of each point

ingestVars == <<file, chunks, tables, stored, skipped, marked, payload>>
fileVars == <<chunkerVars, ingestVars>>

\* ChunkingStrategyFactory and the order of the tests in ingest_file: a PDF has
\* a reader of its own, before the one for rich documents.
Files == {"text", "chat", "pdf", "rich"}

\* part: which call of the chunker made it, 0 for the text and from 1 for tables;
\* images have a part and no chunk_index.
Image == -1
NoIndex == -1

\* _content_id of the text, or uuid5 of the image_id.
PointIds == ChunkTexts \cup Images

Chunk(id, part, index, page) == [id |-> id, part |-> part, index |-> index, page |-> page]

NoPayload == [doc |-> "none", stale |-> FALSE, index |-> 0, page |-> 0]

\* ---- reading --------------------------------------------------------------
Reads(f, next) == phase = "reading" /\ file = f /\ phase' = next

\* The file is gone, empty, unreadable JSON, unstructured is missing or fails,
\* or there is no text in it.
ReadNothing ==
    /\ phase = "reading"
    /\ phase' = "done"
    /\ UNCHANGED <<grouping, packing, cutting, ingestVars>>

\* read_text, or messages that are no list of objects.
ReadRaises ==
    /\ Reads("text", "failed") \/ Reads("chat", "failed")
    /\ UNCHANGED <<grouping, packing, cutting, ingestVars>>

ReadText ==
    /\ Reads("text", "paragraphs")
    /\ doc' \in Documents
    /\ UNCHANGED <<grouping, para, sentence, current, parents, cutting, ingestVars>>

\* partition, and what is left of it without the table of contents.
ReadElements ==
    /\ Reads("rich", "elements")
    /\ elements' \in Elements
    /\ UNCHANGED <<at, open, sections, packing, cutting, ingestVars>>

\* load_pdf_with_pypdf gives a plain text, or nothing.
ReadProse ==
    /\ \/ Reads("pdf", "paragraphs") /\ doc' \in Documents
       \/ Reads("pdf", "tables") /\ UNCHANGED doc
    /\ UNCHANGED <<grouping, para, sentence, current, parents, cutting, ingestVars>>

\* Wrong on purpose: every message is the first one.
Unnumbered(kept, texts) == [i \in DOMAIN kept |-> Chunk(texts[i], 0, 0, 0)]

\* chunk_slack_messages: a message is a chunk with its place in the thread; kept:
\* the places of those that are not too short.
SlackChunks(kept, texts) == [i \in DOMAIN kept |-> Chunk(texts[i], 0, kept[i] - 1, 0)]

ReadSlack ==
    /\ Reads("chat", "embedding")
    /\ \E kept \in SeqOf(1..MaxChunks, MaxChunks) :
         /\ \A i, j \in DOMAIN kept : i < j => kept[i] < kept[j]
         /\ \E texts \in [DOMAIN kept -> ChunkTexts] : chunks' = SlackChunks(kept, texts)
    /\ UNCHANGED <<grouping, packing, cutting, file, tables, stored, skipped, marked, payload>>

\* ---- chunks ---------------------------------------------------------------
\* The chunks of one call of the chunker: children with enough words, numbered.
Numbered(texts, part) == [i \in DOMAIN texts |-> Chunk(texts[i], part, i - 1, 0)]

Room == MaxChunks - Len(chunks)
AfterChunks == IF file = "pdf" THEN "tables" ELSE "embedding"

\* chunk_document and chunk_from_elements are done; tables of a rich document
\* are chunks among the others.
CollectChunks ==
    /\ phase = "chunks"
    /\ \E texts \in SeqOf(ChunkTexts, Room) : chunks' = Numbered(texts, 0)
    /\ phase' = AfterChunks
    /\ UNCHANGED <<grouping, packing, cutting, file, tables, stored, skipped, marked, payload>>

\* A document without a section that is packed: its tables alone.
CollectTables ==
    /\ phase = "sections" /\ \A s \in Range(sections) : s.isolated
    /\ \E texts \in [DOMAIN sections -> ChunkTexts] :
         chunks' = SubSeq(Numbered(texts, 0), 1, Min({Len(sections), MaxChunks}))
    /\ phase' = "embedding"
    /\ elements' = <<>> /\ at' = 1 /\ open' = Section(0, FALSE, <<>>) /\ sections' = <<>>
    /\ UNCHANGED <<packing, cutting, file, tables, stored, skipped, marked, payload>>

\* load_pdf_tables: each table is chunked like a document of its own.
AddTable ==
    /\ phase = "tables" /\ tables < MaxTables
    /\ \E texts \in SeqOf(ChunkTexts, Room) :
         chunks' = chunks \o Numbered(texts, tables + 1)
    /\ tables' = tables + 1
    /\ UNCHANGED <<phase, grouping, packing, cutting, file, stored, skipped, marked, payload>>

\* extract_pdf_images goes page by page and leaves out what it cannot read.
NotBehind(page) == \A c \in Range(chunks) : c.page <= page

\* _build_image_chunks: one for each image with enough text in it, under the hash
\* of its bytes; the same image may be on several pages.
AddImage ==
    /\ phase \in {"tables", "images"} /\ Room > 0
    /\ \E image \in Images, page \in Pages :
         /\ NotBehind(page)
         /\ chunks' = Append(chunks, Chunk(image, Image, NoIndex, page))
    /\ phase' = "images"
    /\ UNCHANGED <<grouping, packing, cutting, file, tables, stored, skipped, marked, payload>>

PdfRead ==
    /\ phase \in {"tables", "images"}
    /\ phase' = "embedding"
    /\ UNCHANGED <<grouping, packing, cutting, ingestVars>>

\* ---- _ingest_chunks -------------------------------------------------------
NothingToStore ==
    /\ phase = "embedding" /\ chunks = <<>>
    /\ phase' = "done"
    /\ UNCHANGED <<grouping, packing, cutting, ingestVars>>

\* Prefixes, which may fail, and all vectors; the first upsert finds the older
\* version of the document, marked or not, and other documents.
Older(stale) ==
    [doc : {"this"}, stale : {stale}, index : {0}, page : {0}]
        \cup {NoPayload, [NoPayload EXCEPT !.doc = "other"]}

Embed ==
    /\ phase = "embedding" /\ chunks # <<>>
    /\ marked' \in BOOLEAN
    /\ payload' \in [PointIds -> Older(marked')]
    /\ phase' = "storing"
    /\ UNCHANGED <<grouping, packing, cutting, file, chunks, tables, stored, skipped>>

\* The embedding model or the vector store raises.
EmbedRaises ==
    /\ phase \in {"embedding", "storing"} /\ chunks # <<>>
    /\ phase' = "failed"
    /\ UNCHANGED <<grouping, packing, cutting, ingestVars>>

Storing == phase = "storing" /\ stored < Len(chunks)

StoreChunk ==
    LET c == chunks[stored + 1]
    IN  /\ Storing
        /\ payload' = [payload EXCEPT ![c.id] =
                        [doc |-> "this", stale |-> FALSE, index |-> c.index, page |-> c.page]]
        /\ stored' = stored + 1
        /\ UNCHANGED <<phase, grouping, packing, cutting, file, chunks, tables, skipped, marked>>

\* validate_embedding, validate_metadata.
SkipChunk ==
    /\ Storing
    /\ skipped' = skipped \cup {stored + 1}
    /\ stored' = stored + 1
    /\ UNCHANGED <<phase, grouping, packing, cutting, file, chunks, tables, marked, payload>>

\* Parents follow; no search and no recall sees them.
Stored ==
    /\ phase = "storing" /\ stored = Len(chunks)
    /\ phase' = "done"
    /\ UNCHANGED <<grouping, packing, cutting, ingestVars>>

\* Another document with the same text or image is ingested meanwhile.
OtherDocument(id) ==
    /\ phase = "storing" /\ payload[id].doc # "other"
    /\ payload' = [payload EXCEPT ![id] = [NoPayload EXCEPT !.doc = "other"]]
    /\ UNCHANGED <<phase, grouping, packing, cutting, file, chunks, tables, stored,
                   skipped, marked>>

FileInit ==
    /\ phase = "reading" /\ file \in Files
    /\ NoGrouping /\ NoPacking /\ NoCutting
    /\ chunks = <<>> /\ tables = 0 /\ stored = 0 /\ skipped = {}
    /\ marked = FALSE
    /\ payload = [id \in PointIds |-> NoPayload]

Read == ReadNothing \/ ReadRaises \/ ReadText \/ ReadElements \/ ReadProse \/ ReadSlack
Collect == CollectChunks \/ CollectTables \/ AddTable \/ AddImage \/ PdfRead
Chunked == (GroupElements \/ SplitByParagraphs \/ SplitChildChunks) /\ UNCHANGED ingestVars
StoreChunks == NothingToStore \/ Embed \/ EmbedRaises \/ StoreChunk \/ SkipChunk \/ Stored

IngestFile == Read \/ Chunked \/ Collect \/ StoreChunks

FileNext == IngestFile \/ \E id \in PointIds : OtherDocument(id)

FileSpec == FileInit /\ [][FileNext]_fileVars /\ WF_fileVars(IngestFile)

-----------------------------------------------------------------------------
(***************************************************************************)
(* Properties                                                              *)
(***************************************************************************)
\* get_document_chunks: the points of the document that are not stale, sorted
\* by chunk_index, those without one behind the others by page.
Recalled == {id \in PointIds : payload[id].doc = "this" /\ ~payload[id].stale}

SortsBefore(p, q) ==
    IF p.index = NoIndex THEN q.index = NoIndex /\ p.page < q.page
    ELSE q.index = NoIndex \/ p.index < q.index

Kept == 1..stored \ skipped
TakenOver(i) == payload[chunks[i].id].doc = "other"

\* The chunk was stored, its point by no later chunk and no other document.
Survives(i) ==
    /\ i \in Kept /\ ~TakenOver(i)
    /\ \A j \in i + 1..stored : chunks[j].id = chunks[i].id => j \in skipped

\* Chunks whose order the recall keeps: those of a text, a chat or a rich
\* document, those of the prose or of one table of a PDF, and images behind
\* everything else, page by page.
InOrder(c, d) ==
    \/ c.part = d.part /\ (c.part = Image => c.page < d.page)
    \/ c.part # Image /\ d.part = Image

\* Whatever kind of file it is, the recall of a document that has been stored
\* (get_document_chunks) gives every chunk that was stored and that no other
\* document with the same text has taken over, and nothing of a version that
\* was marked; it keeps the order within the file, although texts repeat,
\* chunks are skipped and messages left out. "So the section reads
\* top-to-bottom as authored" (vector_store.py:209) is more than that: each
\* table of a PDF counts its chunks from 0 again and is mixed with the prose
\* (pipeline.py:410-420), and a chunk that was taken over is missing.
RecallKeepsSequence ==
    phase = "done" /\ chunks # <<>> =>
        /\ \A i \in Kept : chunks[i].id \in Recalled \/ TakenOver(i)
        /\ marked => Recalled \subseteq {chunks[i].id : i \in Kept}
        /\ \A i, j \in {k \in Kept : Survives(k)} :
             i < j /\ InOrder(chunks[i], chunks[j]) =>
                 SortsBefore(payload[chunks[i].id], payload[chunks[j].id])

\* Every file is dealt with in the end, however its reader, the embedding model
\* and the store fail: the sliding window always moves on, also when a break
\* lies at its very beginning and with any overlap.
IngestEnds == <>(phase \in {"done", "failed"})
=============================================================================

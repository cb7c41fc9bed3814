--------------------------- MODULE GeneralistAgent ---------------------------
(***************************************************************************)
(* agents/mcp_agent.py: answers a question from the knowledge base and     *)
(* from live data the LLM gathers with tools, refuses without evidence,    *)
(* and may suggest a ticket.                                               *)
(***************************************************************************)
EXTENDS ToolGathering

\* A title among those of the chunks shares two words with the query.
MinTitleOverlap == 2
NamesDocument(r, overlap) == r.chunks /\ overlap >= MinTitleOverlap

\* Every point of that document, each with the score 1.0; none when the
\* document has been removed since the search.
FullDocument(left) == IF left THEN [chunks |-> TRUE, confidence |-> 100]
                              ELSE [chunks |-> FALSE, confidence |-> 0]

\* Corrective retrieval: a document the query names, whole, the first result if
\* good, else the better of it and a second one for a rewritten query.
Corrective(first, second, whole) ==
    LET recalled == ~TooWeak(first.confidence) /\ whole.chunks
    IN  CASE recalled -> whole
          [] ~recalled /\ first.confidence >= LowThreshold -> first
          [] OTHER -> IF second.confidence >= LowThreshold
                         \/ second.confidence > first.confidence
                      THEN second ELSE first

Retrieved ==
    { Corrective(first, second, FullDocument(NamesDocument(first, overlap) /\ left)) :
        first \in Retrievals, second \in Retrievals,
        overlap \in 0..MinTitleOverlap, left \in BOOLEAN }

\* "historical", "current" or, for a tie, "mixed".
TemporalIntent(q) ==
    CASE "past" \in q.words /\ "now" \notin q.words -> "historical"
      [] "now" \in q.words /\ "past" \notin q.words -> "current"
      [] OTHER -> "mixed"

\* The generated text, or the unavailable message when the LLM gives none.
\* Without live data a text judged below FaithMin is tried once more, grounded;
\* the retry stays unless it is judged worse.  What is still below FaithMin is
\* hedged, the outage message too, except a text that begins with an apology.
Texts == [kind : {"none", "claim", "apology"}, faith : {0, FaithMin}]

Shown(text) == IF text.kind = "none" THEN "unavailable" ELSE "answer"
Hedged(text) == IF text.kind = "none" THEN "outage" ELSE "hedged"

Generate(r, gathered, draft, retry) ==
    LET doubted(text) == r.chunks /\ IsEmpty(gathered) /\ text.faith < FaithMin
        kept == IF doubted(draft) /\ retry.kind # "none" /\ retry.faith >= draft.faith
                THEN retry ELSE draft
    IN  IF doubted(kept) /\ kept.kind # "apology" THEN Hedged(kept) ELSE Shown(kept)

\* The LLM may find a problem no ticket covers.  A failed search for similar
\* tickets leaves it without that list, and a missing prompt, an answer that does
\* not parse or an exception counts as no such problem.
SuggestTicket(reply, suggests) ==
    IF suggests THEN [reply EXCEPT !.skip = FALSE,
                                   !.card = Card("create_ticket", NoId, NoName)]
                ELSE reply

\* skip_persona only for the bare outage message; after a prefix it is text.
IsOutage(kind) == kind \in {"unavailable", "outage"}

Answer(q, r, gathered, enriched, kind, suggests) ==
    LET sources == KbSources(r) \cup (IF IsEmpty(gathered) THEN {} ELSE {"mcp"})
        reply == [ Payload(kind, r.confidence, sources, r.chunks, kind = "unavailable")
                     EXCEPT !.live = ~IsOutage(kind) /\ (HasData(gathered) \/ enriched),
                            !.told = ~IsOutage(kind) /\ ~IsEmpty(gathered) ]
    IN  SuggestTicket(reply, suggests /\ TemporalIntent(q) # "historical")

\* Wrong on purpose: no look at what there is to answer from.
AnswerAnyway(q, r, gathered, enriched, kind, suggests) ==
    Answer(q, r, gathered, enriched /\ r.chunks, kind, suggests)

\* enriched: the chunks name tickets whose present status Jira gave.
AnswerQuestion(q, r, gathered, enriched, kind, suggests) ==
    CASE gathered.unavailable ->
           [Notice(r.confidence, {}) EXCEPT !.kind = "unavailable"]
      [] ~gathered.unavailable /\ IsEmpty(gathered)
           /\ (~r.chunks \/ TooWeak(r.confidence)) ->
           [Notice(r.confidence, {}) EXCEPT !.kind = "refusal"]
      [] OTHER -> Answer(q, r, gathered, enriched /\ r.chunks, kind, suggests)

RunGeneralist(q) ==
    {[payload |-> Raised, ran |-> {}]} \cup
    { [ payload |-> AnswerQuestion(q, x.r, x.g, e, Generate(x.r, x.g, x.draft, x.retry), s),
        ran |-> x.g.ran ] :
        x \in [r : Retrieved, g : Gatherings, draft : Texts, retry : Texts],
        e \in BOOLEAN, s \in BOOLEAN }

=============================================================================

---------------------------- MODULE AgentPayload ----------------------------
(***************************************************************************)
(* What the agents of the chat graph are asked and what they return.       *)
(*                                                                         *)
(* A message is abstracted to what the agents read off it with regular     *)
(* expressions; a reply to its kind, the facts it states and the ids it    *)
(* mentions; a confidence or faithfulness score to a percentage.  An agent *)
(* is an operator that gives, for a message, the set of replies the        *)
(* answers of Jira, GitHub, Slack, the retriever and the LLM allow.        *)
(***************************************************************************)
EXTENDS Integers, Sequences, FiniteSetsExt, Permissions

CONSTANTS Tickets,   \* ticket ids
          Prs,       \* pull request ids
          People,    \* project members and GitHub users
          Strangers, \* names nobody in the project has
          NoId,      \* no ticket, no pull request
          NoName,    \* nobody named, "unassigned"
          Scores     \* confidences the reranker gives a best chunk

ASSUME PayloadAssumption ==
    /\ Scores \subseteq 0..100
    /\ NoId \notin Tickets \cup Prs
    /\ NoName \notin People \cup Strangers
    /\ IsFiniteSet(Prs)

Ids == Tickets \cup Prs
NoEvidence == 20      \* BaseAgent._LOW_CONFIDENCE_THRESHOLD, no_evidence_threshold
LowThreshold == 45    \* low_threshold
FaithMin == 30        \* below: the generalist's grounded retry
ReflectMin == 45      \* REFLECT_FAITH_THRESHOLD

Kinds == { "answer",      \* states facts
           "card",        \* a proposal for a human to decide
           "validation",  \* a question back, or why nothing can be done
           "refusal",     \* no evidence to answer from
           "unavailable", \* a tool or the LLM is down
           "hedged",      \* "Based on limited context - " and the answer
           "outage",      \* "Based on limited context - " and the outage message
           "blocked",     \* the input guard's text
           "empty" }

NoCard == [action |-> "none", target |-> NoId, who |-> NoName]
Card(action, target, who) == [action |-> action, target |-> target, who |-> who]
IsCard(c) == c # NoCard

\* live: the reply rests on data of Jira, GitHub or Slack as they are now;
\* told: on tools that came back, if only with the error text of their service
\* or with the empty board that stands for one that cannot be read.
Payload(kind, confidence, sources, chunks, skip) ==
    [ kind |-> kind, confidence |-> confidence, sources |-> sources,
      chunks |-> chunks, skip |-> skip, live |-> FALSE, told |-> FALSE, ids |-> <<>>,
      card |-> NoCard ]

Proposal(confidence, sources, card) ==
    [ Payload("card", confidence, sources, FALSE, FALSE)
        EXCEPT !.card = card, !.ids = <<card.target>> ]

\* A validation or system message: skip_persona, no chunks.
Notice(confidence, sources) == Payload("validation", confidence, sources, FALSE, TRUE)

Mentions(p, ids) == [p EXCEPT !.ids = ids]
Live(p) == [p EXCEPT !.live = TRUE]

\* An exception of the agent: the graph has no handler for it.
Raised == [Notice(0, {}) EXCEPT !.kind = "raised"]

\* What HybridRetriever.retrieve returns: the chunks and the best score.
NoChunks == [chunks |-> FALSE, confidence |-> 0]
Retrievals == {NoChunks} \cup [chunks : {TRUE}, confidence : Scores]
KbSources(r) == IF r.chunks THEN {"kb"} ELSE {}

\* _low_confidence_guard: a refusal below the threshold; persona is not
\* skipped, the text begins with a prefix PersonaAdapter leaves alone.
TooWeak(confidence) == confidence < NoEvidence
LowConfidencePayload(confidence) == Payload("refusal", confidence, {}, FALSE, FALSE)

\* generate_structured: nothing, text that is not JSON, or a JSON object.
NoJson == {"empty", "unparsable"}

(***************************************************************************)
(* The conversation: `turns` is the recent window, oldest first, each turn *)
(* with the ids its query mentions and those found in the first 300        *)
(* characters of its reply, which is all retrieve_memory_context keeps.    *)
(***************************************************************************)
\* What the cut leaves of the ids of a reply: the first of them, and of one that
\* it runs through whatever id the remaining characters look like.
Starts(ids) ==
    UNION { {SubSeq(ids, 1, n)} \cup
            (IF n < Len(ids) THEN {Append(SubSeq(ids, 1, n), i) : i \in Ids} ELSE {}) :
            n \in 0..Len(ids) }

FirstOf(ids, S) ==
    LET at == {i \in DOMAIN ids : ids[i] \in S}
    IN  IF at = {} THEN NoId ELSE ids[Min(at)]

MentionOf(turn, S) ==
    IF FirstOf(turn.reply, S) # NoId THEN FirstOf(turn.reply, S)
    ELSE FirstOf(turn.query, S)

\* Wrong on purpose: the oldest mention.
FirstMention(turns, S) ==
    LET at == {i \in DOMAIN turns : MentionOf(turns[i], S) # NoId}
    IN  IF at = {} THEN NoId ELSE MentionOf(turns[Min(at)], S)

LastMention(turns, S) ==
    LET at == {i \in DOMAIN turns : MentionOf(turns[i], S) # NoId}
    IN  IF at = {} THEN NoId ELSE MentionOf(turns[Max(at)], S)

\* The id the query names, else the one mentioned last.
Subject(q, turns, S) ==
    IF FirstOf(q.ids, S) # NoId THEN FirstOf(q.ids, S) ELSE LastMention(turns, S)

=============================================================================

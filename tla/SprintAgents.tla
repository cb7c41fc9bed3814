----------------------------- MODULE SprintAgents -----------------------------
(***************************************************************************)
(* The agents that report on or announce the sprint: agents/risk_agent.py, *)
(* agents/release_readiness_agent.py and agents/notify_agent.py.           *)
(***************************************************************************)
EXTENDS ToolGathering

\* jira_get_sprint_board: none (the call raised), one without tickets (no active
\* sprint, or what the connector answers when Jira fails), one with tickets.
Boards == {"none", "bare", "full"}

JiraSource(present) == IF present THEN {"jira_live"} ELSE {}

\* ---- risk -----------------------------------------------------------------
\* Without a usable LLM answer the score is computed from the board, if it has
\* tickets; a weak retrieval is a refusal only when Jira has nothing either.
RiskReply(r, board, blocked, llm) ==
    LET jira == board # "none" \/ blocked
        report == [ Payload("answer", r.confidence, KbSources(r) \cup JiraSource(jira),
                            r.chunks, TRUE)
                      EXCEPT !.live = board = "full" \/ blocked, !.told = jira ]
    IN  CASE TooWeak(r.confidence) /\ ~jira -> LowConfidencePayload(r.confidence)
          [] ~(TooWeak(r.confidence) /\ ~jira) /\ llm \in NoJson /\ board # "full" ->
               [report EXCEPT !.kind = IF llm = "empty" THEN "unavailable" ELSE "validation",
                              !.live = FALSE, !.told = FALSE]
          [] OTHER -> report

RunRisk ==
    {Raised} \cup { RiskReply(r, board, blocked, llm) :
        r \in Retrievals, board \in Boards, blocked \in BOOLEAN, llm \in NoJson \cup {"report"} }

\* ---- release readiness ----------------------------------------------------
\* No assessment without a JSON verdict; a proposal only for GO.  The sources
\* of a verdict leave out the board, which is in the prompt all the same.
ReleaseReply(r, board, tickets, open, verdict) ==
    LET github == IF open THEN {"github_live"} ELSE {}
        sources == KbSources(r) \cup JiraSource(tickets) \cup github
        assessed == [ Payload("answer", r.confidence, sources, r.chunks, FALSE)
                        EXCEPT !.live = board = "full" \/ tickets \/ open, !.told = board # "none" ]
    IN  CASE verdict \in NoJson ->
               [Notice(0, sources \cup JiraSource(board # "none")) EXCEPT !.kind = "unavailable"]
          [] verdict = "GO" ->
               [assessed EXCEPT !.kind = "card",
                                !.card = Card("release_approval", NoId, NoName)]
          [] verdict = "NO_GO" -> assessed

RunReleaseReadiness ==
    {Raised} \cup { ReleaseReply(r, board, tickets, open, verdict) :
        r \in Retrievals, board \in Boards, tickets \in BOOLEAN, open \in BOOLEAN,
        verdict \in NoJson \cup {"GO", "NO_GO"} }

\* ---- notify ---------------------------------------------------------------
\* The text to send: the one extracted; when nothing was, what follows the
\* colon; the sprint status; what the tools gathered, composed by the LLM from
\* the calls that brought data, a server's error text left out.
NotifyReply(q, extracted, board, gathered, composed) ==
    LET given == extracted = "message" \/ (extracted = "none" /\ "colon" \in q.words)
        status == extracted = "sprint_status" /\ board
        composes == HasData(gathered) /\ composed
    IN  IF given \/ status \/ composes
        THEN [ Proposal(100, {"slack"}, Card("send_slack", NoId, NoName)) EXCEPT !.skip = TRUE ]
        ELSE Notice(0, {})

\* Each reply with the tools that ran for it: none when the text was at hand.
RunNotify(q) ==
    {[payload |-> Raised, ran |-> {}]} \cup
    { [ payload |-> NotifyReply(q, e, b, g, c),
        ran |-> IF NotifyReply(q, e, b, NothingGathered, c).kind = "card" THEN {} ELSE g.ran ] :
        e \in {"none", "message", "sprint_status", "unclear"}, b \in BOOLEAN,
        g \in Gatherings, c \in BOOLEAN }

=============================================================================

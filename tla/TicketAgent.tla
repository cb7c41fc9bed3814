----------------------------- MODULE TicketAgent -----------------------------
(***************************************************************************)
(* agents/ticket_agent.py: deassigns, assigns, edits, comments on, lists   *)
(* or creates Jira tickets; each write is a proposal.                      *)
(***************************************************************************)
EXTENDS AgentPayload, SequencesExt

\* jira_get_ticket: no answer, no such ticket, or the assignee.
TicketAnswers == {"error", "missing", NoName} \cup People
Absent(t) == t \in {"error", "missing"}

\* jira_get_project_members: empty also when the call fails.
MemberLists == {<<>>} \cup { SetToSeq(S) : S \in SUBSET People \ {{}} }

TicketNotice(id, sources) == Mentions(Notice(100, sources), <<id>>)
AskForTicketId == Notice(100, {})

\* The member an assignment is for: the one named after "to", else the first.
Chosen(named, members) ==
    CASE members = <<>> -> NoName
      [] members # <<>> /\ named = NoName -> Head(members)
      [] OTHER -> IF named \in Range(members) THEN named ELSE NoName

Assignment(id, named) ==
    LET Reply(t, members) ==
            CASE Absent(t) -> TicketNotice(id, {"jira_live"})
              [] ~Absent(t) /\ members # <<>> /\ Chosen(named, members) = NoName ->
                   TicketNotice(id, {"jira_live"})
              [] ~Absent(t) /\ t # NoName /\ t = Chosen(named, members) ->
                   TicketNotice(id, {"jira_live"})
              [] OTHER -> Proposal(90, {"jira_live"},
                            Card("assign_ticket", id, Chosen(named, members)))
    IN  { Reply(t, members) : t \in TicketAnswers, members \in MemberLists }

\* Not in a try: an error of Jira leaves the agent.
Deassignment(id) ==
    LET Reply(t) ==
            CASE t = "error" -> Raised
              [] t \in {"missing", NoName} -> TicketNotice(id, {"jira_live"})
              [] OTHER -> Proposal(90, {"jira_live"}, Card("deassign_ticket", id, t))
    IN  { Reply(t) : t \in TicketAnswers }

\* No look at Jira; the question for a text is not marked skip_persona.
Comment(q, id) ==
    IF "text" \in q.words
    THEN {Proposal(90, {"jira_live"}, Card("comment_ticket", id, NoName))}
    ELSE {Mentions(Payload("validation", 100, {}, FALSE, FALSE), <<id>>)}

\* "from X to Y" needs X in the current value; "to Y" replaces all of it.
Edit(q, id) ==
    LET Reply(t, found) ==
            CASE t = "error" -> Raised
              [] t = "missing" -> TicketNotice(id, {"jira_live"})
              [] ~Absent(t) /\ "from" \in q.words /\ ~found ->
                   TicketNotice(id, {"jira_live"})
              [] ~Absent(t) /\ q.words \cap {"from", "text"} = {} ->
                   TicketNotice(id, {})
              [] OTHER -> Proposal(90, {"jira_live"}, Card("edit_ticket", id, NoName))
    IN  { Reply(t, found) : t \in TicketAnswers, found \in BOOLEAN }

\* The tickets jira_search_tickets finds; none also when the call fails.
ListTickets ==
    LET Found(id) == Mentions(Live(Payload("answer", 90, {"jira_live"}, FALSE, FALSE)), <<id>>)
    IN  { Found(id) : id \in Tickets } \cup {Payload("answer", 90, {"jira_live"}, FALSE, FALSE)}

\* Jira counts as a source only when it found similar tickets (none on an error).
\* draft: what the LLM extracts; a placeholder title or a text under 30
\* characters is "vague", "similar" names an existing ticket.
Drafts == NoJson \cup {"vague", "similar", "good"}

CreateReply(r, sources, draft, who) ==
    CASE draft \in NoJson \cup {"vague"} -> Notice(0, {})
      [] draft = "similar" -> Notice(r.confidence, sources)
      [] draft = "good" ->
           [ Proposal(r.confidence, sources, Card("create_ticket", NoId, who))
               EXCEPT !.chunks = r.chunks ]

Create ==
    { CreateReply(r, KbSources(r) \cup similar, draft, who) :
        r \in Retrievals, similar \in {{}, {"jira_live"}}, draft \in Drafts,
        who \in People \cup {NoName} }

\* run(): the first branch whose words the message has.  The pattern of a
\* ticket id matches that of a pull request as well.
RunTicket(q, turns) ==
    LET id == Subject(q, turns, Ids)
        OnTicket(replies) == IF id = NoId THEN {AskForTicketId} ELSE replies
    IN  {Raised} \cup
        CASE "deassign" \in q.words -> OnTicket(Deassignment(id))
          [] "deassign" \notin q.words /\ "assign" \in q.words ->
               OnTicket(Assignment(id, q.named))
          [] q.words \cap {"deassign", "assign"} = {} /\ "edit" \in q.words ->
               OnTicket(Edit(q, id))
          [] q.words \cap {"deassign", "assign", "edit"} = {} /\ "comment" \in q.words ->
               OnTicket(Comment(q, id))
          [] q.words \cap {"deassign", "assign", "edit", "comment"} = {}
               /\ "list" \in q.words /\ "create" \notin q.words -> ListTickets
          [] OTHER -> Create

=============================================================================

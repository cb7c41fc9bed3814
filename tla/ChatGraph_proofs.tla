--------------------------- MODULE ChatGraph_proofs ---------------------------
(***************************************************************************)
(* Proofs about ChatGraph.  Each agent's replies are shown to be in good   *)
(* order whatever its tools, the retriever and the LLM answer; the nodes   *)
(* after the agents then keep what the replies promise.                    *)
(***************************************************************************)
EXTENDS ChatGraph, FiniteSetTheorems, SequenceTheorems, TLAPS

\* What a later node must be able to tell from a reply: whether its words
\* stand, which write it proposes, and that it names one id at most.
OneId(ids) == ids = <<>> \/ \E x : ids = <<x>>

PayloadOK(p, allowed) ==
    /\ OneId(p.ids)
    /\ p.kind \in {"blocked", "unavailable"} => (p.skip \/ IsCard(p.card))
    /\ p.kind = "refusal" => (p.skip \/ ~p.chunks)
    /\ IsCard(p.card) => p.card.action \in allowed

Grounded(p) ==
    p.kind \in {"answer", "hedged", "card"} =>
        (p.live \/ p.told \/ (p.chunks /\ p.confidence >= NoEvidence))

\* Only the ticket agent proposes to change a ticket, and only the subject of
\* the message.
OtherActions == AllActions \ TicketWrites

Fits(card, q, recent) ==
    card.action \in TicketWrites =>
        card.target = Subject(q, recent, Ids) /\ card.target # NoId

RunOK(intent, run) ==
    /\ PayloadOK(run.payload, IF intent = "ticket" THEN AllActions ELSE OtherActions)
    /\ intent \in {"cross_source", "risk"} => Grounded(run.payload)
    /\ run.ran \subseteq Reads \ Disabled
    /\ run.ran # {} => (run.payload.skip \/ UsedMcp(run.payload))

-----------------------------------------------------------------------------
\* A notice stands, whatever its kind is called and whatever it mentions.
LEMMA NoticeOK ==
    ASSUME NEW c, NEW s, NEW kind, NEW allowed
    PROVE  /\ PayloadOK(Notice(c, s), allowed)
           /\ \A x : PayloadOK(Mentions(Notice(c, s), <<x>>), allowed)
           /\ PayloadOK([Notice(c, s) EXCEPT !.kind = kind], allowed)
           /\ [Notice(c, s) EXCEPT !.kind = kind].skip = TRUE
BY DEF PayloadOK, OneId, Notice, Payload, Mentions, IsCard, NoCard

\* A proposal is one of an allowed action, about its target.
LEMMA ProposalOK ==
    ASSUME NEW c, NEW s, NEW allowed, NEW action \in allowed, NEW target, NEW who, NEW b
    PROVE  /\ PayloadOK(Proposal(c, s, Card(action, target, who)), allowed)
           /\ PayloadOK([Proposal(c, s, Card(action, target, who)) EXCEPT !.chunks = b], allowed)
           /\ PayloadOK([Proposal(c, s, Card(action, target, who)) EXCEPT !.skip = b], allowed)
BY DEF PayloadOK, OneId, Proposal, Card, Payload

\* An answer carries no refusal and no card.
LEMMA AnswerOK ==
    ASSUME NEW c, NEW s, NEW chunks, NEW skip, NEW allowed
    PROVE  /\ PayloadOK(Payload("answer", c, s, chunks, skip), allowed)
           /\ PayloadOK(Live(Payload("answer", c, s, chunks, skip)), allowed)
           /\ \A x :
                 /\ PayloadOK(Mentions(Live(Payload("answer", c, s, chunks, skip)), <<x>>), allowed)
                 /\ PayloadOK(Mentions(Payload("validation", c, s, chunks, skip), <<x>>), allowed)
BY DEF PayloadOK, OneId, Payload, Mentions, Live, IsCard, NoCard

LEMMA RaisedOK == (\A allowed : PayloadOK(Raised, allowed)) /\ Grounded(Raised)
BY NoticeOK DEF Raised, Grounded, Notice, Payload

\* Evidence above the threshold is evidence from chunks.
LEMMA RetrievalTypes ==
    ASSUME NEW r \in Retrievals
    PROVE  /\ r.confidence \in Int
           /\ r.chunks \in BOOLEAN
           /\ ~TooWeak(r.confidence) => r.chunks
<1>1. CASE r = NoChunks
  BY <1>1 DEF NoChunks, TooWeak, NoEvidence
<1>2. CASE r \in [chunks : {TRUE}, confidence : Scores]
  <2>1. r.chunks = TRUE /\ r.confidence \in 0..100
    BY <1>2, PayloadAssumption
  <2>2. r.confidence \in Int
    BY <2>1
  <2>3. r.chunks \in BOOLEAN /\ r.chunks
    BY <2>1, Zenon
  <2> QED BY <2>2, <2>3
<1> QED BY <1>1, <1>2 DEF Retrievals

LEMMA RetrievedTypes ==
    ASSUME NEW r \in Retrieved
    PROVE  r.confidence \in Int /\ r.chunks \in BOOLEAN
<1>1. PICK first \in Retrievals, second \in Retrievals,
           overlap \in 0..MinTitleOverlap, left \in BOOLEAN :
        r = Corrective(first, second, FullDocument(NamesDocument(first, overlap) /\ left))
  BY DEF Retrieved
<1>2. CASE \E found : r = FullDocument(found)
  BY <1>2 DEF FullDocument
<1>3. CASE r = first \/ r = second
  BY <1>3, RetrievalTypes
<1> QED BY <1>1, <1>2, <1>3, Zenon DEF Corrective

-----------------------------------------------------------------------------
\* What was gathered came from read tools in use, and no tool runs without a
\* request.
LEMMA GatheredOK ==
    ASSUME NEW g \in Gatherings
    PROVE  /\ g.ran \subseteq Reads \ Disabled
           /\ IsEmpty(g) => g.ran = {}
<1>1. PICK reached \in BOOLEAN : g \in GatherViaTools(reached)
  BY DEF Gatherings
<1> DEFINE tools == Offered(reached)
           Result(calls) ==
            [ calls |-> calls, ran |-> { c.tool : c \in { d \in calls : Ran(d, tools) } },
              unavailable |-> calls # {} /\ \A c \in calls : ~CameBack(c) ]
<1>2. tools \subseteq Reads \ Disabled
  BY DEF Offered
<1>3. CASE tools = {}
  <2>1. g \in [calls : {{}}, ran : {{}}, unavailable : BOOLEAN]
    BY <1>1, <1>3 DEF GatherViaTools
  <2> QED BY <2>1 DEF IsEmpty
<1>4. CASE tools # {}
  <2>1. PICK calls \in SUBSET Calls : g = Result(calls)
    BY <1>1, <1>4 DEF GatherViaTools
  <2>2. g.ran = { c.tool : c \in { d \in calls : Ran(d, tools) } } /\ g.calls = calls
    BY <2>1
  <2>3. g.ran \subseteq tools
    BY <2>2 DEF Ran
  <2> QED BY <1>2, <2>2, <2>3 DEF IsEmpty
<1> QED BY <1>3, <1>4

\* The generalist states nothing that neither chunks nor live data nor a tool
\* that came back stand behind.
LEMMA GeneralistOK ==
    ASSUME NEW q, NEW run \in RunGeneralist(q)
    PROVE  RunOK("cross_source", run)
<1>1. CASE run = [payload |-> Raised, ran |-> {}]
  BY <1>1, RaisedOK DEF RunOK
<1>2. CASE run # [payload |-> Raised, ran |-> {}]
  <2>1. PICK x \in [r : Retrieved, g : Gatherings, draft : Texts, retry : Texts],
             e \in BOOLEAN, s \in BOOLEAN :
          run = [ payload |-> AnswerQuestion(q, x.r, x.g, e,
                                Generate(x.r, x.g, x.draft, x.retry), s),
                  ran |-> x.g.ran ]
    BY <1>2 DEF RunGeneralist
  <2> DEFINE r == x.r
             g == x.g
             kind == Generate(x.r, x.g, x.draft, x.retry)
             p == AnswerQuestion(q, r, g, e, kind, s)
  <2>2. /\ r.confidence \in Int /\ r.chunks \in BOOLEAN
        /\ g.ran \subseteq Reads \ Disabled
        /\ IsEmpty(g) => g.ran = {}
    BY RetrievedTypes, GatheredOK
  <2>3. kind \in {"hedged", "outage", "unavailable", "answer"}
    BY DEF Generate, Shown, Hedged
  <2> HIDE DEF kind
  <2> DEFINE Noted == IsEmpty(g) \/ p.skip \/ UsedMcp(p)
  <2>4. ASSUME g.unavailable
        PROVE  PayloadOK(p, OtherActions) /\ Grounded(p) /\ Noted
    BY <2>4, NoticeOK DEF AnswerQuestion, Grounded, Notice, Payload
  <2>5. ASSUME ~g.unavailable, IsEmpty(g) /\ (~r.chunks \/ TooWeak(r.confidence))
        PROVE  PayloadOK(p, OtherActions) /\ Grounded(p) /\ Noted
    BY <2>5, NoticeOK DEF AnswerQuestion, Grounded, Notice, Payload
  <2>6. ASSUME ~g.unavailable, ~(IsEmpty(g) /\ (~r.chunks \/ TooWeak(r.confidence)))
        PROVE  PayloadOK(p, OtherActions) /\ Grounded(p) /\ Noted
    <3>1. p = Answer(q, r, g, e /\ r.chunks, kind, s)
      BY <2>6 DEF AnswerQuestion
    <3>2. ~IsEmpty(g) \/ (r.chunks /\ r.confidence >= NoEvidence)
      BY <2>2, <2>6 DEF TooWeak, NoEvidence
    <3> DEFINE sources == KbSources(r) \cup (IF IsEmpty(g) THEN {} ELSE {"mcp"})
               base == [ Payload(kind, r.confidence, sources, r.chunks, kind = "unavailable")
                    EXCEPT !.live = ~IsOutage(kind) /\ (HasData(g) \/ (e /\ r.chunks)),
                           !.told = ~IsOutage(kind) /\ ~IsEmpty(g) ]
    <3>3. \/ p = base
          \/ p = [base EXCEPT !.skip = FALSE, !.card = Card("create_ticket", NoId, NoName)]
      BY <3>1 DEF Answer, SuggestTicket
    <3>4. /\ p.kind = kind /\ p.ids = <<>> /\ p.chunks = r.chunks /\ p.confidence = r.confidence
          /\ p.told = (~IsOutage(kind) /\ ~IsEmpty(g)) /\ p.sources = sources
          /\ \/ (kind = "unavailable" => p.skip) /\ p.card = NoCard
             \/ p.card = Card("create_ticket", NoId, NoName)
      BY <3>3 DEF Payload
    <3>5. Card("create_ticket", NoId, NoName) # NoCard
          /\ Card("create_ticket", NoId, NoName).action \in OtherActions
      BY DEF Card, NoCard, OtherActions, AllActions, TicketWrites
    <3>6. PayloadOK(p, OtherActions)
      BY <2>3, <3>4, <3>5 DEF PayloadOK, OneId, IsCard
    <3>7. Grounded(p)
      BY <2>3, <3>2, <3>4 DEF Grounded, IsOutage
    <3>8. Noted
      BY <3>4 DEF UsedMcp
    <3> QED BY <3>6, <3>7, <3>8
  <2>7. PayloadOK(p, OtherActions) /\ Grounded(p) /\ Noted
    BY <2>4, <2>5, <2>6
  <2>8. run.payload = p /\ run.ran = g.ran
    BY <2>1 DEF kind
  <2> QED BY <2>2, <2>7, <2>8 DEF RunOK
<1> QED BY <1>1, <1>2

\* The risk report rests on what Jira answered or on chunks above the threshold.
LEMMA RiskOK ==
    ASSUME NEW p \in RunRisk
    PROVE  PayloadOK(p, OtherActions) /\ Grounded(p)
<1>1. CASE p = Raised
  BY <1>1, RaisedOK
<1>2. CASE p # Raised
  <2>1. PICK r \in Retrievals, board \in Boards, blocked \in BOOLEAN,
             llm \in NoJson \cup {"report"} : p = RiskReply(r, board, blocked, llm)
    BY <1>2 DEF RunRisk
  <2> DEFINE jira == board # "none" \/ blocked
             report == [ Payload("answer", r.confidence, KbSources(r) \cup JiraSource(jira),
                                 r.chunks, TRUE)
                          EXCEPT !.live = board = "full" \/ blocked, !.told = jira ]
             other == [report EXCEPT
                         !.kind = IF llm = "empty" THEN "unavailable" ELSE "validation",
                         !.live = FALSE, !.told = FALSE]
  <2>2. CASE TooWeak(r.confidence) /\ ~jira
    <3>1. p = LowConfidencePayload(r.confidence)
      BY <2>1, <2>2 DEF RiskReply
    <3> QED BY <3>1 DEF LowConfidencePayload, Payload, PayloadOK, OneId, Grounded, IsCard
  <2>3. CASE ~(TooWeak(r.confidence) /\ ~jira)
    <3>1. p = report \/ p = other
      BY <2>1, <2>3 DEF RiskReply
    <3>2. CASE p = report
      <4>1. /\ p.kind = "answer" /\ p.ids = <<>> /\ p.card = NoCard /\ p.told = jira
            /\ p.chunks = r.chunks /\ p.confidence = r.confidence
        BY <3>2 DEF Payload
      <4>2. p.told \/ (p.chunks /\ p.confidence >= NoEvidence)
        <5>1. CASE jira
          BY <4>1, <5>1
        <5>2. CASE ~jira
          <6>1. ~TooWeak(r.confidence)
            BY <2>3, <5>2
          <6>2. r.chunks /\ r.confidence >= NoEvidence
            BY <6>1, RetrievalTypes DEF TooWeak, NoEvidence
          <6> QED BY <4>1, <6>2
        <5> QED BY <5>1, <5>2
      <4> QED BY <4>1, <4>2 DEF PayloadOK, OneId, Grounded, IsCard
    <3>3. CASE p = other
      <4>1. /\ p.kind \in {"unavailable", "validation"} /\ p.ids = <<>>
            /\ p.card = NoCard /\ p.skip = TRUE
        BY <3>3 DEF Payload
      <4> QED BY <4>1 DEF PayloadOK, OneId, Grounded, IsCard
    <3> QED BY <3>1, <3>2, <3>3
  <2> QED BY <2>2, <2>3
<1> QED BY <1>1, <1>2

\* A release verdict is unavailable, an assessment, or a proposal.
LEMMA ReleaseOK ==
    ASSUME NEW p \in RunReleaseReadiness
    PROVE  PayloadOK(p, OtherActions)
<1>1. CASE p = Raised
  BY <1>1, RaisedOK
<1>2. CASE p # Raised
  <2>1. PICK r \in Retrievals, board \in Boards, tickets \in BOOLEAN, open \in BOOLEAN,
             verdict \in NoJson \cup {"GO", "NO_GO"} :
          p = ReleaseReply(r, board, tickets, open, verdict)
    BY <1>2 DEF RunReleaseReadiness
  <2> DEFINE github == IF open THEN {"github_live"} ELSE {}
             sources == KbSources(r) \cup JiraSource(tickets) \cup github
             assessed == [ Payload("answer", r.confidence, sources, r.chunks, FALSE)
                             EXCEPT !.live = board = "full" \/ tickets \/ open,
                                    !.told = board # "none" ]
  <2>2. CASE verdict \in NoJson
    <3>1. p = [Notice(0, sources \cup JiraSource(board # "none"))
                EXCEPT !.kind = "unavailable"]
      BY <2>1, <2>2 DEF ReleaseReply, NoJson
    <3> HIDE DEF sources
    <3> QED BY <3>1, NoticeOK
  <2>3. CASE verdict = "GO"
    <3>1. p = [assessed EXCEPT !.kind = "card",
                               !.card = Card("release_approval", NoId, NoName)]
      BY <2>1, <2>3 DEF ReleaseReply, NoJson
    <3> QED BY <3>1 DEF PayloadOK, OneId, Payload, Card, OtherActions, AllActions, TicketWrites
  <2>4. CASE verdict = "NO_GO"
    <3>1. p = assessed
      BY <2>1, <2>4 DEF ReleaseReply, NoJson
    <3> QED BY <3>1 DEF PayloadOK, OneId, Payload, IsCard
  <2> QED BY <2>1, <2>2, <2>3, <2>4
<1> QED BY <1>1, <1>2

\* A notification is a proposal, or a notice that nothing can be sent; the
\* tools that ran for it are read tools in use.
LEMMA NotifyOK ==
    ASSUME NEW q, NEW run \in RunNotify(q)
    PROVE  RunOK("notify", run)
<1>1. CASE run = [payload |-> Raised, ran |-> {}]
  BY <1>1, RaisedOK DEF RunOK
<1>2. CASE run # [payload |-> Raised, ran |-> {}]
  <2>1. PICK e \in {"none", "message", "sprint_status", "unclear"}, b \in BOOLEAN,
             g \in Gatherings, c \in BOOLEAN :
          run = [ payload |-> NotifyReply(q, e, b, g, c),
                  ran |-> IF NotifyReply(q, e, b, NothingGathered, c).kind = "card"
                          THEN {} ELSE g.ran ]
    BY <1>2 DEF RunNotify
  <2>2. run.payload = NotifyReply(q, e, b, g, c) /\ (run.ran = {} \/ run.ran = g.ran)
    BY <2>1
  <2>3. \/ run.payload = Notice(0, {})
        \/ run.payload = [ Proposal(100, {"slack"}, Card("send_slack", NoId, NoName))
                             EXCEPT !.skip = TRUE ]
    BY <2>2 DEF NotifyReply
  <2>4. PayloadOK(run.payload, OtherActions)
    <3>1. "send_slack" \in OtherActions
      BY DEF OtherActions, AllActions, TicketWrites
    <3>2. PayloadOK([ Proposal(100, {"slack"}, Card("send_slack", NoId, NoName))
                       EXCEPT !.skip = TRUE ], OtherActions)
      BY <3>1, ProposalOK
    <3>3. PayloadOK(Notice(0, {}), OtherActions)
      BY NoticeOK
    <3> QED BY <2>3, <3>2, <3>3
  <2>5. run.payload.skip
    <3>1. Notice(0, {}).skip
      BY DEF Notice, Payload
    <3>2. \A p \in {Proposal(100, {"slack"}, Card("send_slack", NoId, NoName))} :
            [p EXCEPT !.skip = TRUE].skip
      BY DEF Proposal, Payload
    <3> QED BY <2>3, <3>1, <3>2
  <2> QED BY <2>2, <2>4, <2>5, GatheredOK DEF RunOK
<1> QED BY <1>1, <1>2

\* A review lists, explains or proposes; it never refuses.
LEMMA PrReviewOK ==
    ASSUME NEW q, NEW turns, NEW p \in RunPrReview(q, turns)
    PROVE  PayloadOK(p, OtherActions)
<1> DEFINE target == Subject(q, turns, Prs)
<1>1. ASSUME NEW r, NEW open, NEW review, NEW c
      PROVE  PayloadOK(ReviewReply(q, r, open, review, c), OtherActions)
  <2> DEFINE action == CASE "approve" \in q.words /\ review.pr # NoId -> "approve_pr"
                         [] "approve" \notin q.words /\ "reject" \in q.words
                              /\ review.pr # NoId -> "reject_pr"
                         [] OTHER -> "assign_reviewer"
             reply == [ Payload("answer", r.confidence,
                                KbSources(r) \cup GithubSource(open), r.chunks, TRUE)
                          EXCEPT !.ids = <<review.pr>>, !.live = DOMAIN open # {} ]
  <2>1. action \in OtherActions
    BY DEF OtherActions, AllActions, TicketWrites
  <2> HIDE DEF action
  <2>2. \/ ReviewReply(q, r, open, review, c) = reply
        \/ ReviewReply(q, r, open, review, c) =
             [reply EXCEPT !.kind = "card", !.card = Card(action, review.pr, review.reviewer)]
    BY DEF ReviewReply, action
  <2>3. PayloadOK(reply, OtherActions)
    BY DEF PayloadOK, OneId, Payload, IsCard
  <2>4. PayloadOK([reply EXCEPT !.kind = "card",
                                !.card = Card(action, review.pr, review.reviewer)], OtherActions)
    BY <2>1 DEF PayloadOK, OneId, Payload, Card
  <2> QED BY <2>2, <2>3, <2>4
<1>2. ASSUME NEW open, p \in PrList(open)
      PROVE  PayloadOK(p, OtherActions)
  <2> DEFINE notice == Notice(0, {})
             answer == Live(Payload("answer", 100, {"github_live"}, FALSE, TRUE))
  <2>1. PICK s \in {<<>>} \cup {<<x>> : x \in DOMAIN open} :
          p = Mentions(notice, s) \/ p = Mentions(answer, s)
    BY <1>2 DEF PrList
  <2>2. OneId(s)
    BY DEF OneId
  <2>3. PayloadOK(Mentions(notice, s), OtherActions)
    BY <2>2 DEF PayloadOK, Notice, Payload, Mentions, IsCard, NoCard
  <2>4. PayloadOK(Mentions(answer, s), OtherActions)
    BY <2>2 DEF PayloadOK, Payload, Mentions, Live, IsCard, NoCard
  <2> QED BY <2>1, <2>3, <2>4
<1>3. ASSUME NEW open, NEW primary, p \in Reviewed(q, open, primary)
      PROVE  PayloadOK(p, OtherActions)
  BY <1>1, <1>3 DEF Reviewed
<1>4. CASE p = Raised
  BY <1>4, RaisedOK
<1>5. CASE p # Raised
  <2>1. PICK open \in OpenPrs : p \in PrReplies(q, target, open)
    BY <1>5 DEF RunPrReview
  <2> HIDE DEF target
  <2>2. CASE target = NoId /\ ~Specific(q)
    BY <2>1, <2>2, <1>2 DEF PrReplies
  <2>3. CASE target # NoId /\ target \notin DOMAIN open
    <3>1. p = Mentions(Notice(0, {"github_live"}), <<target>>)
      BY <2>1, <2>3 DEF PrReplies
    <3> QED BY <3>1, NoticeOK
  <2>4. CASE target # NoId /\ target \in DOMAIN open
    <3>1. p \in Reviewed(q, [o \in {target} |-> open[o]], target)
      BY <2>1, <2>4 DEF PrReplies
    <3> QED BY <3>1, <1>3
  <2>5. CASE target = NoId /\ Specific(q)
    <3>0. Cardinality(DOMAIN open) \in Nat
      <4>1. DOMAIN open \subseteq Prs
        BY DEF OpenPrs
      <4> QED BY <4>1, PayloadAssumption, FS_Subset, FS_CardinalityType
    <3>1. CASE Cardinality(DOMAIN open) > 1
      <4>1. p = Notice(0, {"github_live"})
        BY <2>1, <2>5, <3>0, <3>1 DEF PrReplies
      <4> QED BY <4>1, NoticeOK
    <3>2. CASE ~(Cardinality(DOMAIN open) > 1)
      <4>1. Cardinality(DOMAIN open) <= 1
        BY <3>2, <3>0
      <4>2. p \in Reviewed(q, open, IF DOMAIN open = {} THEN NoId
                                  ELSE CHOOSE o \in DOMAIN open : TRUE)
        BY <2>1, <2>5, <3>2, <4>1 DEF PrReplies
      <4> QED BY <4>2, <1>3
    <3> QED BY <3>1, <3>2
  <2> QED BY <2>2, <2>3, <2>4, <2>5
<1> QED BY <1>4, <1>5

\* Every branch of the ticket agent asks, explains, lists or proposes.
LEMMA AssignmentOK ==
    ASSUME NEW id, NEW named, NEW p \in Assignment(id, named)
    PROVE  PayloadOK(p, AllActions)
<1>1. PICK members \in MemberLists :
        \/ p = TicketNotice(id, {"jira_live"})
        \/ p = Proposal(90, {"jira_live"}, Card("assign_ticket", id, Chosen(named, members)))
  BY DEF Assignment
<1>2. "assign_ticket" \in AllActions
  BY DEF AllActions
<1>3. PayloadOK(TicketNotice(id, {"jira_live"}), AllActions)
  BY NoticeOK DEF TicketNotice
<1>4. PayloadOK(Proposal(90, {"jira_live"}, Card("assign_ticket", id, Chosen(named, members))), AllActions)
  BY <1>2, ProposalOK
<1> QED BY <1>1, <1>3, <1>4

LEMMA DeassignmentOK ==
    ASSUME NEW id, NEW p \in Deassignment(id)
    PROVE  PayloadOK(p, AllActions)
<1>1. PICK t \in TicketAnswers :
        \/ p = Raised
        \/ p = TicketNotice(id, {"jira_live"})
        \/ p = Proposal(90, {"jira_live"}, Card("deassign_ticket", id, t))
  BY DEF Deassignment
<1>2. "deassign_ticket" \in AllActions
  BY DEF AllActions
<1>3. PayloadOK(TicketNotice(id, {"jira_live"}), AllActions)
  BY NoticeOK DEF TicketNotice
<1>4. PayloadOK(Proposal(90, {"jira_live"}, Card("deassign_ticket", id, t)), AllActions)
  BY <1>2, ProposalOK
<1> QED BY <1>1, <1>3, <1>4, RaisedOK

LEMMA CommentOK ==
    ASSUME NEW q, NEW id, NEW p \in Comment(q, id)
    PROVE  PayloadOK(p, AllActions)
<1>1. \/ p = Proposal(90, {"jira_live"}, Card("comment_ticket", id, NoName))
      \/ p = Mentions(Payload("validation", 100, {}, FALSE, FALSE), <<id>>)
  BY DEF Comment
<1>2. "comment_ticket" \in AllActions
  BY DEF AllActions
<1>3. PayloadOK(Proposal(90, {"jira_live"}, Card("comment_ticket", id, NoName)), AllActions)
  BY <1>2, ProposalOK
<1>4. PayloadOK(Mentions(Payload("validation", 100, {}, FALSE, FALSE), <<id>>), AllActions)
  BY AnswerOK
<1> QED BY <1>1, <1>3, <1>4

LEMMA EditOK ==
    ASSUME NEW q, NEW id, NEW p \in Edit(q, id)
    PROVE  PayloadOK(p, AllActions)
<1>1. \/ p = Raised
      \/ p = TicketNotice(id, {"jira_live"})
      \/ p = TicketNotice(id, {})
      \/ p = Proposal(90, {"jira_live"}, Card("edit_ticket", id, NoName))
  BY DEF Edit
<1>2. "edit_ticket" \in AllActions
  BY DEF AllActions
<1>3. PayloadOK(TicketNotice(id, {"jira_live"}), AllActions) /\ PayloadOK(TicketNotice(id, {}), AllActions)
  BY NoticeOK DEF TicketNotice
<1>4. PayloadOK(Proposal(90, {"jira_live"}, Card("edit_ticket", id, NoName)), AllActions)
  BY <1>2, ProposalOK
<1> QED BY <1>1, <1>3, <1>4, RaisedOK

LEMMA ListTicketsOK ==
    ASSUME NEW p \in ListTickets
    PROVE  PayloadOK(p, AllActions)
<1>1. \/ \E id \in Tickets :
           p = Mentions(Live(Payload("answer", 90, {"jira_live"}, FALSE, FALSE)), <<id>>)
      \/ p = Payload("answer", 90, {"jira_live"}, FALSE, FALSE)
  BY DEF ListTickets
<1>2. \A id : PayloadOK(Mentions(Live(Payload("answer", 90, {"jira_live"}, FALSE, FALSE)), <<id>>), AllActions)
  BY AnswerOK
<1>3. PayloadOK(Payload("answer", 90, {"jira_live"}, FALSE, FALSE), AllActions)
  BY AnswerOK
<1> QED BY <1>1, <1>2, <1>3

LEMMA CreateOK ==
    ASSUME NEW p \in Create
    PROVE  PayloadOK(p, AllActions)
<1>1. PICK r \in Retrievals, similar \in {{}, {"jira_live"}}, draft \in Drafts,
           who \in People \cup {NoName} :
        p = CreateReply(r, KbSources(r) \cup similar, draft, who)
  BY DEF Create
<1> DEFINE sources == KbSources(r) \cup similar
<1>2. \/ p = Notice(0, {})
      \/ p = Notice(r.confidence, sources)
      \/ p = [ Proposal(r.confidence, sources, Card("create_ticket", NoId, who))
                 EXCEPT !.chunks = r.chunks ]
  BY <1>1 DEF CreateReply, Drafts, NoJson
<1> HIDE DEF sources
<1>3. "create_ticket" \in AllActions
  BY DEF AllActions
<1>4. PayloadOK(Notice(0, {}), AllActions) /\ PayloadOK(Notice(r.confidence, sources), AllActions)
  BY NoticeOK
<1>5. PayloadOK([ Proposal(r.confidence, sources, Card("create_ticket", NoId, who))
                    EXCEPT !.chunks = r.chunks ], AllActions)
  BY <1>3, ProposalOK
<1> QED BY <1>2, <1>4, <1>5

LEMMA TicketOK ==
    ASSUME NEW q, NEW turns, NEW p \in RunTicket(q, turns)
    PROVE  PayloadOK(p, AllActions)
<1> DEFINE id == Subject(q, turns, Ids)
<1>1. \/ p = Raised \/ p = AskForTicketId
      \/ p \in Deassignment(id) \/ p \in Assignment(id, q.named)
      \/ p \in Edit(q, id) \/ p \in Comment(q, id)
      \/ p \in ListTickets \/ p \in Create
  BY DEF RunTicket
<1> HIDE DEF id
<1>2. PayloadOK(AskForTicketId, AllActions)
  BY NoticeOK DEF AskForTicketId
<1> QED BY <1>1, <1>2, RaisedOK, DeassignmentOK, AssignmentOK, EditOK, CommentOK,
           ListTicketsOK, CreateOK

\* A proposal to change a ticket is about the subject of the message.
LEMMA TicketFits ==
    ASSUME NEW q, NEW turns, NEW p \in RunTicket(q, turns)
    PROVE  Fits(p.card, q, turns)
<1> DEFINE id == Subject(q, turns, Ids)
           About(c) == c.action \in TicketWrites => c.target = id
<1>1. \/ p = Raised \/ p = AskForTicketId \/ p \in ListTickets \/ p \in Create
      \/ /\ id # NoId
         /\ \/ p \in Deassignment(id) \/ p \in Assignment(id, q.named)
            \/ p \in Edit(q, id) \/ p \in Comment(q, id)
  BY DEF RunTicket
<1> HIDE DEF id
<1>2. /\ ~(NoCard.action \in TicketWrites)
      /\ \A who : ~(Card("create_ticket", NoId, who).action \in TicketWrites)
  BY DEF NoCard, Card, TicketWrites
<1>3. /\ \A s : TicketNotice(id, s).card = NoCard
      /\ \A c : Proposal(90, {"jira_live"}, c).card = c
      /\ \A action, who : Card(action, id, who).target = id
  BY DEF TicketNotice, Mentions, Notice, Payload, Proposal, Card
<1>4. CASE p = Raised \/ p = AskForTicketId \/ p \in ListTickets
  <2>1. p.card = NoCard
    <3>1. Raised.card = NoCard /\ AskForTicketId.card = NoCard
      BY DEF Raised, AskForTicketId, Notice, Payload
    <3>2. ASSUME p \in ListTickets
          PROVE  p.card = NoCard
      <4> DEFINE found == Payload("answer", 90, {"jira_live"}, FALSE, FALSE)
      <4>1. found.card = NoCard /\ \A x : Mentions(Live(found), <<x>>).card = NoCard
        BY DEF Mentions, Live, Payload
      <4> HIDE DEF found
      <4>2. p = found \/ \E x : p = Mentions(Live(found), <<x>>)
        BY <3>2 DEF ListTickets, found
      <4> QED BY <4>1, <4>2
    <3> QED BY <1>4, <3>1, <3>2
  <2> QED BY <1>2, <2>1 DEF Fits
<1>5. CASE p \in Create
  <2>1. PICK r \in Retrievals, similar \in {{}, {"jira_live"}}, draft \in Drafts,
             who \in People \cup {NoName} :
          p = CreateReply(r, KbSources(r) \cup similar, draft, who)
    BY <1>5 DEF Create
  <2>2. p.card = NoCard \/ p.card = Card("create_ticket", NoId, who)
    BY <2>1 DEF CreateReply, Drafts, NoJson, Notice, Payload, Proposal
  <2> QED BY <1>2, <2>2 DEF Fits
<1>6. ASSUME p \in Deassignment(id)
      PROVE  About(p.card)
  <2>1. p.card = NoCard \/ \E t : p.card = Card("deassign_ticket", id, t)
    BY <1>3, <1>6 DEF Deassignment, Raised, Notice, Payload
  <2> QED BY <1>2, <1>3, <2>1
<1>7. ASSUME p \in Assignment(id, q.named)
      PROVE  About(p.card)
  <2>1. p.card = NoCard \/ \E who : p.card = Card("assign_ticket", id, who)
    BY <1>3, <1>7 DEF Assignment
  <2> QED BY <1>2, <1>3, <2>1
<1>8. ASSUME p \in Edit(q, id)
      PROVE  About(p.card)
  <2>1. p.card = NoCard \/ p.card = Card("edit_ticket", id, NoName)
    BY <1>3, <1>8 DEF Edit, Raised, Notice, Payload
  <2> QED BY <1>2, <1>3, <2>1
<1>9. ASSUME p \in Comment(q, id)
      PROVE  About(p.card)
  <2>1. p.card = NoCard \/ p.card = Card("comment_ticket", id, NoName)
    BY <1>3, <1>9 DEF Comment, Mentions, Payload
  <2> QED BY <1>2, <1>3, <2>1
<1>10. CASE ~(p = Raised \/ p = AskForTicketId \/ p \in ListTickets \/ p \in Create)
  <2>1. id # NoId /\ About(p.card)
    BY <1>1, <1>6, <1>7, <1>8, <1>9, <1>10
  <2> QED BY <2>1 DEF Fits, id
<1> QED BY <1>4, <1>5, <1>10

\* Whatever agent answers, its run is in order.
LEMMA RunsOK ==
    ASSUME NEW intent \in Intents, NEW q, NEW recent, NEW run \in Runs(intent, q, recent)
    PROVE  RunOK(intent, run)
<1>1. CASE intent = "cross_source"
  BY <1>1, GeneralistOK DEF Runs
<1>2. CASE intent = "notify"
  BY <1>2, NotifyOK DEF Runs
<1>3. CASE intent = "ticket"
  <2>1. PICK p \in RunTicket(q, recent) : run = [payload |-> p, ran |-> {}]
    BY <1>3 DEF Runs, Without
  <2> QED BY <1>3, <2>1, TicketOK DEF RunOK
<1>4. CASE intent = "pr_review"
  <2>1. PICK p \in RunPrReview(q, recent) : run = [payload |-> p, ran |-> {}]
    BY <1>4 DEF Runs, Without
  <2> QED BY <1>4, <2>1, PrReviewOK DEF RunOK
<1>5. CASE intent = "risk"
  <2>1. PICK p \in RunRisk : run = [payload |-> p, ran |-> {}]
    BY <1>5 DEF Runs, Without
  <2> QED BY <1>5, <2>1, RiskOK DEF RunOK
<1>6. CASE intent = "release_readiness"
  <2>1. PICK p \in RunReleaseReadiness : run = [payload |-> p, ran |-> {}]
    BY <1>6 DEF Runs, Without
  <2> QED BY <1>6, <2>1, ReleaseOK DEF RunOK
<1> QED BY <1>1, <1>2, <1>3, <1>4, <1>5, <1>6 DEF Intents
\* So it is whatever agent answers: no other one proposes such a change.
LEMMA RunFits ==
    ASSUME NEW intent \in Intents, NEW q, NEW recent, NEW run \in Runs(intent, q, recent)
    PROVE  Fits(run.payload.card, q, recent)
<1>1. CASE intent = "ticket"
  <2>1. PICK p \in RunTicket(q, recent) : run = [payload |-> p, ran |-> {}]
    BY <1>1 DEF Runs, Without
  <2> QED BY <2>1, TicketFits
<1>2. CASE intent # "ticket"
  <2>1. run.payload.card = NoCard \/ run.payload.card.action \in OtherActions
    BY <1>2, RunsOK DEF RunOK, PayloadOK, IsCard
  <2>2. run.payload.card.action \notin TicketWrites
    BY <2>1 DEF NoCard, OtherActions, TicketWrites
  <2> QED BY <2>2 DEF Fits
<1> QED BY <1>1, <1>2

-----------------------------------------------------------------------------
\* The classifier only names intents that have an agent.
LEMMA ClassifiedOK ==
    ASSUME NEW q
    PROVE  Classified(q) \subseteq Intents
<1> DEFINE hits == {i \in DOMAIN KeywordOrder :
                      KeywordOrder[i] \in Enabled /\ KeywordOrder[i] \in q.words}
<1>1. DOMAIN KeywordOrder = 1..6 /\ \A i \in 1..6 : KeywordOrder[i] \in Intents
  BY DEF KeywordOrder, Intents
<1>2. ASSUME hits # {}
      PROVE  Min(hits) \in 1..6
  <2>1. hits \subseteq 1..6
    BY <1>1
  <2> HIDE DEF hits
  <2>2. \E m \in hits : \A i \in hits : m <= i
    <3>1. CASE 1 \in hits
      BY <2>1, <3>1
    <3>2. CASE 1 \notin hits /\ 2 \in hits
      BY <2>1, <3>2
    <3>3. CASE 1 \notin hits /\ 2 \notin hits /\ 3 \in hits
      BY <2>1, <3>3
    <3>4. CASE 1 \notin hits /\ 2 \notin hits /\ 3 \notin hits /\ 4 \in hits
      BY <2>1, <3>4
    <3>5. CASE 1 \notin hits /\ 2 \notin hits /\ 3 \notin hits /\ 4 \notin hits
               /\ 5 \in hits
      BY <2>1, <3>5
    <3>6. CASE 1 \notin hits /\ 2 \notin hits /\ 3 \notin hits /\ 4 \notin hits
               /\ 5 \notin hits
      <4>1. PICK i \in hits : TRUE
        BY <1>2 DEF hits
      <4>2. \A j \in hits : j = 6
        BY <2>1, <3>6
      <4> QED BY <4>1, <4>2
    <3> QED BY <3>1, <3>2, <3>3, <3>4, <3>5, <3>6
  <2> QED BY <2>1, <2>2 DEF Min
<1>3. KeywordIntent(q) \in Intents
  <2>1. CASE hits = {}
    BY <2>1 DEF KeywordIntent, Intents
  <2>2. CASE hits # {}
    BY <2>2, <1>1, <1>2 DEF KeywordIntent
  <2> QED BY <2>1, <2>2
<1> QED BY <1>3 DEF Classified

-----------------------------------------------------------------------------
\* The record a message carries through the graph.
Shape(t) ==
    t = [ q |-> t.q, recent |-> t.recent, intent |-> t.intent, payload |-> t.payload,
          ran |-> t.ran, text |-> t.text, first |-> t.first, faith |-> t.faith,
          cardId |-> t.cardId ]

Answered == pc \in {"hitl_gate", "adapt_persona", "reply"}
Gated == pc \in {"adapt_persona", "reply"}

\* Tools run in the agent's node only, and its reply tells of them.
RanInv ==
    /\ turn.ran \subseteq Reads \ Disabled
    /\ ~Answered => turn.ran = {}
    /\ pc \in {"agent", "hitl_gate"} => turn.intent \in Intents
    /\ Answered /\ turn.ran # {} => (turn.payload.skip \/ UsedMcp(turn.payload))
    /\ turn.intent = "blocked" => (turn.ran = {} /\ ~IsCard(turn.payload.card))

\* What the agent returned is not changed by a later node.
ReplyInv ==
    /\ PayloadOK(turn.payload, AllActions)
    /\ Answered /\ turn.intent \in {"cross_source", "risk"} => Grounded(turn.payload)

\* Past the gate, a proposal and its saved copy exist together.
CardInv ==
    /\ \E S : saved \in Seq(S)
    /\ ~Gated => turn.cardId = 0
    /\ Gated => (IsCard(turn.payload.card) <=> turn.cardId # 0)
    /\ Gated /\ IsCard(turn.payload.card) => saved[turn.cardId] = turn.payload.card

\* What a revision presupposes and brings.
RevisionOK(p, ran, form, first, faith) ==
    IF form = "revised"
    THEN p.chunks /\ ran = {} /\ first < ReflectMin /\ faith > first
    ELSE faith = first

\* The agent's words stand until the persona, which leaves some alone; of those
\* that may be revised the score of the reply is that of its text.
TextInv ==
    /\ pc # "reply" => turn.text = Text("agent")
    /\ pc = "reply" =>
         /\ (turn.payload.kind \in {"refusal", "blocked", "unavailable"}
              \/ IsCard(turn.payload.card)) => turn.text.form = "agent"
         /\ turn.payload.kind = "outage" => turn.text.form \in {"agent", "revised"}
         /\ IF Untouched(turn.payload) THEN turn.text.form = "agent"
            ELSE RevisionOK(turn.payload, turn.ran, turn.text.form, turn.first, turn.faith)

Inv == Shape(turn) /\ RanInv /\ ReplyInv /\ CardInv /\ TextInv

\* A turn of which nothing is known but its message keeps the invariant.
LEMMA FreshTurn ==
    ASSUME NEW q
    PROVE  /\ Shape(EmptyTurn(q))
           /\ EmptyTurn(q).ran = {} /\ EmptyTurn(q).cardId = 0
           /\ EmptyTurn(q).intent = "none" /\ PayloadOK(EmptyTurn(q).payload, AllActions)
           /\ EmptyTurn(q).text = Text("agent")
<1>1. EmptyTurn(q).payload = Notice(0, {})
  BY DEF EmptyTurn
<1> QED BY <1>1, NoticeOK DEF EmptyTurn, Shape

LEMMA InitInv == Init => Inv
<1> SUFFICES ASSUME Init PROVE Inv
  OBVIOUS
<1>1. turn = EmptyTurn([ids |-> <<>>, words |-> {}, named |-> NoName, reviewer |-> NoName])
  BY DEF Init, NoTurn
<1>2. saved \in Seq({})
  BY DEF Init
<1> QED BY <1>1, <1>2, FreshTurn
     DEF Init, Inv, RanInv, ReplyInv, CardInv, TextInv, Answered, Gated

\* The nodes that start over: nothing of the last message is left.
LEMMA StartKeeps ==
    ASSUME Inv, NEW q, turn' = EmptyTurn(q), pc' \in {"idle", "retrieve_memory"},
           UNCHANGED saved
    PROVE  Inv'
BY FreshTurn DEF Inv, RanInv, ReplyInv, CardInv, TextInv, Answered, Gated

LEMMA RetrieveKeeps == Inv /\ RetrieveMemory => Inv'
<1> SUFFICES ASSUME Inv, RetrieveMemory PROVE Inv'
  OBVIOUS
<1>1. PICK recent : turn' = [turn EXCEPT !.recent = recent]
  BY DEF RetrieveMemory
<1>2. turn' = [ q |-> turn.q, recent |-> recent, intent |-> turn.intent,
                payload |-> turn.payload, ran |-> turn.ran, text |-> turn.text,
                first |-> turn.first, faith |-> turn.faith, cardId |-> turn.cardId ]
  BY <1>1 DEF Inv, Shape
<1> QED BY <1>2
     DEF RetrieveMemory, Inv, Shape, RanInv, ReplyInv, CardInv, TextInv, Answered, Gated

LEMMA BlockKeeps == Inv /\ Block => Inv'
<1> SUFFICES ASSUME Inv, Block PROVE Inv'
  OBVIOUS
<1> DEFINE blocked == [Notice(0, {}) EXCEPT !.kind = "blocked"]
<1>1. turn' = [ q |-> turn.q, recent |-> turn.recent, intent |-> "blocked",
                payload |-> blocked, ran |-> turn.ran, text |-> turn.text,
                first |-> turn.first, faith |-> turn.faith, cardId |-> turn.cardId ]
  BY DEF Inv, Shape, Block
<1>2. PayloadOK(blocked, AllActions) /\ ~IsCard(blocked.card)
  BY NoticeOK DEF Notice, Payload, IsCard
<1> HIDE DEF blocked
<1>3. pc = "classify_intent" /\ pc' = "adapt_persona" /\ saved' = saved
  BY DEF Block, NodeOf
<1> QED BY <1>1, <1>2, <1>3
     DEF Inv, Shape, RanInv, ReplyInv, CardInv, TextInv, Answered, Gated

LEMMA ClassifyKeeps == Inv /\ ClassifyIntent => Inv'
<1> SUFFICES ASSUME Inv, ClassifyIntent PROVE Inv'
  OBVIOUS
<1>1. PICK intent \in Classified(turn.q) :
        turn' = [turn EXCEPT !.intent = intent] /\ pc' = NodeOf(intent)
  BY DEF ClassifyIntent
<1>2. intent \in Intents /\ intent # "blocked" /\ pc' = "agent"
  BY <1>1, ClassifiedOK DEF Intents, NodeOf
<1>3. turn' = [ q |-> turn.q, recent |-> turn.recent, intent |-> intent,
                payload |-> turn.payload, ran |-> turn.ran, text |-> turn.text,
                first |-> turn.first, faith |-> turn.faith, cardId |-> turn.cardId ]
  BY <1>1 DEF Inv, Shape
<1> QED BY <1>2, <1>3
     DEF ClassifyIntent, Inv, Shape, RanInv, ReplyInv, CardInv, TextInv, Answered, Gated

LEMMA RunAgentKeeps == Inv /\ RunAgent => Inv'
<1> SUFFICES ASSUME Inv, RunAgent PROVE Inv'
  OBVIOUS
<1>1. PICK run \in Runs(turn.intent, turn.q, turn.recent) :
        turn' = [turn EXCEPT !.payload = run.payload, !.ran = run.ran]
  BY DEF RunAgent
<1>2. pc = "agent" /\ pc' = "hitl_gate" /\ saved' = saved /\ turn.intent \in Intents
  BY DEF RunAgent, Inv, RanInv
<1>3. RunOK(turn.intent, run) /\ PayloadOK(run.payload, AllActions)
  BY <1>2, RunsOK DEF RunOK, PayloadOK, OtherActions
<1>4. turn' = [ q |-> turn.q, recent |-> turn.recent, intent |-> turn.intent,
                payload |-> run.payload, ran |-> run.ran, text |-> turn.text,
                first |-> turn.first, faith |-> turn.faith, cardId |-> turn.cardId ]
  BY <1>1 DEF Inv, Shape
<1>5. turn.intent # "blocked"
  BY <1>2 DEF Intents
<1> QED BY <1>2, <1>3, <1>4, <1>5
     DEF RunOK, Inv, Shape, RanInv, ReplyInv, CardInv, TextInv, Answered, Gated

LEMMA CheckHitlKeeps == Inv /\ CheckHitl => Inv'
<1> SUFFICES ASSUME Inv, CheckHitl PROVE Inv'
  OBVIOUS
<1> DEFINE card == turn.payload.card
<1>1. pc = "hitl_gate" /\ pc' = "adapt_persona"
  BY DEF CheckHitl
<1>2. CASE IsCard(card)
  <2>1. PICK S : saved \in Seq(S)
    BY DEF Inv, CardInv
  <2>2. saved \in Seq(S \cup {card})
    BY <2>1
  <2>3. saved' = Append(saved, card)
    BY <1>2 DEF CheckHitl
  <2>4. /\ saved' \in Seq(S \cup {card}) /\ Len(saved') = Len(saved) + 1
        /\ Len(saved) \in Nat /\ saved'[Len(saved')] = card
    BY <2>2, <2>3
  <2>5. turn' = [ q |-> turn.q, recent |-> turn.recent, intent |-> turn.intent,
                  payload |-> turn.payload, ran |-> turn.ran, text |-> turn.text,
                  first |-> turn.first, faith |-> turn.faith, cardId |-> Len(saved') ]
    BY <1>2 DEF CheckHitl, IdOf, Inv, Shape
  <2>6. Len(saved') # 0
    BY <2>4
  <2> QED BY <1>1, <1>2, <2>4, <2>5, <2>6
       DEF Inv, Shape, RanInv, ReplyInv, CardInv, TextInv, Answered, Gated
<1>3. CASE ~IsCard(card)
  BY <1>1, <1>3
     DEF CheckHitl, Inv, Shape, RanInv, ReplyInv, CardInv, TextInv, Answered, Gated
<1> QED BY <1>2, <1>3

LEMMA LeaveKeeps == Inv /\ LeaveText => Inv'
<1> SUFFICES ASSUME Inv, LeaveText PROVE Inv'
  OBVIOUS
<1>1. /\ pc = "adapt_persona" /\ pc' = "reply" /\ Untouched(turn.payload)
      /\ turn' = turn /\ saved' = saved
  BY DEF LeaveText
<1>2. turn.text.form = "agent"
  BY <1>1 DEF Inv, TextInv, Text
<1>3. TextInv'
  BY <1>1, <1>2 DEF TextInv
<1>4. RanInv' /\ ReplyInv' /\ CardInv' /\ Shape(turn)'
  BY <1>1 DEF Inv, Shape, RanInv, ReplyInv, CardInv, Answered, Gated
<1> QED BY <1>3, <1>4 DEF Inv

\* The persona's rewriting: a refusal has no chunks, so neither the persona nor
\* a revision touches it; an outage message is not rewritten either; and a
\* revision is only kept when it scored better.
LEMMA EvaluatedOK ==
    ASSUME NEW p, PayloadOK(p, AllActions), ~Untouched(p),
           NEW ran, ran # {} => (p.skip \/ UsedMcp(p)),
           NEW adapted \in Adapted(p), NEW faith \in Verdicts(p), NEW score \in Faiths,
           NEW text \in Evaluated(p, adapted, faith, score)
    PROVE  /\ p.kind \in {"refusal", "blocked", "unavailable"} => text.form = "agent"
           /\ p.kind = "outage" => text.form \in {"agent", "revised"}
           /\ RevisionOK(p, ran, text.form, faith, text.score)
<1>1. \/ adapted = Text("agent")
      \/ adapted = Text("adapted") /\ p.kind \notin {"refusal", "outage"}
  BY DEF Adapted
<1> DEFINE plain == [adapted EXCEPT !.score = faith]
<1>2. plain.form = adapted.form /\ plain.score = faith /\ plain.form # "revised"
  BY <1>1 DEF Text
<1>3. \/ text = plain
      \/ /\ Reflects(p, faith) /\ score > faith
         /\ text.form = "revised" /\ text.score = score
  BY <1>1, <1>2 DEF Evaluated, Revised, Text
<1>4. ~p.skip /\ ~IsCard(p.card)
  BY DEF Untouched
<1>5. p.kind \notin {"blocked", "unavailable"} /\ (p.kind = "refusal" => ~p.chunks)
  BY <1>4 DEF PayloadOK
<1>6. p.kind = "refusal" => text.form = "agent"
  BY <1>1, <1>2, <1>3, <1>5 DEF Text, Reflects
<1>7. p.kind = "outage" => text.form \in {"agent", "revised"}
  BY <1>1, <1>2, <1>3 DEF Text
<1>8. RevisionOK(p, ran, text.form, faith, text.score)
  BY <1>2, <1>3, <1>4 DEF RevisionOK, Reflects
<1> QED BY <1>5, <1>6, <1>7, <1>8

LEMMA AdaptKeeps == Inv /\ AdaptPersona => Inv'
<1> SUFFICES ASSUME Inv, AdaptPersona PROVE Inv'
  OBVIOUS
<1>1. /\ pc = "adapt_persona" /\ pc' = "reply" /\ ~Untouched(turn.payload)
      /\ saved' = saved
  BY DEF AdaptPersona
<1>2. PICK adapted \in Adapted(turn.payload), faith \in Verdicts(turn.payload),
           score \in Faiths :
        \E text \in Evaluated(turn.payload, adapted, faith, score) :
          turn' = [turn EXCEPT !.text = text, !.first = faith, !.faith = text.score]
  BY DEF AdaptPersona
<1>3. PICK text \in Evaluated(turn.payload, adapted, faith, score) :
        turn' = [turn EXCEPT !.text = text, !.first = faith, !.faith = text.score]
  BY <1>2
<1>4. turn' = [ q |-> turn.q, recent |-> turn.recent, intent |-> turn.intent,
                payload |-> turn.payload, ran |-> turn.ran, text |-> text,
                first |-> faith, faith |-> text.score, cardId |-> turn.cardId ]
  BY <1>3 DEF Inv, Shape
<1>5. /\ turn.payload.kind \in {"refusal", "blocked", "unavailable"} => text.form = "agent"
      /\ turn.payload.kind = "outage" => text.form \in {"agent", "revised"}
      /\ RevisionOK(turn.payload, turn.ran, text.form, faith, text.score)
  BY <1>1, EvaluatedOK DEF Inv, ReplyInv, RanInv, Answered
<1>6. ~IsCard(turn.payload.card)
  BY <1>1 DEF Untouched
<1>7. TextInv'
  BY <1>1, <1>4, <1>5, <1>6 DEF TextInv
<1>8. RanInv' /\ ReplyInv' /\ CardInv' /\ Shape(turn)'
  BY <1>1, <1>4 DEF Inv, Shape, RanInv, ReplyInv, CardInv, Answered, Gated
<1> QED BY <1>7, <1>8 DEF Inv

\* Every step keeps the invariant.
LEMMA StepKeeps == Inv /\ [Next]_vars => Inv'
<1> SUFFICES ASSUME Inv, [Next]_vars PROVE Inv'
  OBVIOUS
<1>1. ASSUME NEW q \in Queries, Receive(q)
      PROVE  Inv'
  BY <1>1, StartKeeps DEF Receive
<1>2. CASE AgentRaises
  BY <1>2, StartKeeps DEF AgentRaises, NoTurn
<1>3. CASE Reply
  BY <1>3, StartKeeps DEF Reply, NoTurn
<1>4. CASE UNCHANGED vars
  BY <1>4
     DEF vars, Inv, Shape, RanInv, ReplyInv, CardInv, TextInv, Answered, Gated
<1> QED
  BY <1>1, <1>2, <1>3, <1>4, RetrieveKeeps, BlockKeeps, ClassifyKeeps, RunAgentKeeps,
     CheckHitlKeeps, LeaveKeeps, AdaptKeeps DEF Next

LEMMA Always == Spec => []Inv
BY InitInv, StepKeeps, PTL DEF Spec

-----------------------------------------------------------------------------
\* No answer about the project without evidence (BaseAgent's low-confidence
\* guard, the generalist's refusals): for any scores, tools and messages it rests
\* on chunks, on live data or, at the least, on tools that came back.
THEOREM AlwaysGrounded == Spec => []AnswersAreGrounded
<1>1. Inv => AnswersAreGrounded
  BY DEF Inv, ReplyInv, Answered, AnswersAreGrounded, Replying, Grounded
<1> QED BY <1>1, Always, PTL

\* Refusals, the guard's text and bare outage messages pass the persona and the
\* evaluation word for word (adapt_persona, evaluate_response); the generalist's
\* prefixed outage message does or is replaced by a revision judged better.
THEOREM RefusalsAlwaysStand == Spec => []RefusalsStand
<1>1. Inv => RefusalsStand
  BY DEF Inv, TextInv, RevisionOK, RefusalsStand, Replying
<1> QED BY <1>1, Always, PTL

\* A revision replaces an answer only when that rests on chunks alone, was judged
\* below the threshold and the revision was judged better (evaluation.py): no
\* tool of the gather loop had run for it.
THEOREM RevisionsImprove == Spec => []RevisedOnlyToImprove
<1>1. Inv => RevisedOnlyToImprove
  BY DEF Inv, TextInv, RevisionOK, RevisedOnlyToImprove, Replying
<1> QED BY <1>1, Always, PTL

\* A proposal reaches the user unchanged and under the id it was saved with,
\* and its action is one the role matrix decides about (check_hitl).
THEOREM CardsAlwaysReach == Spec => []CardsReachUser
<1>1. Inv => CardsReachUser
  BY DEF Inv, TextInv, ReplyInv, PayloadOK, CardInv, Gated, CardsReachUser, Replying
<1> QED BY <1>1, Always, PTL

\* Whatever the LLM asks for, only read tools in use run, and none at all for
\* a blocked message (gather_via_tools, classify_intent).
THEOREM OnlyReadsEverRun == Spec => []OnlyReadsRun
<1>1. Inv => OnlyReadsRun
  BY DEF Inv, RanInv, CardInv, Gated, OnlyReadsRun
<1> QED BY <1>1, Always, PTL
-----------------------------------------------------------------------------
(* The ticket a proposal is about.                                         *)

\* A nonempty set of naturals has a least element, which Min returns ...
LEMMA LeastNatural ==
    ASSUME NEW T, T \subseteq Nat, T # {}
    PROVE  \E n \in T : \A m \in T : n <= m
<1> DEFINE R == OpToRel(<, Nat)
<1>1. R = {ss \in Nat \X Nat : ss[1] < ss[2]}
  BY DEF OpToRel
<1>2. IsWellFoundedOn(R, Nat)
  BY NatLessThanWellFounded
<1> HIDE DEF R
<1>3. PICK x \in T : \A y \in T : <<y, x>> \notin R
  BY <1>2, WFMin
<1>4. \A y \in T : ~(y < x)
  BY <1>1, <1>3
<1> QED BY <1>4

LEMMA MinIsElement ==
    ASSUME NEW T, T \subseteq Nat, T # {}
    PROVE  Min(T) \in T
BY LeastNatural DEF Min

\* ... and a nonempty set of indexes a greatest one, which Max returns.
LEMMA MaxIsGreatest ==
    ASSUME NEW k \in Nat, NEW T, T \subseteq 1..k, T # {}
    PROVE  Max(T) \in T /\ \A m \in T : m <= Max(T)
<1> DEFINE D == {n \in Nat : k - n \in T}
<1>1. \A m \in T : m \in Int /\ k - m \in D
  <2>1. \A m \in T : m \in Int /\ k - m \in Nat /\ k - (k - m) = m
    OBVIOUS
  <2> QED BY <2>1
<1>2. PICK x \in D : \A y \in D : x <= y
  <2>1. D # {} /\ D \subseteq Nat
    BY <1>1
  <2> HIDE DEF D
  <2> QED BY <2>1, LeastNatural
<1>3. k - x \in T /\ \A m \in T : k - x >= m
  <2>1. k - x \in T /\ x \in Nat
    OBVIOUS
  <2>2. \A m \in T : x <= k - m
    BY <1>1, <1>2
  <2> QED BY <1>1, <2>1, <2>2
<1>4. Max(T) \in T /\ \A m \in T : Max(T) >= m
  BY <1>3 DEF Max
<1> QED BY <1>1, <1>4

\* The first id of a text is one of its ids.
LEMMA FirstIsNamed ==
    ASSUME NEW ids, DOMAIN ids \subseteq Nat, NEW S, FirstOf(ids, S) # NoId
    PROVE  FirstOf(ids, S) \in Range(ids)
<1> DEFINE at == {i \in DOMAIN ids : ids[i] \in S}
<1>1. at # {} /\ FirstOf(ids, S) = ids[Min(at)] /\ at \subseteq Nat
  BY DEF FirstOf
<1>2. Min(at) \in at
  <2> HIDE DEF at
  <2> QED BY <1>1, MinIsElement
<1>3. Min(at) \in DOMAIN ids
  BY <1>2
<1> HIDE DEF at
<1> QED BY <1>1, <1>3 DEF Range

LEMMA MentionIsNamed ==
    ASSUME NEW t, DOMAIN t.query \subseteq Nat, DOMAIN t.reply \subseteq Nat, NEW S,
           MentionOf(t, S) # NoId
    PROVE  MentionOf(t, S) \in Range(t.query) \cup Range(t.reply)
BY FirstIsNamed DEF MentionOf

\* The window of a conversation that RetrieveMemory reads.
WindowOf(h) == SubSeq(h, Max({1, Len(h) - Window + 1}), Len(h))

\* The id mentioned last in the window is of a turn of the window, and no later
\* turn of the conversation mentions one.
LEMMA LastOfWindow ==
    ASSUME NEW A, NEW h \in Seq(A), NEW S, LastMention(WindowOf(h), S) # NoId
    PROVE  \E i \in DOMAIN h :
              /\ Len(h) - i < Window
              /\ LastMention(WindowOf(h), S) = MentionOf(h[i], S)
              /\ MentionOf(h[i], S) # NoId
              /\ \A j \in i + 1..Len(h) : MentionOf(h[j], S) = NoId
<1> DEFINE n == Len(h)
           b == Max({1, n - Window + 1})
           r == WindowOf(h)
<1>1. n \in Nat /\ Window \in Nat \ {0} /\ DOMAIN h = 1..n
  BY GraphAssumption, LenProperties
<1>2. b \in Nat /\ 1 <= b /\ n - Window + 1 <= b /\ b <= n + 1
  <2>1. \E x \in {1, n - Window + 1} : \A y \in {1, n - Window + 1} : x >= y
    BY <1>1
  <2>2. b \in {1, n - Window + 1} /\ \A y \in {1, n - Window + 1} : b >= y
    BY <2>1 DEF Max
  <2> QED BY <1>1, <2>2
<1>3. r = SubSeq(h, b, n)
  BY DEF WindowOf
<1> HIDE DEF b, r
<1>4. /\ DOMAIN r = 1..(n + 1 - b) /\ n + 1 - b \in Nat
      /\ \A k \in 1..(n + 1 - b) : r[k] = h[b + k - 1]
  BY <1>1, <1>2, <1>3
<1> DEFINE at == {k \in DOMAIN r : MentionOf(r[k], S) # NoId}
           k == Max(at)
<1>5. at # {} /\ LastMention(r, S) = MentionOf(r[k], S)
  BY DEF LastMention, r
<1>6. k \in at /\ \A m \in at : m <= k
  <2>1. at \subseteq 1..(n + 1 - b)
    BY <1>4
  <2> HIDE DEF at
  <2> QED BY <1>4, <1>5, <2>1, MaxIsGreatest
<1>7. k \in 1..(n + 1 - b) /\ MentionOf(r[k], S) # NoId
  BY <1>4, <1>6
<1> HIDE DEF k
<1> DEFINE i == b + k - 1
<1>8. i \in 1..n /\ n - i < Window /\ r[k] = h[i]
  BY <1>1, <1>2, <1>4, <1>7
<1>9. ASSUME NEW j \in i + 1..n
      PROVE  MentionOf(h[j], S) = NoId
  <2> DEFINE m == j - b + 1
  <2>1. m \in 1..(n + 1 - b) /\ ~(m <= k) /\ b + m - 1 = j
    BY <1>1, <1>2, <1>4, <1>7, <1>8, <1>9
  <2>2. r[m] = h[j] /\ m \in DOMAIN r
    BY <1>4, <2>1
  <2>3. m \notin at
    BY <1>6, <2>1
  <2> QED BY <2>2, <2>3
<1> HIDE DEF i
<1> QED BY <1>1, <1>5, <1>7, <1>8, <1>9 DEF r


\* What a message is read with: the conversation it found, whose turns keep the
\* ids of their texts in order, and a proposal about its subject.
NameInv ==
    /\ \E A : history \in Seq(A)
    /\ \A i \in DOMAIN history :
          DOMAIN history[i].query \subseteq Nat /\ DOMAIN history[i].reply \subseteq Nat
    /\ DOMAIN turn.q.ids \subseteq Nat
    /\ pc \notin {"idle", "retrieve_memory"} => turn.recent \in {WindowOf(history), <<>>}
    /\ Answered => Fits(turn.payload.card, turn.q, turn.recent)

LEMMA NoCardFits == ASSUME NEW q, NEW recent PROVE Fits(NoCard, q, recent)
BY DEF Fits, NoCard, TicketWrites

LEMMA NameInit == Init => NameInv
<1> SUFFICES ASSUME Init PROVE NameInv
  OBVIOUS
<1>1. history \in Seq([query : Seq(Ids), reply : Seq(Ids)])
  BY GraphAssumption DEF Init
<1>2. \A i \in DOMAIN history : history[i].query \in Seq(Ids) /\ history[i].reply \in Seq(Ids)
  <2> TAKE i \in DOMAIN history
  <2>1. i \in 1..Len(history)
    BY <1>1, LenProperties
  <2>2. history[i] \in [query : Seq(Ids), reply : Seq(Ids)]
    BY <1>1, <2>1, ElementOfSeq
  <2> QED BY ONLY <2>2
<1>3. \A i \in DOMAIN history :
        DOMAIN history[i].query \subseteq Nat /\ DOMAIN history[i].reply \subseteq Nat
  BY <1>2
<1>4. turn.q.ids = <<>> /\ pc = "idle"
  BY DEF Init, NoTurn, EmptyTurn
<1> QED BY <1>1, <1>3, <1>4 DEF NameInv, Answered

\* Of a reply that names one id at most, the cut to 300 characters leaves one
\* at most.
LEMMA StartsOne ==
    ASSUME NEW ids, OneId(ids), NEW kept \in Starts(ids)
    PROVE  OneId(kept)
<1>1. PICK n \in 0..Len(ids) :
        \/ kept = SubSeq(ids, 1, n)
        \/ n < Len(ids) /\ \E i \in Ids : kept = Append(SubSeq(ids, 1, n), i)
  BY DEF Starts
<1>2. CASE ids = <<>>
  <2>1. n = 0 /\ Len(ids) = 0
    BY <1>2
  <2>2. SubSeq(ids, 1, 0) = <<>>
    BY <1>2
  <2> QED BY <1>1, <2>1, <2>2 DEF OneId
<1>3. CASE \E x : ids = <<x>>
  <2>1. PICK x : ids = <<x>>
    BY <1>3
  <2>2. Len(ids) = 1 /\ n \in {0, 1}
    BY <2>1
  <2>3. SubSeq(ids, 1, 0) = <<>>
    BY SubSeqEmpty
  <2>4. SubSeq(ids, 1, 1) = <<x>>
    <3>1. ids \in Seq({x})
      BY <2>1
    <3>2. SubSeq(ids, 1, Len(ids)) = ids
      BY <3>1, SubSeqFull
    <3> QED BY <2>1, <2>2, <3>2
  <2>5. \A i : Append(<<>>, i) = <<i>>
    OBVIOUS
  <2>6. CASE n = 0
    BY <1>1, <2>3, <2>5, <2>6 DEF OneId
  <2>7. CASE n = 1
    BY <1>1, <2>2, <2>4, <2>7 DEF OneId
  <2> QED BY <2>2, <2>6, <2>7
<1> QED BY <1>2, <1>3 DEF OneId

\* The turn chat() stores keeps the ids of its two texts in order.
LEMMA ReplyNames == Inv /\ NameInv /\ Reply => NameInv'
<1> SUFFICES ASSUME Inv, NameInv, Reply PROVE NameInv'
  OBVIOUS
<1>1. PICK ids \in Starts(turn.payload.ids) \cup
                   (IF turn.payload.skip THEN {} ELSE {<<i>> : i \in Ids}) :
      \E stored \in BOOLEAN :
        history' = IF stored
                   THEN Append(history,
                          [ query |-> turn.q.ids,
                            reply |-> IF IsCard(turn.payload.card) THEN <<>> ELSE ids ])
                   ELSE history
  BY DEF Reply
<1> DEFINE reply == IF IsCard(turn.payload.card) THEN <<>> ELSE ids
           new == [query |-> turn.q.ids, reply |-> reply]
<1>2. OneId(ids)
  <2>1. OneId(turn.payload.ids)
    BY DEF Inv, ReplyInv, PayloadOK
  <2>2. ids \in Starts(turn.payload.ids) \/ \E i : ids = <<i>>
    BY <1>1
  <2> QED BY <2>1, <2>2, StartsOne DEF OneId
<1>3. DOMAIN reply \subseteq Nat /\ DOMAIN turn.q.ids \subseteq Nat
  <2>1. \A x : DOMAIN <<x>> = 1..1
    OBVIOUS
  <2>2. reply = <<>> \/ \E x : reply = <<x>>
    BY <1>2 DEF OneId
  <2>3. DOMAIN reply \subseteq Nat
    BY <2>1, <2>2
  <2> QED BY <2>3 DEF NameInv
<1> HIDE DEF reply
<1>4. history' = history \/ history' = Append(history, new)
  BY <1>1 DEF reply
<1>5. PICK A : history \in Seq(A)
  BY DEF NameInv
<1>6. history \in Seq(A \cup {new})
  BY <1>5
<1>7. /\ history' \in Seq(A \cup {new})
      /\ \A i \in DOMAIN history' : history'[i] = new \/ (i \in DOMAIN history /\ history'[i] = history[i])
  <2>1. CASE history' = history
    BY <1>6, <2>1
  <2>2. CASE history' = Append(history, new)
    <3>1. /\ Append(history, new) \in Seq(A \cup {new})
          /\ Len(Append(history, new)) = Len(history) + 1
          /\ \A i \in 1..Len(history) : Append(history, new)[i] = history[i]
          /\ Append(history, new)[Len(history) + 1] = new
      BY <1>6, AppendProperties
    <3>2. DOMAIN history' = 1..(Len(history) + 1) /\ DOMAIN history = 1..Len(history)
          /\ Len(history) \in Nat
      BY <1>6, <2>2, <3>1, LenProperties
    <3> QED BY <2>2, <3>1, <3>2
  <2> QED BY <1>4, <2>1, <2>2
<1>8. \A i \in DOMAIN history' :
        DOMAIN history'[i].query \subseteq Nat /\ DOMAIN history'[i].reply \subseteq Nat
  BY <1>3, <1>7 DEF NameInv
<1>9. turn'.q.ids = <<>> /\ pc' = "idle"
  BY DEF Reply, NoTurn, EmptyTurn
<1> QED BY <1>7, <1>8, <1>9 DEF NameInv, Answered

LEMMA NameStep == Inv /\ NameInv /\ [Next]_vars => NameInv'
<1> SUFFICES ASSUME Inv, NameInv, [Next]_vars PROVE NameInv'
  OBVIOUS
<1>1. ASSUME NEW q \in Queries, Receive(q)
      PROVE  NameInv'
  <2>1. q.ids \in Seq(Ids)
    BY GraphAssumption
  <2>2. turn'.q.ids = q.ids /\ pc' = "retrieve_memory" /\ history' = history
    BY <1>1 DEF Receive, EmptyTurn
  <2> QED BY <2>1, <2>2 DEF NameInv, Answered
<1>2. CASE AgentRaises
  <2>1. turn'.q.ids = <<>> /\ pc' = "idle" /\ history' = history
    BY <1>2 DEF AgentRaises, NoTurn, EmptyTurn
  <2> QED BY <2>1 DEF NameInv, Answered
<1>3. CASE RetrieveMemory
  <2>1. PICK recent \in {WindowOf(history), <<>>} : turn' = [turn EXCEPT !.recent = recent]
    BY <1>3 DEF RetrieveMemory, WindowOf
  <2>2. turn'.recent = recent /\ turn'.q = turn.q
    BY <2>1 DEF Inv, Shape
  <2>3. pc' = "classify_intent" /\ history' = history
    BY <1>3 DEF RetrieveMemory
  <2> QED BY <2>1, <2>2, <2>3 DEF NameInv, Answered, WindowOf
<1>4. CASE Block
  <2>1. /\ turn'.payload.card = NoCard /\ turn'.q = turn.q /\ turn'.recent = turn.recent
    BY <1>4 DEF Block, Inv, Shape, Notice, Payload
  <2>2. pc = "classify_intent" /\ history' = history
    BY <1>4 DEF Block
  <2> QED BY <2>1, <2>2, NoCardFits DEF NameInv, WindowOf
<1>5. CASE ClassifyIntent
  <2>1. PICK intent \in Classified(turn.q) :
          turn' = [turn EXCEPT !.intent = intent] /\ pc' = NodeOf(intent)
    BY <1>5 DEF ClassifyIntent
  <2>2. pc' = "agent"
    BY <2>1, ClassifiedOK DEF Intents, NodeOf
  <2>3. turn'.q = turn.q /\ turn'.recent = turn.recent
    BY <2>1 DEF Inv, Shape
  <2>4. pc = "classify_intent" /\ history' = history
    BY <1>5 DEF ClassifyIntent
  <2> QED BY <2>2, <2>3, <2>4 DEF NameInv, Answered, WindowOf
<1>6. CASE RunAgent
  <2>1. PICK run \in Runs(turn.intent, turn.q, turn.recent) :
          turn' = [turn EXCEPT !.payload = run.payload, !.ran = run.ran]
    BY <1>6 DEF RunAgent
  <2>2. pc = "agent" /\ history' = history /\ turn.intent \in Intents
    BY <1>6 DEF RunAgent, Inv, RanInv
  <2>3. turn'.payload = run.payload /\ turn'.q = turn.q /\ turn'.recent = turn.recent
    BY <2>1 DEF Inv, Shape
  <2>4. Fits(run.payload.card, turn.q, turn.recent)
    BY <2>2, RunFits
  <2> QED BY <2>2, <2>3, <2>4 DEF NameInv, WindowOf
<1>7. CASE CheckHitl \/ LeaveText \/ AdaptPersona
  <2>1. turn'.payload = turn.payload /\ turn'.q = turn.q /\ turn'.recent = turn.recent
    BY <1>7 DEF CheckHitl, LeaveText, AdaptPersona, Inv, Shape
  <2>2. pc \in {"hitl_gate", "adapt_persona"} /\ history' = history
    BY <1>7 DEF CheckHitl, LeaveText, AdaptPersona
  <2> QED BY <2>1, <2>2 DEF NameInv, Answered, WindowOf
<1>8. CASE UNCHANGED vars
  BY <1>8 DEF vars, NameInv, Answered, WindowOf
<1> QED
  BY <1>1, <1>2, <1>3, <1>4, <1>5, <1>6, <1>7, <1>8, ReplyNames DEF Next

\* A proposal to change a ticket names the first id of the message, or else the
\* last one mentioned in the window of the conversation, in a message or in what
\* the cut to 300 characters leaves of a reply, whatever was mentioned
\* before (_last_ticket_id_from_history): for any conversation and any window.
THEOREM CardsAlwaysNameTheirTicket == Spec => []CardsNameTheirTicket
<1>1. ASSUME NameInv
      PROVE  CardsNameTheirTicket
  <2> DEFINE target == turn.payload.card.target
             named == FirstOf(turn.q.ids, Ids)
  <2> SUFFICES ASSUME Holding, turn.payload.card.action \in TicketWrites
               PROVE  IF named # NoId THEN target = named
                      ELSE \E i \in DOMAIN history :
                             /\ Len(history) - i < Window
                             /\ target \in Range(history[i].query) \cup Range(history[i].reply)
                             /\ \A j \in i + 1..Len(history) : MentionOf(history[j], Ids) = NoId
    BY DEF CardsNameTheirTicket
  <2>1. /\ target = Subject(turn.q, turn.recent, Ids) /\ target # NoId
        /\ turn.recent \in {WindowOf(history), <<>>}
    BY <1>1 DEF NameInv, Holding, Replying, Answered, Fits
  <2>2. CASE named # NoId
    BY <2>1, <2>2 DEF Subject
  <2>3. CASE named = NoId
    <3>1. target = LastMention(turn.recent, Ids)
      BY <2>1, <2>3 DEF Subject
    <3>2. LastMention(<<>>, Ids) = NoId
      BY DEF LastMention
    <3>3. LastMention(WindowOf(history), Ids) # NoId /\ target = LastMention(WindowOf(history), Ids)
      BY <2>1, <3>1, <3>2
    <3>4. PICK i \in DOMAIN history :
            /\ Len(history) - i < Window
            /\ LastMention(WindowOf(history), Ids) = MentionOf(history[i], Ids)
            /\ MentionOf(history[i], Ids) # NoId
            /\ \A j \in i + 1..Len(history) : MentionOf(history[j], Ids) = NoId
      BY <1>1, <3>3, LastOfWindow DEF NameInv
    <3>5. target \in Range(history[i].query) \cup Range(history[i].reply)
      BY <1>1, <3>3, <3>4, MentionIsNamed DEF NameInv
    <3> QED BY <2>3, <3>4, <3>5
  <2> QED BY <2>2, <2>3
<1>2. NameInv => CardsNameTheirTicket
  BY <1>1
<1>3. Inv /\ NameInv /\ [Next]_vars => NameInv'
  BY NameStep
<1> QED BY NameInit, Always, <1>2, <1>3, PTL DEF Spec

=============================================================================

---------------------------- MODULE PRReviewAgent ----------------------------
(***************************************************************************)
(* agents/pr_review_agent.py: lists the open pull requests, or reviews one *)
(* and proposes to approve it, to request changes or to assign a reviewer. *)
(***************************************************************************)
EXTENDS AgentPayload

\* GitHub's answer to _fetch_prs: the open pull requests and the reviewer each
\* one has; empty when the calls fail or return nothing.
OpenPrs == UNION { [S -> People \cup {NoName}] : S \in SUBSET Prs }

GithubSource(open) == IF DOMAIN open = {} THEN {} ELSE {"github_live"}

PrList(open) ==
    LET list == IF DOMAIN open = {} THEN Notice(0, {})
                ELSE Live(Payload("answer", 100, {"github_live"}, FALSE, TRUE))
    IN  { Mentions(list, s) : s \in {<<>>} \cup { <<p>> : p \in DOMAIN open } }

\* Version policy and coding standards: the confidence is that of the first.
TwoRetrievals == Retrievals \cup {[chunks |-> TRUE, confidence |-> 0]}

\* The review the LLM writes: which PR it is about and whom it suggests.  The
\* code takes both from the JSON without comparing them with what it asked.
NoReview == [pr |-> "unreadable", reviewer |-> NoName]
Reviews == {NoReview} \cup [pr : Prs \cup {NoId}, reviewer : People \cup {NoName}]

\* review_data after the fallback for a missing review ("N/A" when there is no
\* PR at all) and the repairs of an absent number and reviewer.
Repaired(review, open, primary, named) ==
    LET pr == IF review = NoReview
              THEN IF primary = NoId THEN "N/A" ELSE primary
              ELSE IF review.pr = NoId THEN primary ELSE review.pr
        suggested == IF review = NoReview THEN NoName ELSE review.reviewer
        has == IF pr \in DOMAIN open THEN open[pr]
               ELSE IF primary = NoId THEN NoName ELSE open[primary]
    IN  [ pr |-> pr,
          reviewer |-> IF named # NoName THEN named
                       ELSE IF suggested # NoName THEN suggested ELSE has,
          current |-> has ]

\* A reviewer card needs somebody who is not yet the reviewer and whom GitHub
\* does not say to be no collaborator (an error lets the name pass).
ReviewerCard(review, collaborator) ==
    /\ review.reviewer # NoName
    /\ review.reviewer # review.current
    /\ collaborator # "no"

ReviewReply(q, r, open, review, collaborator) ==
    LET action == CASE "approve" \in q.words /\ review.pr # NoId -> "approve_pr"
                    [] "approve" \notin q.words /\ "reject" \in q.words
                         /\ review.pr # NoId -> "reject_pr"
                    [] OTHER -> "assign_reviewer"
        reply == [ Payload("answer", r.confidence,
                           KbSources(r) \cup GithubSource(open), r.chunks, TRUE)
                     EXCEPT !.ids = <<review.pr>>, !.live = DOMAIN open # {} ]
    IN  IF action # "assign_reviewer" \/ ReviewerCard(review, collaborator)
        THEN [reply EXCEPT !.kind = "card",
                           !.card = Card(action, review.pr, review.reviewer)]
        ELSE reply

Reviewed(q, open, primary) ==
    { ReviewReply(q, r, open, Repaired(review, open, primary, q.reviewer), c) :
        r \in TwoRetrievals, review \in Reviews, c \in {"yes", "no", "error"} }

\* A list for a broad question; a question back for an action on one of several;
\* a review of the one that is meant, if it is open.
Specific(q) == q.words \cap {"approve", "reject"} # {} \/ q.reviewer # NoName

PrReplies(q, target, open) ==
    CASE target = NoId /\ ~Specific(q) -> PrList(open)
      [] target = NoId /\ Specific(q) /\ Cardinality(DOMAIN open) > 1 ->
           {Notice(0, {"github_live"})}
      [] target # NoId /\ target \notin DOMAIN open ->
           {Mentions(Notice(0, {"github_live"}), <<target>>)}
      [] target # NoId /\ target \in DOMAIN open ->
           Reviewed(q, [p \in {target} |-> open[p]], target)
      [] target = NoId /\ Specific(q) /\ Cardinality(DOMAIN open) <= 1 ->
           Reviewed(q, open, IF DOMAIN open = {} THEN NoId
                             ELSE CHOOSE p \in DOMAIN open : TRUE)

RunPrReview(q, turns) ==
    {Raised} \cup UNION { PrReplies(q, Subject(q, turns, Prs), open) : open \in OpenPrs }

=============================================================================

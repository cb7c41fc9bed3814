----------------------------- MODULE MCChatGraph -----------------------------
\* The queries of the model-checked session.
EXTENDS ChatGraph

Query(ids, words, named, reviewer) ==
    [ids |-> ids, words |-> words, named |-> named, reviewer |-> reviewer]

MCTickets == {"T1", "T2"}
MCPrs == {"P1", "P2"}
MCPeople == {"bob"}
MCStrangers == {"eve"}
MCScores == {10, 30, 60}
MCReads == {"jira_get", "slack_read"}
MCDisabled == {"slack_read"}
MCWrites == {"jira_create"}

\* A question, an assignment and a comment that name no ticket, an edit, a
\* deassignment, an approval and a Slack message.
MCQueries ==
    { Query(<<"T1">>, {"past", "list"}, "nobody", "nobody"),
      Query(<<>>, {"ticket", "assign"}, "eve", "nobody"),
      Query(<<>>, {"comment", "text"}, "nobody", "bob"),
      Query(<<"T2", "T1">>, {"edit", "from"}, "nobody", "nobody"),
      Query(<<>>, {"deassign", "risk"}, "nobody", "nobody"),
      Query(<<"P1">>, {"pr_review", "approve"}, "nobody", "nobody"),
      Query(<<>>, {"notify", "colon", "now"}, "nobody", "nobody") }

\* Two tickets mentioned one after the other, by the user or by a reply; a
\* proposal's turn mentions nothing.
Said(query, reply) == [query |-> query, reply |-> reply]
MCPast ==
    { <<>>,
      <<Said(<<"T1">>, <<"T1">>), Said(<<>>, <<"T2">>)>>,
      <<Said(<<"T2">>, <<"T1">>), Said(<<"P1">>, <<>>), Said(<<>>, <<>>)>> }
=============================================================================

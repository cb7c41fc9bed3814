---------------------------- MODULE ToolGathering ----------------------------
(***************************************************************************)
(* mcp_client/tool_use.py: the autonomous loop in which the LLM asks for   *)
(* tools until it has what it needs.  The loop hands it the read tools     *)
(* that no administrator disabled and runs only tools it handed out.       *)
(***************************************************************************)
EXTENDS AgentPayload

CONSTANTS Reads,      \* tools without a write verb in their name
          Writes,     \* tools with one (is_write_tool)
          Disabled    \* tools switched off in the admin page

\* Wrong on purpose: writes are offered too.
OfferedAll(reached) == IF reached THEN (Reads \cup Writes) \ Disabled ELSE {}

\* get_mcp_tools: none when the servers cannot be reached.
Offered(reached) == IF reached THEN Reads \ Disabled ELSE {}

\* What a call gives: data; {"error": ...}, a normal result by which a server
\* reports that its service failed; or an exception.
Calls == [tool : Reads \cup Writes, gave : {"data", "error", "exception"}]

\* One request of the model: a tool it was not given is answered with
\* "unknown tool", another one runs and may raise.
Ran(call, tools) == call.tool \in tools
CameBack(call) == call.gave # "exception"
Possible(call, tools) == CameBack(call) => Ran(call, tools)

\* The requests of all iterations; the loop stops when the model asks for
\* nothing, fails, or has used its iterations.  Without tools a classifier
\* decides whether the question needed any; with tools, live data counts as
\* unavailable when there were requests and all raised: a server's error text
\* is a result like any other here.
GatherViaTools(reached) ==
    LET tools == Offered(reached)
        Result(calls) ==
            [ calls |-> calls, ran |-> { c.tool : c \in { d \in calls : Ran(d, tools) } },
              unavailable |-> calls # {} /\ \A c \in calls : ~CameBack(c) ]
    IN  IF tools = {}
        THEN [calls : {{}}, ran : {{}}, unavailable : BOOLEAN]
        ELSE { Result(calls) : calls \in { C \in SUBSET Calls :
                                 Cardinality(C) <= 2 /\ \A c \in C : Possible(c, tools) } }

Gatherings == UNION { GatherViaTools(reached) : reached \in BOOLEAN }

NothingGathered == [calls |-> {}, ran |-> {}, unavailable |-> FALSE]
IsEmpty(gathered) == gathered.calls = {}
HasData(gathered) == \E c \in gathered.calls : c.gave = "data"

=============================================================================

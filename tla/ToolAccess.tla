----------------------------- MODULE ToolAccess -----------------------------
(***************************************************************************)
(* The tool server's authorization (OAuthServer) and the assistant's       *)
(* client of that server (MCPClient) over one Redis (TokenStore).          *)
(***************************************************************************)
EXTENDS OAuthServer, MCPClient

CONSTANT MaxEvents   \* bound: requests, admin changes and faults

ASSUME AccessAssumption == MaxEvents \in Nat

VARIABLE begun       \* how many of these there were

vars == <<storeVars, serverVars, clientVars, begun>>

TypeOK == StoreTypeOK /\ ServerTypeOK /\ ClientTypeOK /\ begun \in 0..MaxEvents

Init == StoreInit /\ ServerInit /\ ClientInit /\ begun = 0

\* What comes from outside is counted.
Event == begun < MaxEvents /\ begun' = begun + 1

HostBegins ==
    \/ \E f \in Flows : Authorize(f)
    \/ \E p \in Posts, f \in Flows : Submit(p, f)
    \/ \E x \in Exchanges, h \in Hosts, p \in Posts : BeginExchange(x, h, p)
    \/ \E x, y \in Exchanges, h \in Hosts : BeginRefresh(x, h, y)

HostGoesOn ==
    \/ \E f \in Flows : AuthorizeSave(f)
    \/ \E p \in Posts : SubmitUnindex(p) \/ PutBack(p) \/ Grant(p)
    \/ \E x \in Exchanges : IssueAccess(x) \/ IssueRefresh(x) \/ UseUpCode(x) \/ Renew(x)

AssistantBegins ==
    \/ \E c \in Calls, t \in Tools \cup {None} : BeginCall(c, t)
    \/ \E s \in Servers : AddServer(s) \/ UpdateServer(s) \/ DeleteServer(s) \/ ToggleEnabled(s)
    \/ \E t \in Tools : ToggleTool(t)
    \/ Probe

AssistantGoesOn ==
    \E c \in Calls : ListTools(c) \/ Invoke(c) \/ Relist(c) \/ Retry(c)

Fault ==
    \/ GoDown \/ LoseTokens
    \/ \E n \in 1..issued : Age(n)

Expiry ==
    \/ \E f \in Flows : ExpirePending(f)
    \/ \E p \in Posts : ExpireCode(p)
    \/ \E x \in Exchanges : ExpireToken(x) \/ ExpireRefresh(x)

Next ==
    \/ Event /\ HostBegins /\ UNCHANGED clientVars
    \/ HostGoesOn /\ UNCHANGED <<clientVars, begun>>
    \/ Expiry /\ UNCHANGED <<serverVars, clientVars, begun>>
    \/ Event /\ (AssistantBegins \/ Fault) /\ UNCHANGED serverVars
    \/ AssistantGoesOn /\ UNCHANGED <<serverVars, begun>>
    \/ (ComeUp \/ \E n \in 1..issued : ExpireService(n)) /\ UNCHANGED <<serverVars, begun>>

Spec == Init /\ [][Next]_vars
=============================================================================

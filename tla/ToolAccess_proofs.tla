-------------------------- MODULE ToolAccess_proofs --------------------------
(***************************************************************************)
(* Proofs about ToolAccess, for any hosts, requests, servers, tools and    *)
(* calls and any number of events: the consents and tokens of the          *)
(* authorization server, and the list and the token of the client.         *)
(***************************************************************************)
EXTENDS ToolAccess, TLAPS

-----------------------------------------------------------------------------
(* The authorization server.                                               *)

\* Types of what the server keeps; of the tokens only those of hosts matter.
ServerTypes ==
    /\ ServerTypeOK
    /\ pending \subseteq Flows /\ index \in [Hosts -> Flows \cup {None}]
    /\ codes \subseteq Posts /\ refresh \subseteq Exchanges

\* A POST that took its consent request out and did not put it back.
Took(p) == post[p].st \in {"popped", "wrong", "right", "granted"}

\* A request is open, or one POST has it, or it was not saved yet.
ConsentInv ==
    /\ \A f \in Flows : flow[f].st = "asked" => flow[f].req \in Flows
    /\ \A r \in pending : flow[r].st = "asked"
    /\ \A p \in Posts : Took(p) => /\ post[p].req \in Flows \ pending
                                   /\ flow[post[p].req].st = "asked"
    /\ \A p, q \in Posts : Took(p) /\ Took(q) /\ post[p].req = post[q].req => p = q

\* The index of a host names a request of that host.
IndexInv ==
    /\ \A h \in Hosts : index[h] # None => HostOf[index[h]] = h
    /\ IndexNamesOpenConsent

\* Tokens come from requests that were let through, and these from a consent.
GrantInv ==
    /\ \A x \in Exchanges : x \in tokens \/ x \in refresh =>
                                exchange[x].st \in {"access", "issued", "done"}
    /\ \A x \in Exchanges :
           exchange[x].st \in {"code", "access", "issued", "refresh", "done"} =>
               Consented(exchange[x].host)

ServerInv == ServerTypes /\ ConsentInv /\ IndexInv /\ GrantInv

LEMMA ServerInvSuffices ==
    ServerInv => OneCodePerConsent /\ IndexNamesOpenConsent /\ TokensAreConsented
BY DEF ServerInv, ConsentInv, IndexInv, GrantInv, Took, OneCodePerConsent, TokensAreConsented

\* A step that leaves the answered forms alone leaves every consent.
LEMMA ConsentsStay ==
    ASSUME NEW p \in Posts, NEW rec, post' = [post EXCEPT ![p] = rec],
           ServerTypes, post[p].st # "granted", NEW h, Consented(h)
    PROVE  Consented(h)'
BY DEF Consented, HostOfCode, ServerTypes, ServerTypeOK

LEMMA AuthorizeKeeps ==
    ASSUME ServerInv, NEW f \in Flows, Authorize(f) \/ AuthorizeSave(f)
    PROVE  ServerInv'
<1> USE TokenAssumption DEF ServerInv
<1>1. CASE Authorize(f)
    <2>1. ServerTypes'
        BY <1>1 DEF Authorize, ServerTypes, ServerTypeOK, storeVars, FlowStates
    <2>2. ConsentInv'
        BY <1>1 DEF Authorize, ServerTypes, ServerTypeOK, ConsentInv, Took, storeVars, FlowStates
    <2>3. IndexInv' /\ GrantInv'
        BY <1>1 DEF Authorize, IndexInv, IndexNamesOpenConsent, GrantInv, Consented,
                    HostOfCode, storeVars
    <2> QED
        BY <2>1, <2>2, <2>3
<1>2. CASE AuthorizeSave(f)
    <2>1. ServerTypes'
        BY <1>2 DEF AuthorizeSave, SavePending, ServerTypes, ServerTypeOK, FlowStates
    <2>2. ConsentInv'
        BY <1>2 DEF AuthorizeSave, SavePending, ServerTypes, ServerTypeOK, ConsentInv, Took, FlowStates
    <2>3. IndexInv'
        BY <1>2 DEF AuthorizeSave, SavePending, ServerTypes, IndexInv, IndexNamesOpenConsent
    <2>4. GrantInv'
        BY <1>2 DEF AuthorizeSave, SavePending, GrantInv, Consented, HostOfCode
    <2> QED
        BY <2>1, <2>2, <2>3, <2>4
<1> QED
    BY <1>1, <1>2

LEMMA SubmitKeeps ==
    ASSUME ServerInv, NEW p \in Posts, NEW f \in Flows, Submit(p, f)
    PROVE  ServerInv'
<1> USE TokenAssumption DEF ServerInv
<1> DEFINE r == flow[f].req
<1>0. /\ post[p].st = "idle" /\ r \in Flows /\ UNCHANGED <<flow, exchange>>
      /\ UNCHANGED <<index, codes, refresh, tokens>>
    BY DEF Submit, ConsentInv, PopPending, storeVars
<1>1. CASE r \in pending
    <2>0. /\ pending' = pending \ {r}
          /\ post' = [post EXCEPT ![p] = [st |-> "popped", req |-> r]]
        BY <1>1 DEF Submit, PopPending
    <2>1. ServerTypes'
        BY <1>0, <2>0 DEF ServerTypes, ServerTypeOK, PostStates
    <2>2. ConsentInv'
        BY <1>0, <1>1, <2>0 DEF ServerTypes, ServerTypeOK, ConsentInv, Took
    <2>3. IndexInv'
        BY <1>0, <2>0 DEF ServerTypes, ServerTypeOK, IndexInv, IndexNamesOpenConsent
    <2>4. GrantInv'
        BY <1>0, <2>0, ConsentsStay DEF ServerTypes, ServerTypeOK, GrantInv
    <2> QED
        BY <2>1, <2>2, <2>3, <2>4
<1>2. CASE r \notin pending
    <2>0. pending' = pending /\ post' = [post EXCEPT ![p] = [st |-> "refused", req |-> r]]
        BY <1>2 DEF Submit, storeVars
    <2>1. ServerTypes'
        BY <1>0, <2>0 DEF ServerTypes, ServerTypeOK, PostStates
    <2>2. ConsentInv'
        BY <1>0, <2>0 DEF ServerTypes, ServerTypeOK, ConsentInv, Took
    <2>3. IndexInv'
        BY <1>0, <2>0 DEF ServerTypes, ServerTypeOK, IndexInv, IndexNamesOpenConsent
    <2>4. GrantInv'
        BY <1>0, <2>0, ConsentsStay DEF ServerTypes, ServerTypeOK, GrantInv
    <2> QED
        BY <2>1, <2>2, <2>3, <2>4
<1> QED
    BY <1>1, <1>2

\* A new state of a POST as a new record.
LEMMA Restated ==
    ASSUME ServerTypes, NEW p \in Posts, NEW to
    PROVE  [post EXCEPT ![p].st = to] = [post EXCEPT ![p] = [st |-> to, req |-> post[p].req]]
<1>1. post[p] \in [st : PostStates, req : Flows \cup {None}]
    BY DEF ServerTypes, ServerTypeOK
<1>2. [post[p] EXCEPT !.st = to] = [st |-> to, req |-> post[p].req]
    BY <1>1
<1> QED
    BY <1>2

\* SubmitUnindex, PutBack and Grant move a POST that took its request on.
LEMMA AnswerKeeps ==
    ASSUME ServerInv, NEW p \in Posts, SubmitUnindex(p) \/ PutBack(p) \/ Grant(p)
    PROVE  ServerInv'
<1> USE TokenAssumption DEF ServerInv
<1> DEFINE r == post[p].req
<1>0. r \in Flows /\ r \notin pending /\ Took(p) /\ UNCHANGED <<flow, exchange>>
    BY DEF ConsentInv, Took, SubmitUnindex, PutBack, Grant
<1>1. CASE SubmitUnindex(p)
    <2>0. PICK pin \in {"right", "wrong"} : post' = [post EXCEPT ![p].st = pin]
        BY <1>1 DEF SubmitUnindex
    <2>1. post' = [post EXCEPT ![p] = [st |-> pin, req |-> r]]
        BY <2>0, Restated
    <2>2. post[p].st = "popped"
        BY <1>1 DEF SubmitUnindex
    <2>3. index' = [index EXCEPT ![HostOf[r]] = None] /\ UNCHANGED <<pending, codes, refresh, tokens>>
        BY <1>1 DEF SubmitUnindex, DropIndex
    <2>4. ServerTypes'
        BY <1>0, <2>1, <2>3 DEF ServerTypes, ServerTypeOK, PostStates
    <2>5. ConsentInv'
        BY <1>0, <2>1, <2>3 DEF ServerTypes, ServerTypeOK, ConsentInv, Took
    <2>6. IndexInv'
        <3>1. \A h \in Hosts : index'[h] # None => index'[h] = index[h] /\ index[h] # r
            BY <1>0, <2>3 DEF ServerTypes, IndexInv
        <3>2. \A q \in Posts : q # p => post'[q] = post[q]
            BY <2>1 DEF ServerTypes, ServerTypeOK
        <3> QED
            BY <2>3, <3>1, <3>2 DEF IndexInv, IndexNamesOpenConsent
    <2>7. GrantInv'
        BY <1>0, <2>1, <2>2, <2>3, ConsentsStay DEF ServerTypes, ServerTypeOK, GrantInv
    <2> QED
        BY <2>4, <2>5, <2>6, <2>7
<1>2. CASE PutBack(p)
    <2>1. post' = [post EXCEPT ![p] = [st |-> "retry", req |-> r]] /\ post[p].st = "wrong"
        BY <1>2, Restated DEF PutBack
    <2>2. /\ pending' = pending \cup {r} /\ index' = [index EXCEPT ![HostOf[r]] = r]
          /\ UNCHANGED <<codes, refresh, tokens>>
        BY <1>2 DEF PutBack, SavePending
    <2>3. ServerTypes'
        BY <1>0, <2>1, <2>2 DEF ServerTypes, ServerTypeOK, PostStates
    <2>4. ConsentInv'
        BY <1>0, <2>1, <2>2 DEF ServerTypes, ServerTypeOK, ConsentInv, Took
    <2>5. IndexInv'
        BY <1>0, <2>1, <2>2 DEF ServerTypes, ServerTypeOK, IndexInv, IndexNamesOpenConsent
    <2>6. GrantInv'
        BY <1>0, <2>1, <2>2, ConsentsStay DEF ServerTypes, ServerTypeOK, GrantInv
    <2> QED
        BY <2>3, <2>4, <2>5, <2>6
<1>3. CASE Grant(p)
    <2>1. post' = [post EXCEPT ![p] = [st |-> "granted", req |-> r]] /\ post[p].st = "right"
        BY <1>3, Restated DEF Grant
    <2>2. codes' = codes \cup {p} /\ UNCHANGED <<pending, index, refresh, tokens>>
        BY <1>3 DEF Grant, SaveCode
    <2>3. ServerTypes'
        BY <1>0, <2>1, <2>2 DEF ServerTypes, ServerTypeOK, PostStates
    <2>4. ConsentInv'
        BY <1>0, <2>1, <2>2 DEF ServerTypes, ServerTypeOK, ConsentInv, Took
    <2>5. IndexInv'
        BY <1>0, <2>1, <2>2 DEF ServerTypes, ServerTypeOK, IndexInv, IndexNamesOpenConsent
    <2>6. GrantInv'
        BY <1>0, <2>1, <2>2, ConsentsStay DEF ServerTypes, ServerTypeOK, GrantInv
    <2> QED
        BY <2>3, <2>4, <2>5, <2>6
<1> QED
    BY <1>1, <1>2, <1>3

\* A token request changes its own record, and adds its own tokens.
LEMMA ExchangeKeeps ==
    ASSUME ServerInv, NEW x \in Exchanges,
           NEW rec \in [ st : ExchangeStates, host : Hosts \cup {None}, code : Posts \cup {None} ],
           exchange' = [exchange EXCEPT ![x] = rec],
           rec.st \in {"code", "access", "issued", "refresh", "done"} => Consented(rec.host),
           UNCHANGED <<pending, index, flow, post>>, codes' \subseteq codes,
           tokens' \in {tokens, tokens \cup {x}}, refresh' \in {refresh, refresh \cup {x}},
           x \in tokens' \/ x \in refresh' => rec.st \in {"access", "issued", "done"}
    PROVE  ServerInv'
<1> USE DEF ServerInv
<1>1. ServerTypes'
    BY DEF ServerTypes, ServerTypeOK
<1>2. ConsentInv'
    BY DEF ConsentInv, Took
<1>3. IndexInv'
    BY DEF IndexInv, IndexNamesOpenConsent
<1>4. \A h : Consented(h) <=> Consented(h)'
    BY DEF Consented, HostOfCode
<1>5. GrantInv'
    BY <1>4 DEF GrantInv, ServerTypes, ServerTypeOK
<1> QED
    BY <1>1, <1>2, <1>3, <1>5

LEMMA BeginExchangeKeeps ==
    ASSUME ServerInv, NEW x \in Exchanges, NEW h \in Hosts, NEW p \in Posts,
           BeginExchange(x, h, p)
    PROVE  ServerInv'
<1> DEFINE rec == IF LoadsCode(p, h) THEN [st |-> "code", host |-> h, code |-> p]
                  ELSE [st |-> "refused", host |-> h, code |-> None]
<1>1. rec \in [ st : ExchangeStates, host : Hosts \cup {None}, code : Posts \cup {None} ]
    BY DEF ExchangeStates
<1>2. rec.st = "code" => Consented(rec.host)
    BY DEF LoadsCode, BeginExchange, Consented
<1>3. rec.st \in {"code", "refused"} /\ exchange' = [exchange EXCEPT ![x] = rec]
    BY DEF BeginExchange
<1>4. exchange[x].st = "idle" /\ UNCHANGED <<storeVars, flow, post>>
    BY DEF BeginExchange
<1>5. x \notin tokens /\ x \notin refresh
    BY <1>4 DEF ServerInv, GrantInv
<1> HIDE DEF rec
<1> QED
    BY <1>1, <1>2, <1>3, <1>4, <1>5, ExchangeKeeps DEF storeVars

LEMMA BeginRefreshKeeps ==
    ASSUME ServerInv, NEW x \in Exchanges, NEW h \in Hosts, NEW y \in Exchanges,
           BeginRefresh(x, h, y)
    PROVE  ServerInv'
<1> DEFINE rec == [ st |-> IF y \in refresh /\ exchange[y].host = h
                           THEN "refresh" ELSE "refused",
                    host |-> h, code |-> None ]
<1>1. rec \in [ st : ExchangeStates, host : Hosts \cup {None}, code : Posts \cup {None} ]
    BY DEF ExchangeStates
<1>2. rec.st = "refresh" => Consented(rec.host)
    BY DEF BeginRefresh, ServerInv, GrantInv
<1>3. rec.st \in {"refresh", "refused"} /\ exchange' = [exchange EXCEPT ![x] = rec]
    BY DEF BeginRefresh
<1>4. exchange[x].st = "idle" /\ UNCHANGED <<storeVars, flow, post>>
    BY DEF BeginRefresh
<1>5. x \notin tokens /\ x \notin refresh
    BY <1>4 DEF ServerInv, GrantInv
<1> HIDE DEF rec
<1> QED
    BY <1>1, <1>2, <1>3, <1>4, <1>5, ExchangeKeeps DEF storeVars

\* IssueAccess, IssueRefresh, UseUpCode and Renew.
LEMMA IssueKeeps ==
    ASSUME ServerInv, NEW x \in Exchanges,
           IssueAccess(x) \/ IssueRefresh(x) \/ UseUpCode(x) \/ Renew(x)
    PROVE  ServerInv'
<1> DEFINE to == exchange'[x].st
<1> DEFINE rec == [exchange[x] EXCEPT !.st = to]
<1>0. exchange[x] \in [ st : ExchangeStates, host : Hosts \cup {None}, code : Posts \cup {None} ]
    BY DEF ServerInv, ServerTypes, ServerTypeOK
<1>1. /\ exchange[x].st \in {"code", "access", "issued", "refresh"}
      /\ to \in {"access", "issued", "done"}
      /\ exchange' = [exchange EXCEPT ![x] = rec]
    BY <1>0 DEF IssueAccess, IssueRefresh, UseUpCode, Renew, ServerInv, ServerTypes, ServerTypeOK
<1>2. rec \in [ st : ExchangeStates, host : Hosts \cup {None}, code : Posts \cup {None} ]
    BY <1>0, <1>1 DEF ExchangeStates
<1>3. rec.host = exchange[x].host /\ rec.st = to
    BY <1>0
<1>4. Consented(rec.host)
    BY <1>1, <1>3 DEF ServerInv, GrantInv
<1>5. /\ UNCHANGED <<pending, index, flow, post>> /\ codes' \subseteq codes
      /\ tokens' \in {tokens, tokens \cup {x}} /\ refresh' \in {refresh, refresh \cup {x}}
    BY DEF IssueAccess, IssueRefresh, UseUpCode, Renew, SaveToken, SaveRefresh, DeleteCode
<1> HIDE DEF rec, to
<1> QED
    BY <1>1, <1>2, <1>3, <1>4, <1>5, ExchangeKeeps

\* Keys that expire, all that are lost, and tokens of the service.
LEMMA LossKeeps ==
    ASSUME ServerInv, UNCHANGED serverVars,
           \/ \E f \in Flows : ExpirePending(f)
           \/ /\ UNCHANGED <<pending, index>> /\ codes' \subseteq codes
              /\ refresh' \subseteq refresh /\ tokens' \cap Exchanges \subseteq tokens
           \/ Wipe
    PROVE  ServerInv'
<1> USE TokenAssumption DEF ServerInv, serverVars
<1>1. ServerTypes'
    BY DEF ServerTypes, ServerTypeOK, ExpirePending, Wipe
<1>2. ConsentInv'
    BY DEF ServerTypes, ConsentInv, Took, ExpirePending, Wipe
<1>3. IndexInv'
    BY DEF ServerTypes, IndexInv, IndexNamesOpenConsent, ExpirePending, Wipe
<1>4. GrantInv'
    BY DEF ServerTypes, GrantInv, Consented, HostOfCode, ExpirePending, Wipe
<1> QED
    BY <1>1, <1>2, <1>3, <1>4

-----------------------------------------------------------------------------
(* The client.                                                             *)

ClientT == [servers : SUBSET Servers, token : Token, built : BOOLEAN]
ListT == [servers : SUBSET Servers, token : Token, known : BOOLEAN, fresh : BOOLEAN]
CallT == [ st : CallStates, tool : Tools \cup {None}, autonomous : BOOLEAN, from : ClientT,
           token : Token, hit : BOOLEAN, steady : BOOLEAN, fresh : BOOLEAN ]

TokenTypes == issued \in Nat /\ tokens \subseteq Exchanges \cup Nat

\* A client has the servers that are enabled: a change of them drops it.
ClientOK(k) == k.built => k.servers = Handed
ListOK(l) == l.known /\ l.fresh => l.servers = Handed

\* What is known of a call, ts being the tokens the server accepts: after a
\* refused token it goes on with one that was issued for it.
CallOK(r, ts) ==
    /\ r.st \in {"listing", "relisting"} /\ r.fresh => r.from.servers = Handed
    /\ r.steady /\ r.st \in {"listing", "invoking", "relisting", "retrying"} => up
    /\ r.st = "listing" => ~r.hit
    /\ r.st = "relisting" /\ r.steady /\ NeedsToken =>
           r.from.token \in ts \cap Nat /\ r.from.servers = Handed
    /\ r.st = "retrying" /\ r.steady /\ NeedsToken /\ ServerOf[r.tool] = Home =>
           r.token \in ts \cap Nat
    /\ r.st = "denied" /\ r.steady /\ NeedsToken => ~r.hit

ClientInv ==
    /\ ClientTypeOK /\ TokenTypes
    /\ ClientOK(client) /\ ListOK(list)
    /\ \A c \in Calls : CallOK(call[c], tokens)

LEMMA ClientInvSuffices == ClientInv => ListFollowsConfig /\ HealsWhenListed
BY DEF ClientInv, ListOK, CallOK, ListFollowsConfig, HealsWhenListed

\* A token that was served is a number the server accepts.
LEMMA ServedGives ==
    ASSUME TokenTypes, NEW token \in Token, Served(token)
    PROVE  /\ TokenTypes' /\ TokenAfter(token) \in Token
           /\ UNCHANGED <<pending, index, codes, refresh>>
           /\ tokens \subseteq tokens' /\ tokens' \cap Exchanges \subseteq tokens
           /\ Fetches(token) => TokenAfter(token) \in tokens' \cap Nat
BY TokenAssumption DEF TokenTypes, Served, TokenAfter, Token, storeVars

\* What _get_client leaves: a client with the enabled servers and, when there
\* was none and a token is needed, a valid token.
LEMMA GetClientGives ==
    ASSUME TokenTypes, NEW k \in ClientT, NEW l \in ListT, NEW token \in Token,
           GetClient(k, l, token), ClientOK(k), ListOK(l)
    PROVE  /\ client' \in ClientT /\ list' \in ListT /\ svc' \in Token /\ TokenTypes'
           /\ UNCHANGED <<pending, index, codes, refresh>>
           /\ tokens \subseteq tokens' /\ tokens' \cap Exchanges \subseteq tokens
           /\ client'.servers = Handed /\ ClientOK(client') /\ ListOK(list')
           /\ ~k.built /\ token = None /\ NeedsToken /\ up => client'.token \in tokens' \cap Nat
<1>0. NoList \in ListT /\ ListOK(NoList) /\ Handed \subseteq Servers /\ None \in Token
    BY DEF NoList, ListT, ListOK, Handed, Token
<1>1. list' \in ListT /\ ListOK(list')
    BY <1>0 DEF GetClient, ListAfter
<1>2. CASE Rebuilds(k, token)
    <2>1. Served(token) /\ svc' = TokenAfter(token) /\ client' = Built(token)
        BY <1>2 DEF GetClient, ClientAfter
    <2>2. Built(token) \in ClientT /\ Built(token).servers = Handed
        BY <1>0, <2>1, ServedGives DEF Built, ClientT
    <2>3. NeedsToken => Built(token).token = TokenAfter(token)
        BY DEF Built
    <2>4. token = None /\ NeedsToken /\ up => Fetches(token)
        BY DEF Fetches, Cached
    <2> QED
        BY <1>1, <2>1, <2>2, <2>3, <2>4, ServedGives DEF ClientOK
<1>3. CASE ~Rebuilds(k, token)
    <2>1. client' = k /\ svc' = token /\ UNCHANGED storeVars /\ k.built
        BY <1>3 DEF GetClient, ClientAfter, Rebuilds
    <2> QED
        BY <1>1, <2>1 DEF ClientOK, storeVars, TokenTypes
<1> QED
    BY <1>2, <1>3

LEMMA ListedGives ==
    ASSUME NEW r \in CallT, NEW servers, NEW token \in Token,
           NEW next \in Listed(r, servers, token)
    PROVE  next \in CallT /\ next.st \in {"invoking", "missing"} /\ next.steady = r.steady
<1>1. Catalogue(servers) \subseteq Tools
    BY DEF Catalogue
<1>2. CASE next = [r EXCEPT !.st = "missing"]
    BY <1>2 DEF CallT, CallStates
<1>3. CASE next = [r EXCEPT !.st = "invoking", !.token = token]
    BY <1>3 DEF CallT, CallStates
<1>4. ASSUME NEW t \in Tools, next = [r EXCEPT !.st = "invoking", !.tool = t, !.token = token]
      PROVE  next \in CallT /\ next.st = "invoking" /\ next.steady = r.steady
    BY <1>4 DEF CallT, CallStates
<1>5. \/ next = [r EXCEPT !.st = "missing"]
      \/ next = [r EXCEPT !.st = "invoking", !.token = token]
      \/ \E t \in Tools : next = [r EXCEPT !.st = "invoking", !.tool = t, !.token = token]
    BY <1>1 DEF Listed, Picked
<1> QED
    BY <1>2, <1>3, <1>4, <1>5

\* A call changes its own record and the globals.
LEMMA CallKeeps ==
    ASSUME ClientInv, NEW c \in Calls, NEW rec \in CallT, call' = [call EXCEPT ![c] = rec],
           UNCHANGED <<up, yaml, aged>>, TokenTypes', tokens \subseteq tokens',
           svc' \in Token, client' \in ClientT, list' \in ListT,
           ClientOK(client'), ListOK(list'), CallOK(rec, tokens')
    PROVE  ClientInv'
<1>0. Handed' = Handed /\ NeedsToken' = NeedsToken
    BY DEF Handed, NeedsToken
<1>1. ClientTypeOK'
    BY DEF ClientInv, ClientTypeOK, ClientT, ListT, CallT
<1>2. ClientOK(client)' /\ ListOK(list)'
    BY <1>0 DEF ClientOK, ListOK
<1>3. ASSUME NEW d \in Calls PROVE CallOK(call[d], tokens)'
    <2>1. call'[d] = rec \/ call'[d] = call[d]
        BY DEF ClientInv, ClientTypeOK
    <2>2. CallOK(call[d], tokens')
        BY DEF ClientInv, CallOK
    <2>3. CallOK(call'[d], tokens')
        BY <2>1, <2>2
    <2> QED
        BY <1>0, <2>3 DEF CallOK
<1> QED
    BY <1>1, <1>2, <1>3 DEF ClientInv

\* What a step leaves of the keys of hosts.
HostKeysStay ==
    /\ UNCHANGED <<pending, index, codes, refresh>>
    /\ tokens' \cap Exchanges \subseteq tokens

LEMMA ClientTypes ==
    ClientInv => client \in ClientT /\ list \in ListT /\ svc \in Token
                 /\ call \in [Calls -> CallT] /\ TokenTypes /\ NoClient \in ClientT
                 /\ NoList \in ListT /\ None \in Token
BY DEF ClientInv, ClientTypeOK, ClientT, ListT, CallT, NoClient, NoList, Token

LEMMA BeginCallKeeps ==
    ASSUME ClientInv, NEW c \in Calls, NEW t \in Tools \cup {None}, BeginCall(c, t)
    PROVE  ClientInv' /\ HostKeysStay
<1> DEFINE first == Begun(c, t)
<1>1. GetClient(client, list, svc) /\ UNCHANGED <<up, yaml, aged>>
    BY DEF BeginCall
<1>2. /\ client' \in ClientT /\ list' \in ListT /\ svc' \in Token /\ TokenTypes'
      /\ HostKeysStay /\ tokens \subseteq tokens'
      /\ client'.servers = Handed /\ ClientOK(client') /\ ListOK(list')
    BY <1>1, GetClientGives, ClientTypes DEF ClientInv, HostKeysStay
<1>3. /\ first \in CallT /\ first.st = "listing" /\ first.from = client'
      /\ first.hit = list'.known /\ first.steady = up
    <2>1. list'.known \in BOOLEAN /\ up \in BOOLEAN /\ None \in Token
        BY <1>2, ClientTypes DEF ListT, ClientInv, ClientTypeOK
    <2> QED
        BY <1>2, <2>1 DEF Begun, NoCall, CallT, CallStates
<1>4. CASE list'.known
    <2>1. PICK next \in Listed(first, list'.servers, list'.token) :
              call' = [call EXCEPT ![c] = next]
        BY <1>4 DEF BeginCall
    <2>2. list'.token \in Token
        BY <1>2 DEF ListT
    <2>3. next \in CallT /\ next.st \in {"invoking", "missing"} /\ next.steady = first.steady
        BY <1>3, <2>2, ListedGives
    <2>4. CallOK(next, tokens')
        BY <1>3, <2>3 DEF CallOK
    <2> QED
        BY <1>1, <1>2, <2>1, <2>3, <2>4, CallKeeps
<1>5. CASE ~list'.known
    <2>1. call' = [call EXCEPT ![c] = first]
        BY <1>5 DEF BeginCall
    <2>2. CallOK(first, tokens')
        BY <1>2, <1>3, <1>5 DEF CallOK
    <2> HIDE DEF first
    <2> QED
        BY <1>1, <1>2, <1>3, <2>1, <2>2, CallKeeps
<1> QED
    BY <1>4, <1>5

\* The globals of a step that takes no token.
LEMMA QuietCall ==
    ASSUME ClientInv, NEW c \in Calls, NEW rec \in CallT, call' = [call EXCEPT ![c] = rec],
           UNCHANGED <<storeVars, up, yaml, svc, aged, client>>,
           list' \in ListT, ListOK(list'), CallOK(rec, tokens)
    PROVE  ClientInv' /\ HostKeysStay
<1>1. tokens' = tokens /\ TokenTypes' /\ HostKeysStay
    BY ClientTypes DEF storeVars, TokenTypes, HostKeysStay
<1>2. svc' \in Token /\ client' \in ClientT /\ ClientOK(client')
    BY ClientTypes DEF ClientInv
<1>3. CallOK(rec, tokens') /\ tokens \subseteq tokens'
    BY <1>1
<1> QED
    BY <1>1, <1>2, <1>3, CallKeeps

LEMMA FailsGives ==
    ASSUME ClientInv, NEW c \in Calls, NEW answer, Fails(c, answer)
    PROVE  \E rec \in CallT :
               /\ call' = [call EXCEPT ![c] = rec]
               /\ rec.st = IF answer = "down" THEN "failed" ELSE "denied"
               /\ rec.steady = call[c].steady /\ rec.hit = call[c].hit
<1> DEFINE to == IF answer = "down" THEN "failed" ELSE "denied"
<1> DEFINE rec == [call[c] EXCEPT !.st = to]
<1>1. call[c] \in CallT
    BY ClientTypes
<1>2. rec \in CallT /\ rec.st = to /\ rec.steady = call[c].steady /\ rec.hit = call[c].hit
    BY <1>1 DEF CallT, CallStates
<1>3. call' = [call EXCEPT ![c] = rec]
    BY DEF Fails
<1> HIDE DEF rec
<1> QED
    BY <1>2, <1>3

\* Writing the list of a call whose configuration is the current one.
LEMMA RememberGives ==
    ASSUME ClientInv, NEW c \in Calls, Remember(c), call[c].st \in {"listing", "relisting"}
    PROVE  list' \in ListT /\ ListOK(list')
<1>1. call[c] \in CallT /\ CallOK(call[c], tokens)
    BY ClientTypes DEF ClientInv
<1>2. call[c].from \in ClientT /\ call[c].fresh \in BOOLEAN
    BY <1>1 DEF CallT
<1>3. call[c].from.servers \in SUBSET Servers /\ call[c].from.token \in Token
    BY <1>2 DEF ClientT
<1> QED
    BY <1>1, <1>2, <1>3 DEF Remember, ListT, ListOK, CallOK

LEMMA ListToolsKeeps ==
    ASSUME ClientInv, NEW c \in Calls, ListTools(c)
    PROVE  ClientInv' /\ HostKeysStay
<1> DEFINE answer == Listing(call[c].from)
<1>0. /\ call[c].st = "listing" /\ call[c] \in CallT /\ CallOK(call[c], tokens)
      /\ UNCHANGED <<storeVars, up, yaml, svc, aged, client>>
    BY ClientTypes DEF ListTools, ClientInv
<1>1. CASE answer = "ok"
    <2>1. Remember(c)
        BY <1>1 DEF ListTools
    <2>2. PICK next \in Listed(call[c], call[c].from.servers, call[c].from.token) :
              call' = [call EXCEPT ![c] = next]
        BY <1>1 DEF ListTools
    <2>3. call[c].from.token \in Token
        BY <1>0 DEF CallT, ClientT
    <2>4. next \in CallT /\ next.st \in {"invoking", "missing"} /\ next.steady = call[c].steady
        BY <1>0, <2>3, ListedGives
    <2>5. CallOK(next, tokens)
        BY <1>0, <2>4 DEF CallOK
    <2> QED
        BY <1>0, <2>1, <2>2, <2>4, <2>5, RememberGives, QuietCall
<1>2. CASE answer # "ok"
    <2>1. Fails(c, answer) /\ list' = list
        BY <1>2 DEF ListTools
    <2>2. PICK rec \in CallT :
              /\ call' = [call EXCEPT ![c] = rec]
              /\ rec.st \in {"failed", "denied"} /\ rec.hit = call[c].hit
        BY <2>1, FailsGives
    <2>3. CallOK(rec, tokens)
        BY <1>0, <2>2 DEF CallOK
    <2> QED
        BY <1>0, <2>1, <2>2, <2>3, QuietCall, ClientTypes DEF ClientInv
<1> QED
    BY <1>1, <1>2

\* A refused call gets a token the server has just issued.
LEMMA InvokeKeeps ==
    ASSUME ClientInv, NEW c \in Calls, Invoke(c)
    PROVE  ClientInv' /\ HostKeysStay
<1> DEFINE answer == Answer(ServerOf[call[c].tool], call[c].token)
<1>0. /\ call[c].st = "invoking" /\ call[c] \in CallT /\ CallOK(call[c], tokens)
      /\ UNCHANGED <<up, yaml, aged>>
    BY ClientTypes DEF Invoke, ClientInv
<1>a. answer \in {"ok", "down", "unauthorized"}
    BY DEF Answer
<1>1. CASE answer = "ok"
    <2>1. call' = [call EXCEPT ![c].st = "done"] /\ UNCHANGED <<storeVars, svc, client, list>>
        BY <1>1 DEF Invoke
    <2>2. [call[c] EXCEPT !.st = "done"] \in CallT
        BY <1>0 DEF CallT, CallStates
    <2>3. CallOK([call[c] EXCEPT !.st = "done"], tokens)
        BY <1>0 DEF CallOK, CallT
    <2>4. call' = [call EXCEPT ![c] = [call[c] EXCEPT !.st = "done"]]
        BY <2>1
    <2> QED
        BY <1>0, <2>1, <2>2, <2>3, <2>4, QuietCall, ClientTypes DEF ClientInv
<1>2. CASE answer = "down"
    <2>1. Fails(c, answer) /\ UNCHANGED <<storeVars, svc, client, list>>
        BY <1>2 DEF Invoke
    <2>2. PICK rec \in CallT : call' = [call EXCEPT ![c] = rec] /\ rec.st = "failed"
        BY <1>2, <2>1, FailsGives
    <2>3. CallOK(rec, tokens)
        BY <2>2 DEF CallOK
    <2> QED
        BY <1>0, <2>1, <2>2, <2>3, QuietCall, ClientTypes DEF ClientInv
<1>3. CASE answer = "unauthorized"
    <2>0. StartOver(c)
        BY <1>3 DEF Invoke
    <2>1. GetClient(NoClient, NoList, None)
        BY <2>0 DEF StartOver, ForgottenToken
    <2>2. ClientOK(NoClient) /\ ListOK(NoList) /\ ~NoClient.built
        BY DEF NoClient, NoList, ClientOK, ListOK
    <2>3. /\ client' \in ClientT /\ list' \in ListT /\ svc' \in Token /\ TokenTypes'
          /\ HostKeysStay /\ tokens \subseteq tokens'
          /\ client'.servers = Handed /\ ClientOK(client') /\ ListOK(list')
          /\ NeedsToken /\ up => client'.token \in tokens' \cap Nat
        BY <2>1, <2>2, GetClientGives, ClientTypes DEF HostKeysStay
    <2> DEFINE rec == [call[c] EXCEPT !.st = "relisting", !.from = client', !.fresh = TRUE]
    <2>4. call' = [call EXCEPT ![c] = rec]
        BY <2>0 DEF StartOver
    <2>5. /\ rec \in CallT /\ rec.st = "relisting" /\ rec.from = client'
          /\ rec.steady = call[c].steady
        BY <1>0, <2>3 DEF CallT, CallStates
    <2>6. CallOK(rec, tokens')
        BY <1>0, <2>3, <2>5 DEF CallOK
    <2> HIDE DEF rec
    <2> QED
        BY <1>0, <2>3, <2>4, <2>5, <2>6, CallKeeps
<1> QED
    BY <1>a, <1>1, <1>2, <1>3

LEMMA RelistKeeps ==
    ASSUME ClientInv, NEW c \in Calls, Relist(c)
    PROVE  ClientInv' /\ HostKeysStay
<1> DEFINE answer == Listing(call[c].from)
<1>0. /\ call[c].st = "relisting" /\ call[c] \in CallT /\ CallOK(call[c], tokens)
      /\ UNCHANGED <<storeVars, up, yaml, svc, aged, client>>
    BY ClientTypes DEF Relist, ClientInv
<1>1. CASE answer = "ok"
    <2> DEFINE token == IF Offers(call[c].from.servers, call[c].tool)
                        THEN call[c].from.token ELSE call[c].token
    <2> DEFINE rec == [call[c] EXCEPT !.st = "retrying", !.token = token]
    <2>1. Remember(c) /\ call' = [call EXCEPT ![c] = rec]
        BY <1>1 DEF Relist
    <2>2. token \in Token
        BY <1>0 DEF CallT, ClientT
    <2>3. /\ rec \in CallT /\ rec.st = "retrying" /\ rec.token = token
          /\ rec.steady = call[c].steady /\ rec.tool = call[c].tool
        BY <1>0, <2>2 DEF CallT, CallStates
    <2>4. NeedsToken /\ ServerOf[call[c].tool] = Home /\ call[c].steady =>
              token \in tokens \cap Nat
        BY <1>0 DEF CallOK, Offers, NeedsToken
    <2> HIDE DEF token
    <2>5. CallOK(rec, tokens)
        BY <1>0, <2>3, <2>4 DEF CallOK
    <2> HIDE DEF rec
    <2> QED
        BY <1>0, <2>1, <2>3, <2>5, RememberGives, QuietCall
<1>2. CASE answer # "ok"
    <2>1. Fails(c, answer) /\ list' = list
        BY <1>2 DEF Relist
    <2>2. PICK rec \in CallT :
              /\ call' = [call EXCEPT ![c] = rec]
              /\ rec.st \in {"failed", "denied"} /\ rec.steady = call[c].steady
        BY <2>1, FailsGives
    <2>3. ~(call[c].steady /\ NeedsToken)
        BY <1>0, <1>2 DEF CallOK, Listing, Answer
    <2>4. CallOK(rec, tokens)
        BY <2>2, <2>3 DEF CallOK
    <2> QED
        BY <1>0, <2>1, <2>2, <2>4, QuietCall, ClientTypes DEF ClientInv
<1> QED
    BY <1>1, <1>2

LEMMA RetryKeeps ==
    ASSUME ClientInv, NEW c \in Calls, Retry(c)
    PROVE  ClientInv' /\ HostKeysStay
<1> DEFINE answer == Answer(ServerOf[call[c].tool], call[c].token)
<1>0. /\ call[c].st = "retrying" /\ call[c] \in CallT /\ CallOK(call[c], tokens)
      /\ UNCHANGED <<storeVars, up, yaml, svc, aged, client, list>>
    BY ClientTypes DEF Retry, ClientInv
<1>1. CASE answer = "ok"
    <2>1. call' = [call EXCEPT ![c].st = "done"]
        BY <1>1 DEF Retry
    <2>2. [call[c] EXCEPT !.st = "done"] \in CallT
        BY <1>0 DEF CallT, CallStates
    <2>3. CallOK([call[c] EXCEPT !.st = "done"], tokens)
        BY <1>0 DEF CallOK, CallT
    <2>4. call' = [call EXCEPT ![c] = [call[c] EXCEPT !.st = "done"]]
        BY <2>1
    <2> QED
        BY <1>0, <2>2, <2>3, <2>4, QuietCall, ClientTypes DEF ClientInv
<1>2. CASE answer # "ok"
    <2>1. Fails(c, answer)
        BY <1>2 DEF Retry
    <2>2. PICK rec \in CallT :
              /\ call' = [call EXCEPT ![c] = rec]
              /\ rec.st \in {"failed", "denied"} /\ rec.steady = call[c].steady
        BY <2>1, FailsGives
    <2>3. ~(call[c].steady /\ NeedsToken)
        BY <1>0, <1>2 DEF CallOK, Answer
    <2>4. CallOK(rec, tokens)
        BY <2>2, <2>3 DEF CallOK
    <2> QED
        BY <1>0, <2>2, <2>4, QuietCall, ClientTypes DEF ClientInv
<1> QED
    BY <1>1, <1>2

\* A change of the configuration: the globals are dropped, and what runs is
\* neither steady nor fresh any more.
LEMMA WriteKeeps ==
    ASSUME ClientInv, NEW s \in Servers, NEW entry \in Entries, Write(s, entry)
    PROVE  ClientInv' /\ HostKeysStay
<1>0. /\ client' = NoClient /\ list' = NoList /\ UNCHANGED <<storeVars, up, svc, aged>>
      /\ yaml' = [yaml EXCEPT ![s] = entry]
      /\ call' = [c \in Calls |-> [call[c] EXCEPT !.steady = FALSE, !.fresh = FALSE]]
    BY DEF Write, ReloadServers
<1>1. \A c \in Calls : call'[c] \in CallT /\ ~call'[c].steady /\ ~call'[c].fresh
                       /\ call'[c].st = call[c].st /\ call'[c].hit = call[c].hit
    <2> SUFFICES ASSUME NEW c \in Calls
                 PROVE  /\ call'[c] \in CallT /\ ~call'[c].steady /\ ~call'[c].fresh
                        /\ call'[c].st = call[c].st /\ call'[c].hit = call[c].hit
        OBVIOUS
    <2>1. call[c] \in CallT
        BY ClientTypes
    <2>2. call'[c] = [call[c] EXCEPT !.steady = FALSE, !.fresh = FALSE]
        BY <1>0
    <2> QED
        BY <2>1, <2>2 DEF CallT
<1>2. ClientTypeOK'
    <2>1. call' \in [Calls -> CallT]
        BY <1>0, <1>1
    <2>2. yaml' \in [Servers -> Entries]
        BY <1>0 DEF ClientInv, ClientTypeOK
    <2> QED
        BY <1>0, <2>1, <2>2, ClientTypes DEF ClientInv, ClientTypeOK, ClientT, ListT, CallT
<1>3. ClientOK(client)' /\ ListOK(list)'
    BY <1>0 DEF ClientOK, ListOK, NoClient, NoList
<1>4. \A c \in Calls : CallOK(call[c], tokens)'
    BY <1>1 DEF CallOK, ClientInv
<1>5. TokenTypes' /\ HostKeysStay
    BY <1>0, ClientTypes DEF storeVars, TokenTypes, HostKeysStay
<1> QED
    BY <1>2, <1>3, <1>4, <1>5 DEF ClientInv

LEMMA AdminKeeps ==
    ASSUME ClientInv,
           \/ \E s \in Servers : AddServer(s) \/ UpdateServer(s) \/ DeleteServer(s) \/ ToggleEnabled(s)
           \/ \E t \in Tools : ToggleTool(t)
    PROVE  ClientInv' /\ HostKeysStay
<1>0. yaml \in [Servers -> Entries]
    BY DEF ClientInv, ClientTypeOK
<1>1. ASSUME NEW s \in Servers, AddServer(s) \/ UpdateServer(s) \/ DeleteServer(s) \/ ToggleEnabled(s)
      PROVE  \E entry \in Entries : Write(s, entry)
    <2>0. yaml[s] \in Entries
        BY <1>0
    <2>1. /\ [present |-> TRUE, on |-> TRUE, auth |-> FALSE, off |-> {}] \in Entries
          /\ [present |-> FALSE, on |-> FALSE, auth |-> FALSE, off |-> {}] \in Entries
          /\ [yaml[s] EXCEPT !.on = ~@] \in Entries
        BY <2>0 DEF Entries
    <2> QED
        BY <1>1, <2>0, <2>1 DEF AddServer, UpdateServer, DeleteServer, ToggleEnabled
<1>2. ASSUME NEW t \in Tools, ToggleTool(t)
      PROVE  \E s \in Servers : \E entry \in Entries : Write(s, entry)
    <2> DEFINE s == ServerOf[t]
    <2> DEFINE off == yaml[s].off
    <2>0. s \in Servers /\ yaml[s] \in Entries
        BY <1>0, ClientAssumption
    <2>1. off \subseteq Tools
        BY <2>0 DEF Entries
    <2>2. [yaml[s] EXCEPT !.off = IF t \in off THEN off \ {t} ELSE off \cup {t}] \in Entries
        BY <2>0, <2>1 DEF Entries
    <2> QED
        BY <1>2, <2>0, <2>2 DEF ToggleTool
<1> QED
    BY <1>1, <1>2, WriteKeeps

LEMMA ProbeKeeps ==
    ASSUME ClientInv, Probe
    PROVE  ClientInv' /\ HostKeysStay
<1>1. Served(svc) /\ svc' = TokenAfter(svc) /\ UNCHANGED <<up, yaml, aged, client, list, call>>
    BY DEF Probe
<1>2. TokenTypes' /\ svc' \in Token /\ tokens \subseteq tokens' /\ HostKeysStay
    BY <1>1, ServedGives, ClientTypes DEF HostKeysStay
<1>3. ClientTypeOK'
    BY <1>1, <1>2 DEF ClientInv, ClientTypeOK
<1>4. Handed' = Handed /\ NeedsToken' = NeedsToken
    BY <1>1 DEF Handed, NeedsToken
<1> QED
    BY <1>1, <1>2, <1>3, <1>4 DEF ClientInv, ClientOK, ListOK, CallOK

\* The server goes away, or tokens are lost: no call is steady any more.
LEMMA UnsteadyKeeps ==
    ASSUME ClientInv, call' = Unsteady, UNCHANGED <<yaml, svc, aged, client, list, issued>>,
           up' \in BOOLEAN, tokens' \subseteq tokens
    PROVE  ClientInv'
<1>1. \A c \in Calls : call'[c] \in CallT /\ ~call'[c].steady /\ call'[c].from = call[c].from
                       /\ call'[c].st = call[c].st /\ call'[c].hit = call[c].hit
                       /\ call'[c].fresh = call[c].fresh
    <2> SUFFICES ASSUME NEW c \in Calls
                 PROVE  /\ call'[c] \in CallT /\ ~call'[c].steady /\ call'[c].from = call[c].from
                        /\ call'[c].st = call[c].st /\ call'[c].hit = call[c].hit
                        /\ call'[c].fresh = call[c].fresh
        OBVIOUS
    <2>1. call[c] \in CallT
        BY ClientTypes
    <2>2. call'[c] = [call[c] EXCEPT !.steady = FALSE]
        BY DEF Unsteady
    <2> QED
        BY <2>1, <2>2 DEF CallT
<1>2. call' \in [Calls -> CallT]
    BY <1>1 DEF Unsteady
<1>3. ClientTypeOK' /\ TokenTypes'
    BY <1>2 DEF ClientInv, ClientTypeOK, ClientT, ListT, CallT, TokenTypes
<1>4. Handed' = Handed
    BY DEF Handed
<1>5. \A c \in Calls : CallOK(call[c], tokens)'
    BY <1>1, <1>4 DEF CallOK, ClientInv
<1> QED
    BY <1>3, <1>4, <1>5 DEF ClientInv, ClientOK, ListOK

\* Steps of the server of hosts, and of the environment of the client.
LEMMA HostsLeaveClient ==
    ASSUME ClientInv, UNCHANGED <<clientVars, issued>>,
           tokens \cap Nat \subseteq tokens', tokens' \subseteq tokens \cup Exchanges
    PROVE  ClientInv'
<1>1. ClientTypeOK' /\ TokenTypes'
    BY DEF ClientInv, ClientTypeOK, clientVars, TokenTypes
<1>2. Handed' = Handed /\ NeedsToken' = NeedsToken
    BY DEF Handed, NeedsToken, clientVars
<1> QED
    BY <1>1, <1>2 DEF ClientInv, ClientOK, ListOK, CallOK, clientVars

LEMMA EnvironmentKeeps ==
    ASSUME ClientInv,
           \/ GoDown \/ ComeUp \/ LoseTokens
           \/ \E n \in 1..issued : Age(n) \/ ExpireService(n)
    PROVE  ClientInv' /\ (HostKeysStay \/ Wipe)
<1>0. TokenTypes
    BY DEF ClientInv
<1>1. CASE GoDown
    BY <1>1, UnsteadyKeeps DEF GoDown, storeVars, HostKeysStay
<1>2. CASE ComeUp
    <2>1. Handed' = Handed /\ NeedsToken' = NeedsToken
        BY <1>2 DEF ComeUp, Handed, NeedsToken
    <2>2. ClientTypeOK' /\ TokenTypes' /\ HostKeysStay
        BY <1>2 DEF ComeUp, ClientInv, ClientTypeOK, storeVars, TokenTypes, HostKeysStay
    <2> QED
        BY <1>2, <2>1, <2>2 DEF ComeUp, ClientInv, ClientOK, ListOK, CallOK, storeVars
<1>3. CASE LoseTokens
    BY <1>3, UnsteadyKeeps DEF LoseTokens, Wipe, ClientInv, ClientTypeOK
<1>4. ASSUME NEW n \in 1..issued, Age(n) PROVE ClientInv' /\ HostKeysStay
    <2>1. n \in Nat
        BY <1>0 DEF TokenTypes
    <2>2. Handed' = Handed /\ NeedsToken' = NeedsToken
        BY <1>4 DEF Age, Handed, NeedsToken
    <2>3. ClientTypeOK' /\ TokenTypes' /\ HostKeysStay
        BY <1>4, <2>1 DEF Age, ClientInv, ClientTypeOK, storeVars, TokenTypes, HostKeysStay
    <2> QED
        BY <1>4, <2>2, <2>3 DEF Age, ClientInv, ClientOK, ListOK, CallOK, storeVars
<1>5. ASSUME NEW n \in 1..issued, ExpireService(n) PROVE ClientInv' /\ HostKeysStay
    BY <1>5, UnsteadyKeeps DEF ExpireService, ExpireToken, HostKeysStay, ClientInv, ClientTypeOK
<1> QED
    BY <1>1, <1>2, <1>3, <1>4, <1>5

-----------------------------------------------------------------------------
(* Both.                                                                   *)

Inv == ServerInv /\ ClientInv /\ begun \in 0..MaxEvents

LEMMA InitInv == Init => Inv
<1> SUFFICES ASSUME Init PROVE Inv
    OBVIOUS
<1> USE DEF Init, StoreInit, ServerInit, ClientInit
<1>1. ServerTypes
    BY DEF ServerTypes, ServerTypeOK, FlowStates, PostStates, ExchangeStates
<1>2. ConsentInv /\ IndexInv /\ GrantInv
    BY DEF ConsentInv, Took, IndexInv, IndexNamesOpenConsent, GrantInv
<1>3. ClientTypeOK
    <2>1. NoCall \in CallT
        BY DEF NoCall, NoClient, CallT, CallStates, ClientT, Token
    <2> QED
        BY <2>1 DEF ClientTypeOK, ClientT, ListT, CallT, Entries, NoClient, NoList, Token
<1>4. ClientInv
    BY <1>3 DEF ClientInv, TokenTypes, ClientOK, ListOK, CallOK, NoCall, NoClient, NoList
<1> QED
    BY <1>1, <1>2, <1>4, AccessAssumption DEF Inv, ServerInv

\* The host's side of a step, and what it leaves the client.
LEMMA HostKeeps ==
    ASSUME Inv, HostBegins \/ HostGoesOn
    PROVE  /\ ServerInv' /\ UNCHANGED issued
           /\ tokens \cap Nat \subseteq tokens' /\ tokens' \subseteq tokens \cup Exchanges
<1>1. ServerInv'
    BY AuthorizeKeeps, SubmitKeeps, AnswerKeeps, BeginExchangeKeeps, BeginRefreshKeeps,
       IssueKeeps DEF Inv, HostBegins, HostGoesOn
<1>2. UNCHANGED issued /\ tokens \subseteq tokens' /\ tokens' \subseteq tokens \cup Exchanges
    <2>1. CASE HostBegins
        BY <2>1 DEF HostBegins, Authorize, Submit, PopPending, BeginExchange, BeginRefresh, storeVars
    <2>2. CASE HostGoesOn
        BY <2>2 DEF HostGoesOn, AuthorizeSave, SavePending, SubmitUnindex, DropIndex, PutBack,
                    Grant, SaveCode, IssueAccess, SaveToken, IssueRefresh, SaveRefresh,
                    UseUpCode, DeleteCode, Renew
    <2> QED
        BY <2>1, <2>2
<1> QED
    BY <1>1, <1>2

LEMMA ExpiryKeeps ==
    ASSUME Inv, Expiry, UNCHANGED serverVars
    PROVE  /\ ServerInv' /\ UNCHANGED issued
           /\ tokens \cap Nat \subseteq tokens' /\ tokens' \subseteq tokens
<1> USE TokenAssumption DEF Inv
<1>1. ASSUME NEW f \in Flows, ExpirePending(f)
      PROVE  ServerInv' /\ UNCHANGED <<issued, tokens>>
    BY <1>1, LossKeeps DEF ExpirePending
<1>2. ASSUME NEW p \in Posts, ExpireCode(p)
      PROVE  ServerInv' /\ UNCHANGED <<issued, tokens>>
    BY <1>2, LossKeeps DEF ExpireCode, DeleteCode
<1>3. ASSUME NEW x \in Exchanges, ExpireToken(x)
      PROVE  ServerInv' /\ UNCHANGED issued /\ tokens' = tokens \ {x}
    BY <1>3, LossKeeps DEF ExpireToken
<1>4. ASSUME NEW x \in Exchanges, ExpireRefresh(x)
      PROVE  ServerInv' /\ UNCHANGED <<issued, tokens>>
    BY <1>4, LossKeeps DEF ExpireRefresh
<1> QED
    BY <1>1, <1>2, <1>3, <1>4 DEF Expiry

LEMMA NextInv == Inv /\ [Next]_vars => Inv'
<1> SUFFICES ASSUME Inv, [Next]_vars PROVE Inv'
    OBVIOUS
<1> USE DEF Inv
<1>e. Event => begun' \in 0..MaxEvents
    BY AccessAssumption DEF Event
<1>1. CASE Event /\ HostBegins /\ UNCHANGED clientVars
    BY <1>1, <1>e, HostKeeps, HostsLeaveClient
<1>2. CASE HostGoesOn /\ UNCHANGED <<clientVars, begun>>
    BY <1>2, HostKeeps, HostsLeaveClient
<1>3. CASE Expiry /\ UNCHANGED <<serverVars, clientVars, begun>>
    BY <1>3, ExpiryKeeps, HostsLeaveClient
<1>a. HostKeysStay /\ UNCHANGED serverVars => ServerInv'
    BY LossKeeps DEF HostKeysStay
<1>b. Wipe /\ UNCHANGED serverVars => ServerInv'
    BY LossKeeps
<1>4. CASE Event /\ (AssistantBegins \/ Fault) /\ UNCHANGED serverVars
    <2>1. CASE AssistantBegins
        <3>1. ClientInv' /\ HostKeysStay
            BY <2>1, BeginCallKeeps, AdminKeeps, ProbeKeeps DEF AssistantBegins
        <3> QED
            BY <1>4, <1>e, <1>a, <3>1
    <2>2. CASE Fault
        <3>1. ClientInv' /\ (HostKeysStay \/ Wipe)
            BY <2>2, EnvironmentKeeps DEF Fault
        <3> QED
            BY <1>4, <1>e, <1>a, <1>b, <3>1
    <2> QED
        BY <1>4, <2>1, <2>2
<1>5. CASE AssistantGoesOn /\ UNCHANGED <<serverVars, begun>>
    <2>1. ClientInv' /\ HostKeysStay
        BY <1>5, ListToolsKeeps, InvokeKeeps, RelistKeeps, RetryKeeps DEF AssistantGoesOn
    <2> QED
        BY <1>5, <1>a, <2>1
<1>6. CASE (ComeUp \/ \E n \in 1..issued : ExpireService(n)) /\ UNCHANGED <<serverVars, begun>>
    <2>1. ClientInv' /\ (HostKeysStay \/ Wipe)
        BY <1>6, EnvironmentKeeps
    <2> QED
        BY <1>6, <1>a, <1>b, <2>1
<1>7. CASE UNCHANGED vars
    <2>1. UNCHANGED serverVars /\ HostKeysStay
        BY <1>7 DEF vars, storeVars, HostKeysStay
    <2> QED
        BY <1>7, <1>a, <2>1, HostsLeaveClient DEF vars, storeVars
<1> QED
    BY <1>1, <1>2, <1>3, <1>4, <1>5, <1>6, <1>7 DEF Next

\* Every variable keeps its type.
THEOREM TypeCorrect == Spec => []TypeOK
<1>1. Inv => TypeOK
    BY DEF Inv, ServerInv, ServerTypes, ClientInv, TokenTypes, TypeOK, StoreTypeOK
<1> QED
    BY <1>1, InitInv, NextInv, PTL DEF Spec

\* A consent request is answered with one code at most (consent.py, provider.py).
THEOREM ConsentsGiveOneCode == Spec => []OneCodePerConsent
<1>1. Inv => OneCodePerConsent
    BY ServerInvSuffices DEF Inv
<1> QED
    BY <1>1, InitInv, NextInv, PTL DEF Spec

\* authorize() is never led to a consent that was answered (store.py).
THEOREM IndexStaysOpen == Spec => []IndexNamesOpenConsent
<1>1. Inv => IndexNamesOpenConsent
    BY ServerInvSuffices DEF Inv
<1> QED
    BY <1>1, InitInv, NextInv, PTL DEF Spec

\* No host has a token without a consent to that host.
THEOREM TokensNeedConsent == Spec => []TokensAreConsented
<1>1. Inv => TokensAreConsented
    BY ServerInvSuffices DEF Inv
<1> QED
    BY <1>1, InitInv, NextInv, PTL DEF Spec

\* A list fetched after the last change of the configuration shows it (client.py).
THEOREM ListsFollow == Spec => []ListFollowsConfig
<1>1. Inv => ListFollowsConfig
    BY ClientInvSuffices DEF Inv
<1> QED
    BY <1>1, InitInv, NextInv, PTL DEF Spec

\* A steady call with a cached list is not refused (ainvoke_tool's retry).
THEOREM CallsHeal == Spec => []HealsWhenListed
<1>1. Inv => HealsWhenListed
    BY ClientInvSuffices DEF Inv
<1> QED
    BY <1>1, InitInv, NextInv, PTL DEF Spec
=============================================================================

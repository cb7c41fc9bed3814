------------------------------ MODULE MCPClient ------------------------------
(***************************************************************************)
(* The MCP client of the assistant: mcp_client/client.py with its module   *)
(* globals, the admin handlers that change mcp_clients.yaml                *)
(* (api/routes/admin/mcp_servers.py) and the service token endpoint        *)
(* (sdlc-mcp-server/auth/service_token.py).  Code between two awaits is    *)
(* one step; the token is fetched by a blocking call within one.           *)
(***************************************************************************)
EXTENDS TokenStore

CONSTANTS Servers,    \* names in mcp_clients.yaml
          Home,       \* the one with "auth: service"
          Tools, ServerOf, WriteTools,
          Calls

ASSUME ClientAssumption ==
    /\ Home \in Servers /\ ServerOf \in [Tools -> Servers]
    /\ WriteTools \subseteq Tools

VARIABLES up,      \* sdlc-mcp-server answers
          yaml,    \* mcp_clients.yaml
          svc,     \* _service_token
          aged,    \* service tokens within 60 s of their expiry
          client,  \* _client
          list,    \* _all_tools_cache
          call

clientVars == <<up, yaml, svc, aged, client, list, call>>

Token == Nat \cup {None}
Snapshot == [servers : SUBSET Servers, token : Token]
NoClient == [servers |-> {}, token |-> None, built |-> FALSE]
NoList == [servers |-> {}, token |-> None, known |-> FALSE, fresh |-> TRUE]

\* hit: served from the cached list.  steady: since it began the server was up
\* and no token or configuration was lost.  fresh: no configuration changed
\* since its listing began.
NoCall == [ st |-> "idle", tool |-> None, autonomous |-> FALSE, from |-> NoClient,
            token |-> None, hit |-> FALSE, steady |-> TRUE, fresh |-> TRUE ]

CallStates == { "idle", "listing", "invoking", "relisting", "retrying",
                "done", "failed", "denied", "missing" }
Running(c) == call[c].st \notin {"idle", "done", "failed", "denied", "missing"}

Entries == [present : BOOLEAN, on : BOOLEAN, auth : BOOLEAN, off : SUBSET Tools]

ClientTypeOK ==
    /\ up \in BOOLEAN /\ yaml \in [Servers -> Entries]
    /\ svc \in Token /\ aged \subseteq Nat
    /\ client \in [servers : SUBSET Servers, token : Token, built : BOOLEAN]
    /\ list \in [servers : SUBSET Servers, token : Token, known : BOOLEAN, fresh : BOOLEAN]
    /\ call \in [Calls -> [ st : CallStates, tool : Tools \cup {None}, autonomous : BOOLEAN,
                            from : [servers : SUBSET Servers, token : Token, built : BOOLEAN],
                            token : Token, hit : BOOLEAN, steady : BOOLEAN, fresh : BOOLEAN ]]

ClientInit ==
    /\ up = TRUE /\ svc = None /\ aged = {}
    /\ yaml = [s \in Servers |-> [present |-> TRUE, on |-> TRUE, auth |-> s = Home, off |-> {}]]
    /\ client = NoClient /\ list = NoList
    /\ call = [c \in Calls |-> NoCall]

\* ---- the configuration and the token --------------------------------------
\* The servers _load_servers hands to the client.
Handed == {s \in Servers : yaml[s].present /\ yaml[s].on}
NeedsToken == Home \in Handed /\ yaml[Home].auth

Disabled == UNION {yaml[s].off : s \in {x \in Servers : yaml[x].present}}

\* _get_service_token: the cached token, or a new one, or, when the server does
\* not answer, whatever there was.
Cached(token) == token # None /\ token \notin aged
Fetches(token) == NeedsToken /\ ~Cached(token) /\ up
TokenAfter(token) == IF Fetches(token) THEN issued + 1 ELSE token

\* handle_service_token, when it is asked.
Served(token) ==
    IF Fetches(token)
    THEN /\ issued' = issued + 1
         /\ tokens' = tokens \cup {issued + 1}
         /\ UNCHANGED <<pending, index, codes, refresh>>
    ELSE UNCHANGED storeVars

\* _get_client, from a client, a list and a token: a client is built when there
\* is none, or when the token expires soon; then the list goes too.
Rebuilds(c, token) == ~c.built \/ (token # None /\ token \in aged)

Built(token) ==
    [ servers |-> Handed, built |-> TRUE,
      token |-> IF NeedsToken THEN TokenAfter(token) ELSE None ]

ClientAfter(c, token) == IF Rebuilds(c, token) THEN Built(token) ELSE c
ListAfter(c, l, token) == IF c.built /\ Rebuilds(c, token) THEN NoList ELSE l

GetClient(c, l, token) ==
    /\ client' = ClientAfter(c, token)
    /\ list' = ListAfter(c, l, token)
    /\ IF Rebuilds(c, token)
       THEN Served(token) /\ svc' = TokenAfter(token)
       ELSE UNCHANGED storeVars /\ svc' = token

\* ---- calls ----------------------------------------------------------------
\* What a server says to a request that carries a token.
Answer(s, token) ==
    IF s # Home THEN "ok"
    ELSE IF ~up THEN "down"
    ELSE IF token \in tokens THEN "ok" ELSE "unauthorized"

\* tools/list of all servers of a client: one that fails makes it raise.
Listing(from) == IF Home \in from.servers THEN Answer(Home, from.token) ELSE "ok"

\* A tool of the list carries the token of the client that fetched it.
Offers(servers, t) == ServerOf[t] \in servers

Picked(r, servers, token) ==
    IF Offers(servers, r.tool)
    THEN [r EXCEPT !.st = "invoking", !.token = token]
    ELSE [r EXCEPT !.st = "missing"]

\* get_mcp_tools without writes: the loop chooses among what it got; a tool
\* disabled later stays in its hands.
Catalogue(servers) == {t \in Tools \ (WriteTools \cup Disabled) : Offers(servers, t)}

Listed(r, servers, token) ==
    IF r.autonomous
    THEN IF Catalogue(servers) = {} THEN {[r EXCEPT !.st = "missing"]}
         ELSE {[r EXCEPT !.st = "invoking", !.tool = t, !.token = token] :
                 t \in Catalogue(servers)}
    ELSE {Picked(r, servers, token)}

\* call_mcp_tool(t), or a gathering loop for t = None, up to the first await.
Begun(c, t) ==
    [ NoCall EXCEPT !.st = "listing", !.tool = t, !.autonomous = t = None,
                    !.from = client', !.hit = list'.known, !.steady = up ]

BeginCall(c, t) ==
    /\ call[c].st = "idle"
    /\ GetClient(client, list, svc)
    /\ IF list'.known
       THEN \E next \in Listed(Begun(c, t), list'.servers, list'.token) :
                call' = [call EXCEPT ![c] = next]
       ELSE call' = [call EXCEPT ![c] = Begun(c, t)]
    /\ UNCHANGED <<up, yaml, aged>>

\* The list is written whatever happened to the globals in the meantime.
Remember(c) ==
    list' = [ servers |-> call[c].from.servers, token |-> call[c].from.token,
              known |-> TRUE, fresh |-> call[c].fresh ]

Fails(c, answer) ==
    call' = [call EXCEPT ![c].st = IF answer = "down" THEN "failed" ELSE "denied"]

ListTools(c) ==
    /\ call[c].st = "listing"
    /\ LET answer == Listing(call[c].from)
       IN  IF answer = "ok"
           THEN /\ Remember(c)
                /\ \E next \in Listed(call[c], call[c].from.servers, call[c].from.token) :
                       call' = [call EXCEPT ![c] = next]
           ELSE Fails(c, answer) /\ UNCHANGED list
    /\ UNCHANGED <<storeVars, up, yaml, svc, aged, client>>

\* Wrong on purpose: the token that was refused stays cached.
KeptToken(token) == token

\* ainvoke_tool after a 401: the token is forgotten ...
ForgottenToken(token) == None

\* ... client and list are dropped and built anew.
StartOver(c) ==
    /\ GetClient(NoClient, NoList, ForgottenToken(svc))
    /\ call' = [call EXCEPT ![c].st = "relisting", ![c].from = client', ![c].fresh = TRUE]

Invoke(c) ==
    /\ call[c].st = "invoking"
    /\ LET answer == Answer(ServerOf[call[c].tool], call[c].token)
       IN  CASE answer = "ok" ->
                  /\ call' = [call EXCEPT ![c].st = "done"]
                  /\ UNCHANGED <<storeVars, svc, client, list>>
             [] answer = "down" ->
                  /\ Fails(c, answer)
                  /\ UNCHANGED <<storeVars, svc, client, list>>
             [] answer = "unauthorized" -> StartOver(c)
    /\ UNCHANGED <<up, yaml, aged>>

\* The tool of the same name, or the old one when there is none.
Relist(c) ==
    /\ call[c].st = "relisting"
    /\ LET answer == Listing(call[c].from)
       IN  IF answer = "ok"
           THEN /\ Remember(c)
                /\ call' = [call EXCEPT ![c].st = "retrying",
                              ![c].token = IF Offers(call[c].from.servers, call[c].tool)
                                           THEN call[c].from.token ELSE @]
           ELSE Fails(c, answer) /\ UNCHANGED list
    /\ UNCHANGED <<storeVars, up, yaml, svc, aged, client>>

Retry(c) ==
    /\ call[c].st = "retrying"
    /\ LET answer == Answer(ServerOf[call[c].tool], call[c].token)
       IN  IF answer = "ok" THEN call' = [call EXCEPT ![c].st = "done"] ELSE Fails(c, answer)
    /\ UNCHANGED <<storeVars, up, yaml, svc, aged, client, list>>

\* ---- the admin page -------------------------------------------------------
\* Wrong on purpose: leaves what the client has.
KeepServers == UNCHANGED <<client, list>>

ReloadServers == client' = NoClient /\ list' = NoList

\* A handler reads the file, changes one entry, writes it and reloads, without
\* an await; what runs meanwhile loses "steady" and "fresh".
Write(s, entry) ==
    /\ yaml' = [yaml EXCEPT ![s] = entry]
    /\ ReloadServers
    /\ call' = [c \in Calls |-> [call[c] EXCEPT !.steady = FALSE, !.fresh = FALSE]]
    /\ UNCHANGED <<storeVars, up, svc, aged>>

\* An entry made here never has "auth: service".
AddServer(s) ==
    /\ ~yaml[s].present
    /\ Write(s, [present |-> TRUE, on |-> TRUE, auth |-> FALSE, off |-> {}])

DeleteServer(s) ==
    /\ yaml[s].present
    /\ Write(s, [present |-> FALSE, on |-> FALSE, auth |-> FALSE, off |-> {}])

\* A new url, transport or header.
UpdateServer(s) == yaml[s].present /\ Write(s, yaml[s])

ToggleEnabled(s) == yaml[s].present /\ Write(s, [yaml[s] EXCEPT !.on = ~@])

ToggleTool(t) ==
    LET s == ServerOf[t]
        off == yaml[s].off
    IN  /\ yaml[s].present
        /\ Write(s, [yaml[s] EXCEPT !.off = IF t \in off THEN off \ {t} ELSE off \cup {t}])

\* list_active_servers, for the probes of the admin page: "read-only", but it
\* may fetch a service token that the client does not get.
Probe ==
    /\ Served(svc) /\ svc' = TokenAfter(svc)
    /\ UNCHANGED <<up, yaml, aged, client, list, call>>

\* ---- the environment ------------------------------------------------------
Unsteady == [c \in Calls |-> [call[c] EXCEPT !.steady = FALSE]]

GoDown ==
    /\ up /\ up' = FALSE /\ call' = Unsteady
    /\ UNCHANGED <<storeVars, yaml, svc, aged, client, list>>

ComeUp ==
    /\ ~up /\ up' = TRUE
    /\ UNCHANGED <<storeVars, yaml, svc, aged, client, list, call>>

\* Less than a minute is left; the client counts from before its request, so
\* that it learns this before the server drops the token.
Age(n) ==
    /\ n \in tokens \cap (1..issued) /\ n \notin aged
    /\ aged' = aged \cup {n}
    /\ UNCHANGED <<storeVars, up, yaml, svc, client, list, call>>

ExpireService(n) ==
    /\ n \in aged /\ ExpireToken(n)
    /\ call' = Unsteady
    /\ UNCHANGED <<up, yaml, svc, aged, client, list>>

LoseTokens == Wipe /\ call' = Unsteady /\ UNCHANGED <<up, yaml, svc, aged, client, list>>

\* ---- what must hold -------------------------------------------------------
\* A cached tool list whose tools/list began after the last change of
\* mcp_clients.yaml shows exactly the servers that are enabled now.
ListFollowsConfig ==
    (list.known /\ list.fresh) => list.servers = Handed

\* A call that begins with a cached tool list, while the server answers and
\* nothing is lost until the call ends, is not refused: a token that became
\* invalid earlier is replaced within the call.
HealsWhenListed ==
    \A c \in Calls :
        (call[c].st = "denied" /\ call[c].steady /\ NeedsToken) => ~call[c].hit
=============================================================================

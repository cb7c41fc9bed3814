----------------------------- MODULE OAuthServer -----------------------------
(***************************************************************************)
(* The authorization server of sdlc-mcp-server: auth/provider.py and       *)
(* auth/consent.py.  Handlers are cut where they await Redis.  Revocation  *)
(* is left out: server.py never enables the endpoint that would call it.   *)
(***************************************************************************)
EXTENDS TokenStore

VARIABLES flow,      \* authorize requests and the consent page they lead to
          post,      \* submissions of the consent form
          exchange   \* token requests

serverVars == <<flow, post, exchange>>

FlowStates == {"idle", "saving", "asked"}
PostStates == {"idle", "popped", "wrong", "right", "retry", "granted", "refused"}
ExchangeStates == {"idle", "code", "access", "issued", "refresh", "done", "refused"}

ServerTypeOK ==
    /\ flow \in [Flows -> [st : FlowStates, req : Flows \cup {None}]]
    /\ post \in [Posts -> [st : PostStates, req : Flows \cup {None}]]
    /\ exchange \in [Exchanges -> [ st : ExchangeStates, host : Hosts \cup {None},
                                    code : Posts \cup {None} ]]

ServerInit ==
    /\ flow = [f \in Flows |-> [st |-> "idle", req |-> None]]
    /\ post = [p \in Posts |-> [st |-> "idle", req |-> None]]
    /\ exchange = [x \in Exchanges |-> [st |-> "idle", host |-> None, code |-> None]]

\* ---- SDLCOAuthProvider.authorize ------------------------------------------
\* An open consent of the host is reused, parameters of the request and all.
Authorize(f) ==
    /\ flow[f].st = "idle"
    /\ LET existing == index[HostOf[f]]
       IN  flow' = [flow EXCEPT ![f] =
                      IF existing # None THEN [st |-> "asked", req |-> existing]
                      ELSE [st |-> "saving", req |-> None]]
    /\ UNCHANGED <<storeVars, post, exchange>>

AuthorizeSave(f) ==
    /\ flow[f].st = "saving"
    /\ SavePending(f)
    /\ flow' = [flow EXCEPT ![f] = [st |-> "asked", req |-> f]]
    /\ UNCHANGED <<post, exchange>>

\* ---- handle_consent, POST -------------------------------------------------
Submit(p, f) ==
    /\ post[p].st = "idle" /\ flow[f].st = "asked"
    /\ LET r == flow[f].req
       IN  IF r \in pending
           THEN /\ PopPending(r)
                /\ post' = [post EXCEPT ![p] = [st |-> "popped", req |-> r]]
           ELSE /\ post' = [post EXCEPT ![p] = [st |-> "refused", req |-> r]]
                /\ UNCHANGED storeVars
    /\ UNCHANGED <<flow, exchange>>

SubmitUnindex(p) ==
    /\ post[p].st = "popped"
    /\ DropIndex(post[p].req)
    /\ \E pin \in {"right", "wrong"} : post' = [post EXCEPT ![p].st = pin]
    /\ UNCHANGED <<flow, exchange>>

\* A wrong PIN puts the request back, under the same name.
PutBack(p) ==
    /\ post[p].st = "wrong"
    /\ SavePending(post[p].req)
    /\ post' = [post EXCEPT ![p].st = "retry"]
    /\ UNCHANGED <<flow, exchange>>

Grant(p) ==
    /\ post[p].st = "right"
    /\ SaveCode(p)
    /\ post' = [post EXCEPT ![p].st = "granted"]
    /\ UNCHANGED <<flow, exchange>>

\* ---- the token endpoint ---------------------------------------------------
HostOfCode(p) == HostOf[post[p].req]

\* Wrong on purpose: any host may use the code.
AnyHostsCode(p, h) == p \in codes

\* load_authorization_code.
LoadsCode(p, h) == p \in codes /\ HostOfCode(p) = h

BeginExchange(x, h, p) ==
    /\ exchange[x].st = "idle" /\ post[p].st = "granted"
    /\ exchange' = [exchange EXCEPT ![x] =
                      IF LoadsCode(p, h) THEN [st |-> "code", host |-> h, code |-> p]
                      ELSE [st |-> "refused", host |-> h, code |-> None]]
    /\ UNCHANGED <<storeVars, flow, post>>

\* exchange_authorization_code: three calls, the code goes last.
IssueAccess(x) ==
    /\ exchange[x].st = "code"
    /\ SaveToken(x)
    /\ exchange' = [exchange EXCEPT ![x].st = "access"]
    /\ UNCHANGED <<flow, post>>

IssueRefresh(x) ==
    /\ exchange[x].st = "access"
    /\ SaveRefresh(x)
    /\ exchange' = [exchange EXCEPT ![x].st = "issued"]
    /\ UNCHANGED <<flow, post>>

UseUpCode(x) ==
    /\ exchange[x].st = "issued"
    /\ DeleteCode(exchange[x].code)
    /\ exchange' = [exchange EXCEPT ![x].st = "done"]
    /\ UNCHANGED <<flow, post>>

\* load_refresh_token of the token that request y was answered with.
BeginRefresh(x, h, y) ==
    /\ exchange[x].st = "idle" /\ exchange[y].st = "done" /\ exchange[y].code # None
    /\ exchange' = [exchange EXCEPT ![x] =
                      [ st |-> IF y \in refresh /\ exchange[y].host = h
                               THEN "refresh" ELSE "refused",
                        host |-> h, code |-> None ]]
    /\ UNCHANGED <<storeVars, flow, post>>

\* exchange_refresh_token: the refresh token is kept as it is.
Renew(x) ==
    /\ exchange[x].st = "refresh"
    /\ SaveToken(x)
    /\ exchange' = [exchange EXCEPT ![x].st = "done"]
    /\ UNCHANGED <<flow, post>>

\* ---- what must hold -------------------------------------------------------
\* A consent request is answered with one code at most, however often its
\* form is sent, resent after a wrong PIN or shown to parallel connections.
OneCodePerConsent ==
    \A p, q \in Posts :
        (post[p].st = "granted" /\ post[q].st = "granted" /\ post[p].req = post[q].req)
            => p = q

\* The index by which authorize() finds an open consent names one that is
\* open, or one that a POST has just taken and whose index entry it is about
\* to delete: a host is not sent to a consent page that was answered.
IndexNamesOpenConsent ==
    \A h \in Hosts :
        index[h] # None =>
            \/ index[h] \in pending
            \/ \E p \in Posts : post[p].st = "popped" /\ post[p].req = index[h]

\* A host has a token, of any kind, only after a consent to that host.
Consented(h) == \E p \in Posts : post[p].st = "granted" /\ HostOfCode(p) = h

TokensAreConsented ==
    \A x \in Exchanges :
        (x \in tokens \/ x \in refresh) => Consented(exchange[x].host)
=============================================================================

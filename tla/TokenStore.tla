----------------------------- MODULE TokenStore -----------------------------
(***************************************************************************)
(* The Redis keys of sdlc-mcp-server/auth/store.py.  A consent request is  *)
(* named by the authorize request that made it, a code by the consent form *)
(* that was answered with it, a token of a host by the token request it    *)
(* answers and a service token by its number.  A key may expire; Redis may *)
(* lose all of them.                                                       *)
(***************************************************************************)
EXTENDS Integers, FiniteSets

CONSTANTS Hosts,      \* registered OAuth clients: Claude Desktop, Cursor ...
          Flows,      \* authorize requests, each made once
          HostOf,     \* the host of each
          Posts,      \* submissions of the consent form
          Exchanges,  \* token requests
          None

ASSUME TokenAssumption ==
    /\ HostOf \in [Flows -> Hosts]
    /\ None \notin Hosts \cup Flows \cup Posts \cup Exchanges \cup Nat
    /\ Exchanges \cap Nat = {}   \* host and service tokens are told apart

VARIABLES pending,  \* mcp:oauth:pending:{req_id}
          index,    \* mcp:oauth:pending:client:{client_id}
          codes,    \* mcp:oauth:code:{code}
          refresh,  \* mcp:oauth:refresh:{token}
          tokens,   \* mcp:oauth:token:{token}
          issued    \* number of service tokens so far

storeVars == <<pending, index, codes, refresh, tokens, issued>>

StoreTypeOK ==
    /\ pending \subseteq Flows
    /\ index \in [Hosts -> Flows \cup {None}]
    /\ codes \subseteq Posts
    /\ refresh \subseteq Exchanges
    /\ tokens \subseteq Exchanges \cup Nat
    /\ issued \in Nat

StoreInit ==
    /\ pending = {} /\ codes = {} /\ refresh = {} /\ tokens = {}
    /\ index = [h \in Hosts |-> None]
    /\ issued = 0

\* save_pending_auth: the request and the client index in one pipeline.
SavePending(f) ==
    /\ pending' = pending \cup {f}
    /\ index' = [index EXCEPT ![HostOf[f]] = f]
    /\ UNCHANGED <<codes, refresh, tokens, issued>>

\* Wrong on purpose: reads the request and leaves it.
PeekPending(f) == UNCHANGED storeVars

\* pop_pending_auth, first call: GETDEL.
PopPending(f) ==
    /\ pending' = pending \ {f}
    /\ UNCHANGED <<index, codes, refresh, tokens, issued>>

\* Wrong on purpose: the index of the client stays.
KeepIndex(f) == UNCHANGED storeVars

\* pop_pending_auth, second call: DELETE of the client index, whatever it names.
DropIndex(f) ==
    /\ index' = [index EXCEPT ![HostOf[f]] = None]
    /\ UNCHANGED <<pending, codes, refresh, tokens, issued>>

SaveCode(p) ==
    /\ codes' = codes \cup {p}
    /\ UNCHANGED <<pending, index, refresh, tokens, issued>>

DeleteCode(p) ==
    /\ codes' = codes \ {p}
    /\ UNCHANGED <<pending, index, refresh, tokens, issued>>

SaveToken(t) ==
    /\ tokens' = tokens \cup {t}
    /\ UNCHANGED <<pending, index, codes, refresh, issued>>

SaveRefresh(x) ==
    /\ refresh' = refresh \cup {x}
    /\ UNCHANGED <<pending, index, codes, tokens, issued>>

\* The request and the index that names it were set together and live as long.
ExpirePending(f) ==
    /\ f \in pending
    /\ pending' = pending \ {f}
    /\ index' = [h \in Hosts |-> IF index[h] = f THEN None ELSE index[h]]
    /\ UNCHANGED <<codes, refresh, tokens, issued>>

ExpireCode(p) == p \in codes /\ DeleteCode(p)

ExpireToken(t) ==
    /\ t \in tokens
    /\ tokens' = tokens \ {t}
    /\ UNCHANGED <<pending, index, codes, refresh, issued>>

ExpireRefresh(x) ==
    /\ x \in refresh
    /\ refresh' = refresh \ {x}
    /\ UNCHANGED <<pending, index, codes, tokens, issued>>

\* Redis comes back empty.
Wipe ==
    /\ pending' = {} /\ codes' = {} /\ refresh' = {} /\ tokens' = {}
    /\ index' = [h \in Hosts |-> None]
    /\ UNCHANGED issued
=============================================================================

--------------------------- MODULE MCProjectMemory ---------------------------
\* Two chats and a decision on one session; three facts, of which one is restated
\* and one contradicts both forms of it: when both are stored, the limit of one
\* lets the lookup find only one of them.
EXTENDS ProjectMemory, TLC

MCFacts == {"oauth", "oauth again", "jwt"}
MCCallers == Chats \cup Decisions
MCSame == {<<f, f>> : f \in MCFacts} \cup {<<"oauth", "oauth again">>, <<"oauth again", "oauth">>}
MCClose == {<<f, "jwt">> : f \in MCFacts \ {"jwt"}} \cup {<<"jwt", f>> : f \in MCFacts \ {"jwt"}}
MCBackends == {"sqlite", "postgres"}
=============================================================================

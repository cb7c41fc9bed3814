----------------------------- MODULE MCRagIndex -----------------------------
\* Two sources of one project, files and Confluence, and one of another.
EXTENDS RagIndex, TLC

MCProjects == {"p", "q"}
MCSources == {"files", "confluence", "other"}
MCProjectOf == [files |-> "p", confluence |-> "p", other |-> "q"]
MCFetched == {"confluence"}
Interchangeable == Permutations(Texts) \cup Permutations(Runs)
=============================================================================

--------------------------- MODULE SemanticMemory ---------------------------
(***************************************************************************)
(* The facts of one project in the Qdrant collection "semantic_memory",    *)
(* backend/memory/semantic_memory.py; every call filters by project.  A    *)
(* fact is learned, told from its near duplicates by one threshold and     *)
(* from facts that contradict it by another, and never expires: it only    *)
(* becomes too old to be retrieved.                                        *)
(***************************************************************************)
EXTENDS Naturals, FiniteSets

CONSTANTS Facts,
          Same,     \* pairs with a similarity of _DEDUP_THRESHOLD or more
          Close,    \* pairs below that, of _SUPERSEDE_THRESHOLD or more
          Limit,    \* of the lookup for facts to supersede
          Nothing

ASSUME FactAssumption ==
    /\ Same \subseteq Facts \X Facts /\ Close \subseteq Facts \X Facts
    /\ \A f \in Facts : <<f, f>> \in Same
    /\ \A p \in Same : <<p[2], p[1]>> \in Same /\ p \notin Close
    /\ \A p \in Close : <<p[2], p[1]>> \in Close
    /\ Limit \in Nat \ {0} /\ Nothing \notin Facts

VARIABLES known,   \* "no", or the age of each fact's point
          unsure,  \* facts stored when a lookup had failed or left facts out
          latest   \* the fact learned last that nothing failed or cleared

factVars == <<known, unsure, latest>>

Stored == {f \in Facts : known[f] # "no"}
SameAs(f) == {g \in Facts : <<f, g>> \in Same}
CloseTo(f) == {g \in Facts : <<f, g>> \in Close}

FactTypeOK ==
    /\ known \in [Facts -> {"no", "fresh", "old"}]
    /\ unsure \subseteq Stored
    /\ latest \in Facts \cup {Nothing}

FactInit ==
    /\ known = [f \in Facts |-> "no"]
    /\ unsure = {}
    /\ latest = Nothing

\* _is_duplicate, FALSE also when the search fails.
IsDuplicate(f) == Stored \cap SameAs(f) # {}

Supersedable(f) == Stored \cap CloseTo(f)

\* _find_supersedable: nothing when the search fails, else what contradicts the
\* fact among the Limit stored facts nearest to it, near duplicates first.
Lookups(f) ==
    LET room == Limit - Cardinality(Stored \cap SameAs(f))
    IN  { found \in SUBSET Supersedable(f) :
            \/ found = {}
            \/ Cardinality(found) = room
            \/ found = Supersedable(f) /\ Cardinality(found) < room }

Forget(facts) == [g \in Facts |-> IF g \in facts THEN "no" ELSE known[g]]

\* Wrong on purpose: facts on the same topic count as duplicates.
SkipFactOnTopic(f) ==
    /\ Stored \cap (SameAs(f) \cup CloseTo(f)) # {}
    /\ latest' = f
    /\ UNCHANGED <<known, unsure>>

\* A near duplicate is there: the fact is skipped.
SkipFact(f) ==
    /\ IsDuplicate(f)
    /\ latest' = f
    /\ UNCHANGED <<known, unsure>>

\* Wrong on purpose: nothing is superseded.
StoreBeside(f) ==
    /\ known' = [known EXCEPT ![f] = "fresh"]
    /\ unsure' = unsure \ {f}
    /\ latest' = f

\* What the lookup found to contradict the fact is deleted and the fact stored.
\* A duplicate that is stored was not found because the search failed; what
\* contradicts it may not have been found because the search failed or because
\* there was more of it than the limit.
StoreFact(f) ==
    \E gone \in Lookups(f) :
        /\ known' = [Forget(gone) EXCEPT ![f] = "fresh"]
        /\ unsure' = IF IsDuplicate(f) \/ gone # Supersedable(f)
                     THEN (unsure \ gone) \cup {f}
                     ELSE unsure \ (gone \cup {f})
        /\ latest' = f

\* The delete or the upsert raises: what the fact superseded may be gone.
StoreRaises(f) ==
    /\ \E gone \in Lookups(f) :
         /\ known' = Forget(gone)
         /\ unsure' = unsure \ gone
    /\ latest' = Nothing

\* _FACT_MAX_AGE_DAYS go by.
GrowOld(f) ==
    /\ known[f] = "fresh"
    /\ known' = [known EXCEPT ![f] = "old"]
    /\ UNCHANGED <<unsure, latest>>

\* admin_memory_clear, and the second step of admin_clear_all.
ClearFacts ==
    /\ known' = [f \in Facts |-> "no"]
    /\ unsure' = {}
    /\ latest' = Nothing

-----------------------------------------------------------------------------
\* The facts on a topic do not contradict or repeat each other, in whatever
\* order conversations teach them, except for a fact that was stored while a
\* lookup failed or while more facts than the lookup's limit contradicted it: a
\* fact replaces those close to it, although being close is not transitive, and
\* facts that agree with each other may all contradict a new one.  (The code does
\* not ask again when the lookup comes back full: the store then need not
\* "converge to the latest truth".)
FactsAgree ==
    \A f, g \in Stored \ unsure :
        f # g => <<f, g>> \notin Same \cup Close

\* The fact learned last is known, itself or by a near duplicate: neither the
\* duplicate check nor superseding loses it.
LatestIsKnown == latest # Nothing => Stored \cap SameAs(latest) # {}
=============================================================================

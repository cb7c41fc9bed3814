----------------------------- MODULE Rag_proofs -----------------------------
(***************************************************************************)
(* Proofs about the two halves of rag/.                                    *)
(*                                                                         *)
(* RagIndex, for any projects, sources, texts and ingests: an undisturbed  *)
(* ingest replaces its source, and the keyword index agrees with the store *)
(* but for what failed ingests, other projects and scripts changed.        *)
(*                                                                         *)
(* DocumentIngest, for any documents, texts and sizes: grouping, packing   *)
(* and cutting lose nothing of a document, and its recall keeps the order  *)
(* of what one call of the chunker made.                                   *)
(***************************************************************************)
EXTENDS RagIndex, DocumentIngest, FiniteSetTheorems, SequenceTheorems,
        NaturalsInduction, WellFoundedInduction, TLAPS

-----------------------------------------------------------------------------
(* RagIndex: the inductive invariant.                                      *)

Point == [owner : Sources \cup {None}, stale : BOOLEAN]
RunStates == {"idle", "fetched", "listing", "storing", "done", "failed"}
Ingest == [ st : RunStates, source : Sources \cup {None}, script : BOOLEAN,
            read : SUBSET Texts, left : SUBSET Texts, lost : SUBSET Texts,
            marked : BOOLEAN, alone : BOOLEAN ]
Built == [built : BOOLEAN, texts : SUBSET Texts, outdated : BOOLEAN, writers : SUBSET Runs]

TypeInv ==
    /\ content \in [Sources -> SUBSET Texts]
    /\ point \in [Texts -> Point]
    /\ ingest \in [Runs -> Ingest]
    /\ last \in [Sources -> Runs \cup {None}]
    /\ index \in [Projects -> Built]

\* What an ingest has read, stored and skipped at each of its stages.
Staged(i) ==
    /\ i.left \subseteq i.read /\ i.left \cap i.lost = {}
    /\ i.st = "idle" <=> i.source = None
    /\ i.st \in {"idle", "listing"} => i.read = {} /\ i.lost = {}
    /\ i.st = "fetched" => i.left = i.read /\ i.lost = {} /\ ~i.marked
    /\ i.st = "done" => i.left = {}

RunInv ==
    /\ \A r \in Runs : Staged(ingest[r])
    /\ \A s \in Sources, r \in Runs : last[s] = r => ingest[r].source = s

\* No other ingest of the source runs beside the last one if it is alone.
AloneInv ==
    \A s \in Sources, r \in Runs :
        last[s] = r /\ ingest[r].alone => ActiveOn(s) \subseteq {r}

\* No ingest of another source has read the text.
OnlyReadIn(t, s) ==
    \A r \in Runs : ingest[r].source # s => t \notin ingest[r].read

StoredBy(r) == ingest[r].read \ (ingest[r].left \cup ingest[r].lost)

\* IngestReplacesSource while the ingest is on its way.
Replaced(s, r) ==
    /\ LiveOf(s) \subseteq StoredBy(r)
    /\ \A t \in StoredBy(r) : OnlyReadIn(t, s) => t \in LiveOf(s)

Counts(s, r) ==
    /\ last[s] = r /\ ingest[r].marked /\ ingest[r].alone
    /\ ingest[r].st \in {"listing", "storing", "done"}

ReplaceInv == \A s \in Sources, r \in Runs : Counts(s, r) => Replaced(s, r)

\* An index nobody changed anything under agrees with the store, and whoever
\* did has not ended well.
FollowInv ==
    \A p \in Projects :
        /\ \A r \in index[p].writers : ~EndedWell(r, p)
        /\ index[p].built /\ ~index[p].outdated /\ index[p].writers = {} =>
               index[p].texts = Live(p)

Inv == TypeInv /\ RunInv /\ AloneInv /\ ReplaceInv /\ FollowInv

LEMMA InvSuffices == Inv => IngestReplacesSource /\ IndexFollowsStore
<1> SUFFICES ASSUME Inv PROVE IngestReplacesSource /\ IndexFollowsStore
    OBVIOUS
<1>1. IngestReplacesSource
    <2> SUFFICES ASSUME NEW s \in Sources, NEW r \in Runs, last[s] = r,
                        ingest[r].st = "done", ingest[r].marked, ingest[r].alone
                 PROVE  /\ LiveOf(s) \subseteq ingest[r].read \ ingest[r].lost
                        /\ \A t \in ingest[r].read \ ingest[r].lost :
                               OnlyIn(t, s) => t \in LiveOf(s)
        BY DEF IngestReplacesSource
    <2>1. Replaced(s, r) /\ ingest[r].left = {}
        BY DEF Inv, ReplaceInv, Counts, RunInv, Staged
    <2> QED
        BY <2>1 DEF Replaced, StoredBy, OnlyIn, OnlyReadIn
<1>2. IndexFollowsStore
    BY DEF IndexFollowsStore, Inv, FollowInv
<1> QED
    BY <1>1, <1>2

LEMMA InitInv == Init => Inv
<1> SUFFICES ASSUME Init PROVE Inv
    OBVIOUS
<1> USE IndexAssumption DEF Init
<1>1. TypeInv
    BY DEF TypeInv, Point, NoPoint, Ingest, NotStarted, RunStates, Built, Unbuilt
<1>2. RunInv /\ AloneInv /\ ReplaceInv
    BY DEF RunInv, Staged, AloneInv, ReplaceInv, Counts, NotStarted
<1>3. FollowInv
    BY DEF FollowInv, Unbuilt
<1> QED
    BY <1>1, <1>2, <1>3 DEF Inv

-----------------------------------------------------------------------------
(* What searches find after the steps of the store.                        *)

LEMMA MarkLive ==
    ASSUME TypeInv, NEW s \in Sources, MarkStale(s)
    PROVE  /\ point' \in [Texts -> Point]
           /\ LiveOf(s)' = {}
           /\ \A x \in Sources \ {s} : LiveOf(x)' = LiveOf(x)
<1>1. \A t \in Texts : point[t] \in Point
    BY DEF TypeInv
<1>2. \A t \in Texts : /\ point'[t] = [point[t] EXCEPT !.stale = @ \/ point[t].owner = s]
                       /\ point'[t] \in Point
                       /\ point'[t].owner = point[t].owner
                       /\ point'[t].stale = (point[t].stale \/ point[t].owner = s)
    BY <1>1 DEF MarkStale, Point
<1>3. point' \in [Texts -> Point]
    BY <1>2 DEF MarkStale
<1> QED
    BY <1>2, <1>3 DEF LiveOf

LEMMA UpsertLive ==
    ASSUME TypeInv, NEW t \in Texts, NEW s \in Sources, Upsert(t, s)
    PROVE  /\ point' \in [Texts -> Point]
           /\ LiveOf(s)' = LiveOf(s) \cup {t}
           /\ \A x \in Sources \ {s} : LiveOf(x)' = LiveOf(x) \ {t}
<1>1. point' \in [Texts -> Point]
    BY DEF TypeInv, Upsert, Point
<1>2. \A u \in Texts : point'[u] = IF u = t THEN [owner |-> s, stale |-> FALSE] ELSE point[u]
    BY DEF TypeInv, Upsert
<1> QED
    BY <1>1, <1>2 DEF LiveOf

-----------------------------------------------------------------------------
(* What a step of the ingest r, which leaves it as i, does to the indexes. *)

IndexStep(r, i) ==
    \/ /\ i.st = "done" => i.script
       /\ NoteWriter(r) \/ UNCHANGED <<point, index>>
    \/ /\ i.st = "done" /\ ~i.script
       /\ index' = [index EXCEPT ![ProjectOf[i.source]] = Unbuilt] /\ UNCHANGED point

LEMMA IndexTyped ==
    ASSUME TypeInv, NEW r \in Runs, NEW i, IndexStep(r, i)
    PROVE  index' \in [Projects -> Built]
<1>1. \A p \in Projects : index[p] \in Built /\ [index[p] EXCEPT !.writers = @ \cup {r}] \in Built
    BY DEF TypeInv, Built
<1>2. CASE NoteWriter(r)
    BY <1>1, <1>2 DEF NoteWriter
<1>3. CASE index' = [index EXCEPT ![ProjectOf[i.source]] = Unbuilt]
    <2>1. Unbuilt \in Built
        BY DEF Unbuilt, Built
    <2> QED
        BY <1>3, <2>1 DEF TypeInv
<1> QED
    BY <1>2, <1>3 DEF IndexStep, TypeInv

LEMMA IndexStepFollows ==
    ASSUME TypeInv, FollowInv, NEW r \in Runs, NEW i, IndexStep(r, i),
           ingest'[r].st = i.st, ingest'[r].source = i.source, ingest'[r].script = i.script,
           \A q \in Runs \ {r} : /\ ingest'[q].st = ingest[q].st
                                 /\ ingest'[q].source = ingest[q].source
                                 /\ ingest'[q].script = ingest[q].script
    PROVE  FollowInv'
<1> SUFFICES ASSUME NEW p \in Projects
             PROVE  /\ \A q \in index'[p].writers : ~EndedWell(q, p)'
                    /\ index'[p].built /\ ~index'[p].outdated /\ index'[p].writers = {} =>
                           index'[p].texts = Live(p)'
    BY DEF FollowInv
<1>0. index[p] \in Built /\ index[p].writers \subseteq Runs
    BY DEF TypeInv, Built
<1>1. \A q \in Runs \ {r} : EndedWell(q, p)' <=> EndedWell(q, p)
    BY DEF EndedWell
<1>2. \A q \in index[p].writers : q # r => ~EndedWell(q, p)'
    BY <1>0, <1>1 DEF FollowInv
<1>3. CASE (i.st = "done" => i.script) /\ (NoteWriter(r) \/ UNCHANGED <<point, index>>)
    <2>1. ~EndedWell(r, p)'
        BY <1>3 DEF EndedWell
    <2>2. CASE UNCHANGED <<point, index>>
        <3>1. Live(p)' = Live(p)
            BY <2>2 DEF Live, LiveOf
        <3> QED
            BY <1>2, <2>1, <2>2, <3>1 DEF FollowInv
    <2>3. CASE NoteWriter(r)
        <3>1. index'[p] = IF index[p].built /\ Live(p)' # Live(p)
                          THEN [index[p] EXCEPT !.writers = @ \cup {r}] ELSE index[p]
            BY <2>3 DEF NoteWriter
        <3>2. CASE index[p].built /\ Live(p)' # Live(p)
            <4>1. index'[p].writers = index[p].writers \cup {r}
                BY <1>0, <3>1, <3>2 DEF Built
            <4> QED
                BY <1>2, <2>1, <4>1
        <3>3. CASE ~(index[p].built /\ Live(p)' # Live(p))
            BY <1>2, <2>1, <3>1, <3>3 DEF FollowInv
        <3> QED
            BY <3>2, <3>3
    <2> QED
        BY <1>3, <2>2, <2>3
<1>4. CASE /\ i.st = "done" /\ ~i.script
           /\ index' = [index EXCEPT ![ProjectOf[i.source]] = Unbuilt] /\ UNCHANGED point
    <2>1. CASE p = ProjectOf[i.source]
        <3>1. index'[p] = Unbuilt
            BY <1>4, <2>1 DEF TypeInv
        <3> QED
            BY <3>1 DEF Unbuilt
    <2>2. CASE p # ProjectOf[i.source]
        <3>1. index'[p] = index[p] /\ ~EndedWell(r, p)'
            BY <1>4, <2>2 DEF TypeInv, EndedWell
        <3>2. Live(p)' = Live(p)
            BY <1>4 DEF Live, LiveOf
        <3> QED
            BY <1>2, <3>1, <3>2 DEF FollowInv
    <2> QED
        BY <2>1, <2>2
<1> QED
    BY <1>3, <1>4 DEF IndexStep

-----------------------------------------------------------------------------
(* A step of one ingest keeps the invariant if it takes from other sources *)
(* only texts it has read, and drops the index when it ends.               *)

LEMMA RunKeeps ==
    ASSUME Inv, NEW r \in Runs, NEW rec \in Ingest, NEW src,
           Active(r), src = ingest[r].source, rec.source = src, Staged(rec),
           rec.alone = ingest[r].alone, ingest[r].read \subseteq rec.read,
           rec.script = ingest[r].script,
           ingest' = [ingest EXCEPT ![r] = rec], UNCHANGED <<content, last>>,
           point' \in [Texts -> Point],
           \A x \in Sources \ {src} :
               LiveOf(x)' \subseteq LiveOf(x) /\ LiveOf(x) \subseteq LiveOf(x)' \cup rec.read,
           Counts(src, r)' => Replaced(src, r)',
           IndexStep(r, rec)
    PROVE  Inv'
<1> USE DEF Inv
<1>0. /\ src \in Sources /\ ingest \in [Runs -> Ingest]
      /\ \A q \in Runs : ingest'[q] = IF q = r THEN rec ELSE ingest[q]
    <2>1. ingest[r].source # None /\ ingest[r] \in Ingest
        BY DEF Active, RunInv, Staged, TypeInv
    <2> QED
        BY <2>1 DEF Ingest, TypeInv
<1>1. TypeInv'
    <2>1. ingest' \in [Runs -> Ingest]
        BY <1>0
    <2>2. index' \in [Projects -> Built]
        BY IndexTyped
    <2> QED
        BY <2>1, <2>2 DEF TypeInv
<1>2. RunInv'
    BY <1>0 DEF RunInv
<1>3. \A s \in Sources : ActiveOn(s)' \subseteq ActiveOn(s)
    BY <1>0 DEF ActiveOn, Active
<1>4. AloneInv'
    BY <1>0, <1>3 DEF AloneInv
<1>5. ReplaceInv'
    <2> SUFFICES ASSUME NEW s \in Sources, NEW q \in Runs, Counts(s, q)'
                 PROVE  Replaced(s, q)'
        BY DEF ReplaceInv
    <2>1. CASE q = r
        <3>1. s = src
            BY <2>1 DEF Counts, RunInv
        <3> QED
            BY <2>1, <3>1
    <2>2. CASE q # r
        <3>1. Counts(s, q) /\ StoredBy(q)' = StoredBy(q)
            BY <1>0, <2>2 DEF Counts, StoredBy
        <3>2. Replaced(s, q) /\ ActiveOn(s) \subseteq {q}
            BY <3>1 DEF ReplaceInv, AloneInv, Counts
        <3>3. s # src
            BY <2>2, <3>2 DEF ActiveOn
        <3>4. LiveOf(s)' \subseteq StoredBy(q)
            BY <3>2, <3>3 DEF Replaced
        <3>5. ASSUME NEW t \in StoredBy(q), OnlyReadIn(t, s)' PROVE t \in LiveOf(s)'
            <4>1. t \notin rec.read /\ OnlyReadIn(t, s)
                BY <1>0, <3>3, <3>5 DEF OnlyReadIn
            <4> QED
                BY <3>2, <3>3, <4>1 DEF Replaced
        <3> QED
            BY <3>1, <3>4, <3>5 DEF Replaced
    <2> QED
        BY <2>1, <2>2
<1>6. FollowInv'
    <2>1. \A q \in Runs \ {r} : ingest'[q] = ingest[q]
        BY <1>0
    <2> QED
        BY <1>0, <2>1, IndexStepFollows
<1> QED
    BY <1>1, <1>2, <1>4, <1>5, <1>6

\* A new ingest of a source.
LEMMA BeginKeeps ==
    ASSUME Inv, NEW r \in Runs, NEW s \in Sources, NEW st \in {"listing", "fetched"},
           NEW read \in SUBSET Texts, NEW mark \in BOOLEAN, NEW script \in BOOLEAN,
           ingest[r].st = "idle", ingest' = Begun(r, s, script, st, read, mark),
           st = "listing" => read = {}, st = "fetched" => mark = FALSE,
           last' = [last EXCEPT ![s] = r], UNCHANGED content,
           NoteWriter(r) \/ UNCHANGED <<point, index>>,
           point' \in [Texts -> Point],
           \A x \in Sources \ {s} : LiveOf(x)' = LiveOf(x),
           st = "listing" /\ mark = TRUE => LiveOf(s)' = {}
    PROVE  Inv'
<1> USE IndexAssumption DEF Inv
<1>0. /\ ingest \in [Runs -> Ingest]
      /\ \A q \in Runs : ingest[q] \in Ingest
      /\ ingest[r].source = None /\ ingest[r].read = {}
    BY DEF TypeInv, RunInv, Staged
<1>1. \A q \in Runs \ {r} :
          /\ ingest'[q] \in Ingest /\ ingest'[q].st = ingest[q].st
          /\ ingest'[q].source = ingest[q].source /\ ingest'[q].script = ingest[q].script
          /\ ingest'[q].read = ingest[q].read
          /\ ingest'[q].left = ingest[q].left /\ ingest'[q].lost = ingest[q].lost
          /\ ingest'[q].marked = ingest[q].marked
          /\ ingest'[q].alone => ingest[q].alone
    <2> SUFFICES ASSUME NEW q \in Runs \ {r}
                 PROVE  /\ ingest'[q] \in Ingest /\ ingest'[q].st = ingest[q].st
                        /\ ingest'[q].source = ingest[q].source /\ ingest'[q].script = ingest[q].script
                        /\ ingest'[q].read = ingest[q].read
                        /\ ingest'[q].left = ingest[q].left /\ ingest'[q].lost = ingest[q].lost
                        /\ ingest'[q].marked = ingest[q].marked
                        /\ ingest'[q].alone => ingest[q].alone
        OBVIOUS
    <2>1. ingest'[q] = [ingest[q] EXCEPT !.alone = @ /\ q \notin ActiveOn(s)]
        BY DEF Begun
    <2> QED
        BY <1>0, <2>1 DEF Ingest
<1>2. /\ ingest'[r] \in Ingest /\ ingest'[r].st = st /\ ingest'[r].source = s
      /\ ingest'[r].script = script
      /\ ingest'[r].read = read /\ ingest'[r].left = read /\ ingest'[r].lost = {}
      /\ ingest'[r].marked = mark /\ ingest'[r].alone = (ActiveOn(s) = {})
    <2>1. ingest'[r] = [ NotStarted EXCEPT !.st = st, !.source = s, !.script = script, !.read = read,
                           !.left = read, !.marked = mark, !.alone = ActiveOn(s) = {} ]
        BY DEF Begun
    <2> QED
        BY <2>1 DEF NotStarted, Ingest, RunStates
<1>d. IndexStep(r, ingest'[r])
    BY <1>2 DEF IndexStep
<1>3. TypeInv'
    <2>1. ingest' \in [Runs -> Ingest]
        BY <1>1, <1>2 DEF Begun
    <2>2. index' \in [Projects -> Built]
        BY <1>d, IndexTyped
    <2> QED
        BY <2>1, <2>2 DEF TypeInv
<1>a. \A x \in Sources \ {s} : last'[x] = last[x] /\ last[x] # r
    BY <1>0 DEF TypeInv, RunInv
<1>b. last'[s] = r
    BY DEF TypeInv
<1>4. RunInv'
    <2>1. \A q \in Runs : Staged(ingest[q])'
        BY <1>1, <1>2 DEF RunInv, Staged
    <2> QED
        BY <2>1, <1>1, <1>2, <1>a, <1>b DEF RunInv
<1>5. /\ \A x \in Sources \ {s} : ActiveOn(x)' = ActiveOn(x)
      /\ ActiveOn(s)' \subseteq ActiveOn(s) \cup {r}
    BY <1>0, <1>1, <1>2 DEF ActiveOn, Active
<1>6. AloneInv'
    <2> SUFFICES ASSUME NEW x \in Sources, NEW q \in Runs, last'[x] = q, ingest'[q].alone
                 PROVE  ActiveOn(x)' \subseteq {q}
        BY DEF AloneInv
    <2>1. CASE x = s
        BY <1>2, <1>5, <1>b, <2>1
    <2>2. CASE x # s
        <3>1. last[x] = q /\ q # r /\ ingest[q].alone
            BY <1>1, <1>a, <2>2
        <3> QED
            BY <1>5, <2>2, <3>1 DEF AloneInv
    <2> QED
        BY <2>1, <2>2
<1>7. ReplaceInv'
    <2> SUFFICES ASSUME NEW x \in Sources, NEW q \in Runs, Counts(x, q)'
                 PROVE  Replaced(x, q)'
        BY DEF ReplaceInv
    <2>1. CASE x = s
        <3>1. q = r /\ st = "listing" /\ mark
            BY <1>b, <1>2, <2>1 DEF Counts
        <3> QED
            BY <1>2, <2>1, <3>1 DEF Replaced, StoredBy
    <2>2. CASE x # s
        <3>1. q # r /\ Counts(x, q)
            BY <1>1, <1>a, <2>2 DEF Counts
        <3>2. StoredBy(q)' = StoredBy(q) /\ LiveOf(x)' = LiveOf(x) /\ Replaced(x, q)
            BY <1>1, <2>2, <3>1 DEF StoredBy, ReplaceInv
        <3>3. \A t : OnlyReadIn(t, x)' => OnlyReadIn(t, x)
            BY <1>0, <1>1 DEF OnlyReadIn
        <3> QED
            BY <3>2, <3>3 DEF Replaced
    <2> QED
        BY <2>1, <2>2
<1>8. FollowInv'
    BY <1>1, <1>d, IndexStepFollows
<1> QED
    BY <1>3, <1>4, <1>6, <1>7, <1>8

\* Steps of an ingest that leave the points.
LEMMA StageKeeps ==
    ASSUME Inv, NEW r \in Runs,
           ListFiles(r) \/ Raise(r) \/ Finish(r) \/ FinishScript(r) \/ (\E t \in Texts : Skip(r, t))
    PROVE  Inv'
<1> USE DEF Inv
<1> PICK src : src = ingest[r].source
    OBVIOUS
<1>0. /\ ingest[r] \in Ingest /\ Staged(ingest[r]) /\ Active(r)
      /\ UNCHANGED <<content, last, point>> /\ point \in [Texts -> Point]
    BY DEF TypeInv, RunInv, ListFiles, Raise, Finish, FinishScript, End, Skip, Active
<1>a. src \in Sources
    BY <1>0 DEF Active, Staged, Ingest
<1>b. \A x : LiveOf(x)' = LiveOf(x)
    BY <1>0 DEF LiveOf
<1>c. Counts(src, r) => Replaced(src, r)
    BY <1>a DEF ReplaceInv
<1>1. CASE ListFiles(r)
    <2> DEFINE texts == content[src]
    <2> DEFINE rec == [ingest[r] EXCEPT !.st = "storing", !.read = texts, !.left = texts]
    <2>1. ingest' = [ingest EXCEPT ![r] = rec] /\ UNCHANGED <<point, index>> /\ ingest[r].st = "listing"
        BY <1>1 DEF ListFiles
    <2>2. texts \subseteq Texts
        BY <1>a DEF TypeInv
    <2>3. /\ rec \in Ingest /\ rec.st = "storing" /\ rec.source = src /\ rec.alone = ingest[r].alone
          /\ rec.read = texts /\ rec.left = texts /\ rec.lost = {} /\ rec.marked = ingest[r].marked
          /\ rec.script = ingest[r].script
          /\ ingest[r].read = {} /\ ingest[r].lost = {}
        BY <1>0, <2>1, <2>2 DEF Ingest, RunStates, Staged
    <2>4. ingest'[r] = rec
        BY <2>1 DEF TypeInv
    <2>5. Staged(rec)
        BY <1>a, <2>3, IndexAssumption DEF Staged
    <2> HIDE DEF rec, texts
    <2>6. Counts(src, r)' => Counts(src, r)
        BY <1>0, <2>1, <2>3, <2>4 DEF Counts
    <2>7. StoredBy(r) = {} /\ StoredBy(r)' = {}
        BY <2>3, <2>4 DEF StoredBy
    <2>8. Counts(src, r)' => Replaced(src, r)'
        BY <1>b, <1>c, <2>3, <2>4, <2>6, <2>7 DEF Replaced
    <2> QED
        BY <1>0, <1>b, <2>1, <2>3, <2>5, <2>8, RunKeeps DEF IndexStep
<1>2. CASE Raise(r)
    <2> DEFINE rec == [ingest[r] EXCEPT !.st = "failed"]
    <2>1. ingest' = [ingest EXCEPT ![r] = rec] /\ UNCHANGED <<point, index>>
        BY <1>2 DEF Raise
    <2>2. /\ rec \in Ingest /\ rec.st = "failed" /\ rec.source = src /\ rec.alone = ingest[r].alone
          /\ rec.read = ingest[r].read /\ rec.left = ingest[r].left /\ rec.lost = ingest[r].lost
          /\ rec.script = ingest[r].script
        BY <1>0 DEF Ingest, RunStates
    <2>3. Staged(rec)
        BY <1>0, <1>a, <2>2, IndexAssumption DEF Staged
    <2>4. ingest'[r] = rec
        BY <2>1 DEF TypeInv
    <2> HIDE DEF rec
    <2>5. ~Counts(src, r)'
        BY <2>2, <2>4 DEF Counts
    <2> QED
        BY <1>0, <1>b, <2>1, <2>2, <2>3, <2>5, RunKeeps DEF IndexStep
<1>3. CASE Finish(r) \/ FinishScript(r)
    <2> DEFINE rec == [ingest[r] EXCEPT !.st = "done"]
    <2>1. /\ ingest' = [ingest EXCEPT ![r] = rec]
          /\ IF ingest[r].script THEN UNCHANGED <<point, index>>
             ELSE UNCHANGED point /\ index' = [index EXCEPT ![ProjectOf[src]] = Unbuilt]
          /\ ingest[r].st = "storing" /\ ingest[r].left = {}
        BY <1>3 DEF Finish, FinishScript, End
    <2>2. /\ rec \in Ingest /\ rec.st = "done" /\ rec.source = src /\ rec.alone = ingest[r].alone
          /\ rec.read = ingest[r].read /\ rec.left = ingest[r].left /\ rec.lost = ingest[r].lost
          /\ rec.script = ingest[r].script
          /\ rec.marked = ingest[r].marked
        BY <1>0 DEF Ingest, RunStates
    <2>3. Staged(rec)
        BY <1>0, <1>a, <2>1, <2>2, IndexAssumption DEF Staged
    <2>4. \A q \in Runs : ingest'[q] = IF q = r THEN rec ELSE ingest[q]
        BY <2>1 DEF TypeInv
    <2> HIDE DEF rec
    <2>5. Counts(src, r)' => Counts(src, r)
        BY <1>0, <2>1, <2>2, <2>4 DEF Counts
    <2>6. StoredBy(r)' = StoredBy(r) /\ \A t : OnlyReadIn(t, src)' => OnlyReadIn(t, src)
        BY <2>2, <2>4 DEF StoredBy, OnlyReadIn
    <2>8. Counts(src, r)' => Replaced(src, r)'
        BY <1>b, <1>c, <2>5, <2>6 DEF Replaced
    <2> QED
        BY <1>0, <1>b, <2>1, <2>2, <2>3, <2>8, RunKeeps DEF IndexStep
<1>4. ASSUME NEW t \in Texts, Skip(r, t) PROVE Inv'
    <2> DEFINE rec == [ingest[r] EXCEPT !.left = @ \ {t}, !.lost = @ \cup {t}]
    <2>1. /\ ingest' = [ingest EXCEPT ![r] = rec] /\ UNCHANGED <<point, index>>
          /\ ingest[r].st = "storing" /\ t \in ingest[r].left
        BY <1>4 DEF Skip
    <2>2. /\ rec \in Ingest /\ rec.st = "storing" /\ rec.source = src /\ rec.alone = ingest[r].alone
          /\ rec.read = ingest[r].read /\ rec.left = ingest[r].left \ {t}
          /\ rec.lost = ingest[r].lost \cup {t} /\ rec.marked = ingest[r].marked
          /\ rec.script = ingest[r].script
        BY <1>0, <2>1 DEF Ingest, RunStates
    <2>3. Staged(rec)
        BY <1>0, <1>a, <2>1, <2>2, IndexAssumption DEF Staged
    <2>4. \A q \in Runs : ingest'[q] = IF q = r THEN rec ELSE ingest[q]
        BY <2>1 DEF TypeInv
    <2> HIDE DEF rec
    <2>5. Counts(src, r)' => Counts(src, r)
        BY <1>0, <2>1, <2>2, <2>4 DEF Counts
    <2>6. StoredBy(r)' = StoredBy(r) /\ \A u : OnlyReadIn(u, src)' => OnlyReadIn(u, src)
        BY <2>1, <2>2, <2>4 DEF StoredBy, OnlyReadIn
    <2>8. Counts(src, r)' => Replaced(src, r)'
        BY <1>b, <1>c, <2>5, <2>6 DEF Replaced
    <2> QED
        BY <1>0, <1>b, <2>1, <2>2, <2>3, <2>8, RunKeeps DEF IndexStep
<1> QED
    BY <1>1, <1>2, <1>3, <1>4

\* Storing a chunk: the text is the source's, and taken from any other.
LEMMA StoreKeeps ==
    ASSUME Inv, NEW r \in Runs, NEW t \in Texts, Store(r, t)
    PROVE  Inv'
<1> USE DEF Inv
<1> PICK src : src = ingest[r].source
    OBVIOUS
<1> DEFINE rec == [ingest[r] EXCEPT !.left = @ \ {t}]
<1>0. /\ ingest[r] \in Ingest /\ Staged(ingest[r]) /\ Active(r)
      /\ ingest[r].st = "storing" /\ t \in ingest[r].left
      /\ ingest' = [ingest EXCEPT ![r] = rec] /\ UNCHANGED <<content, last>> /\ NoteWriter(r)
    BY DEF TypeInv, RunInv, Store, Active
<1>a. src \in Sources
    BY <1>0 DEF Active, Staged, Ingest
<1>b. /\ point' \in [Texts -> Point] /\ LiveOf(src)' = LiveOf(src) \cup {t}
      /\ \A x \in Sources \ {src} : LiveOf(x)' = LiveOf(x) \ {t}
    BY <1>a, UpsertLive DEF Store
<1>1. /\ rec \in Ingest /\ rec.st = "storing" /\ rec.source = src /\ rec.alone = ingest[r].alone
      /\ rec.read = ingest[r].read /\ rec.left = ingest[r].left \ {t}
      /\ rec.lost = ingest[r].lost /\ rec.marked = ingest[r].marked
      /\ rec.script = ingest[r].script
    BY <1>0 DEF Ingest, RunStates
<1>2. Staged(rec) /\ t \in rec.read
    BY <1>0, <1>a, <1>1, IndexAssumption DEF Staged
<1>3. \A q \in Runs : ingest'[q] = IF q = r THEN rec ELSE ingest[q]
    BY <1>0 DEF TypeInv
<1> HIDE DEF rec
<1>4. Counts(src, r)' => Counts(src, r)
    BY <1>0, <1>1, <1>3 DEF Counts
<1>5. StoredBy(r)' = StoredBy(r) \cup {t} /\ \A u : OnlyReadIn(u, src)' => OnlyReadIn(u, src)
    BY <1>0, <1>1, <1>3 DEF StoredBy, OnlyReadIn, Staged
<1>6. Counts(src, r)' => Replaced(src, r)'
    BY <1>a, <1>b, <1>4, <1>5 DEF Replaced, ReplaceInv
<1>7. \A x \in Sources \ {src} :
          LiveOf(x)' \subseteq LiveOf(x) /\ LiveOf(x) \subseteq LiveOf(x)' \cup rec.read
    BY <1>b, <1>2
<1> QED
    BY <1>0, <1>1, <1>2, <1>6, <1>7, <1>b, RunKeeps DEF IndexStep

LEMMA MarkOrNotLive ==
    ASSUME TypeInv, NEW s \in Sources, NEW mark \in BOOLEAN, MarkOrNot(s, mark)
    PROVE  /\ point' \in [Texts -> Point] /\ (mark = TRUE => LiveOf(s)' = {})
           /\ \A x \in Sources \ {s} : LiveOf(x)' = LiveOf(x)
<1>1. CASE mark = TRUE
    BY <1>1, MarkLive DEF MarkOrNot
<1>2. CASE mark = FALSE
    BY <1>2 DEF MarkOrNot, TypeInv, LiveOf
<1> QED
    BY <1>1, <1>2

LEMMA MarkFetchedKeeps ==
    ASSUME Inv, NEW r \in Runs, MarkFetched(r)
    PROVE  Inv'
<1> USE DEF Inv
<1>s. PICK src : src = ingest[r].source
    OBVIOUS
<1>m. PICK mark \in BOOLEAN :
        /\ MarkOrNot(src, mark)
        /\ ingest' = [ingest EXCEPT ![r].st = "storing", ![r].marked = mark]
    BY <1>s DEF MarkFetched
<1> DEFINE rec == [ingest[r] EXCEPT !.st = "storing", !.marked = mark]
<1>0. /\ ingest[r] \in Ingest /\ Staged(ingest[r]) /\ Active(r) /\ ingest[r].st = "fetched"
      /\ ingest' = [ingest EXCEPT ![r] = rec] /\ UNCHANGED <<content, last>> /\ NoteWriter(r)
    BY <1>m DEF TypeInv, RunInv, MarkFetched, Active
<1>a. src \in Sources
    BY <1>0, <1>s DEF Active, Staged, Ingest
<1>b. /\ point' \in [Texts -> Point] /\ (mark = TRUE => LiveOf(src)' = {})
      /\ \A x \in Sources \ {src} : LiveOf(x)' = LiveOf(x)
    BY <1>a, <1>m, MarkOrNotLive
<1>1. /\ rec \in Ingest /\ rec.st = "storing" /\ rec.source = src /\ rec.alone = ingest[r].alone
      /\ rec.read = ingest[r].read /\ rec.left = ingest[r].left
      /\ rec.lost = ingest[r].lost /\ rec.marked = mark /\ rec.script = ingest[r].script
    BY <1>0, <1>s DEF Ingest, RunStates
<1>2. Staged(rec)
    BY <1>0, <1>a, <1>1, IndexAssumption DEF Staged
<1>3. ingest'[r] = rec
    BY <1>0 DEF TypeInv
<1> HIDE DEF rec
<1>4. StoredBy(r)' = {}
    BY <1>0, <1>1, <1>3 DEF StoredBy, Staged
<1>5. Counts(src, r)' => Replaced(src, r)'
    <2> SUFFICES ASSUME Counts(src, r)' PROVE Replaced(src, r)'
        OBVIOUS
    <2>1. mark = TRUE
        BY <1>1, <1>3 DEF Counts
    <2>2. LiveOf(src)' = {}
        BY <1>b, <2>1
    <2> QED
        BY <1>4, <2>2 DEF Replaced
<1> QED
    BY <1>0, <1>1, <1>2, <1>5, <1>b, <1>s, RunKeeps DEF IndexStep

LEMMA BeginsKeep ==
    ASSUME Inv, NEW r \in Runs, NEW s \in Sources, BeginLocal(r, s) \/ BeginFetch(r, s)
    PROVE  Inv'
<1>1. CASE BeginLocal(r, s)
    <2> PICK script \in BOOLEAN, mark \in BOOLEAN :
            MarkOrNot(s, mark) /\ ingest' = Begun(r, s, script, "listing", {}, mark)
        BY <1>1 DEF BeginLocal
    <2>1. /\ ingest[r].st = "idle" /\ last' = [last EXCEPT ![s] = r]
          /\ UNCHANGED content /\ NoteWriter(r)
        BY <1>1 DEF BeginLocal
    <2>2. /\ point' \in [Texts -> Point] /\ (mark = TRUE => LiveOf(s)' = {})
          /\ \A x \in Sources \ {s} : LiveOf(x)' = LiveOf(x)
        BY MarkOrNotLive DEF Inv
    <2>3. CASE mark = TRUE
        <3>1. ingest' = Begun(r, s, script, "listing", {}, TRUE) /\ LiveOf(s)' = {}
            BY <2>2, <2>3
        <3> QED
            BY <2>1, <2>2, <3>1, BeginKeeps
    <2>4. CASE mark = FALSE
        <3>1. ingest' = Begun(r, s, script, "listing", {}, FALSE)
            BY <2>4
        <3> QED
            BY <2>1, <2>2, <3>1, BeginKeeps
    <2> QED
        BY <2>3, <2>4
<1>2. CASE BeginFetch(r, s)
    <2>1. /\ ingest[r].st = "idle" /\ last' = [last EXCEPT ![s] = r]
          /\ UNCHANGED <<content, index, point>>
        BY <1>2 DEF BeginFetch
    <2> PICK script \in BOOLEAN : ingest' = Begun(r, s, script, "fetched", content[s], FALSE)
        BY <1>2 DEF BeginFetch
    <2>2. content[s] \in SUBSET Texts /\ point' \in [Texts -> Point]
        BY <2>1 DEF Inv, TypeInv
    <2>3. \A x : LiveOf(x)' = LiveOf(x)
        BY <2>1 DEF LiveOf
    <2> QED
        BY <2>1, <2>2, <2>3, BeginKeeps
<1> QED
    BY <1>1, <1>2

-----------------------------------------------------------------------------
(* Retrieval, clearing, restarts, edits.                                   *)

LEMMA RetrieveKeeps ==
    ASSUME Inv, NEW p \in Projects, Retrieve(p)
    PROVE  Inv'
<1> USE DEF Inv
<1>0. /\ index' = [index EXCEPT ![p] = [Unbuilt EXCEPT !.built = TRUE, !.texts = Live(p)]]
      /\ UNCHANGED <<content, point, ingest, last>>
    BY DEF Retrieve
<1>1. Live(p) \subseteq Texts
    BY DEF Live, LiveOf
<1>2. TypeInv'
    <2>1. [Unbuilt EXCEPT !.built = TRUE, !.texts = Live(p)] \in Built
        BY <1>1 DEF Unbuilt, Built
    <2> QED
        BY <1>0, <2>1 DEF TypeInv
<1>3. RunInv' /\ AloneInv'
    BY <1>0 DEF RunInv, AloneInv, ActiveOn, Active
<1>4. ReplaceInv'
    BY <1>0 DEF ReplaceInv, Counts, Replaced, LiveOf, StoredBy, OnlyReadIn
<1>5. FollowInv'
    <2> SUFFICES ASSUME NEW q \in Projects
                 PROVE  /\ \A r \in index'[q].writers : ~EndedWell(r, q)'
                        /\ index'[q].built /\ ~index'[q].outdated /\ index'[q].writers = {} =>
                               index'[q].texts = Live(q)'
        BY DEF FollowInv
    <2>1. Live(q)' = Live(q) /\ \A r : EndedWell(r, q)' <=> EndedWell(r, q)
        BY <1>0 DEF Live, LiveOf, EndedWell
    <2>2. CASE q = p
        BY <1>0, <2>1, <2>2 DEF TypeInv, Unbuilt
    <2>3. CASE q # p
        <3>1. index'[q] = index[q]
            BY <1>0, <2>3 DEF TypeInv
        <3> QED
            BY <2>1, <3>1 DEF FollowInv
    <2> QED
        BY <2>2, <2>3
<1> QED
    BY <1>2, <1>3, <1>4, <1>5

LEMMA ClearKeeps ==
    ASSUME Inv, NEW p \in Projects, ClearChunks(p)
    PROVE  Inv'
<1> USE IndexAssumption DEF Inv
<1> DEFINE ofProject == {s \in Sources : ProjectOf[s] = p}
<1>0. /\ point' = [t \in Texts |-> IF point[t].owner \in ofProject THEN NoPoint ELSE point[t]]
      /\ last' = [s \in Sources |-> IF s \in ofProject THEN None ELSE last[s]]
      /\ index' = [index EXCEPT ![p].outdated = index[p].built]
      /\ UNCHANGED <<content, ingest>>
    BY DEF ClearChunks
<1>1. TypeInv'
    <2>1. point' \in [Texts -> Point]
        BY <1>0 DEF TypeInv, NoPoint, Point
    <2>2. last' \in [Sources -> Runs \cup {None}]
        BY <1>0 DEF TypeInv
    <2>3. index[p] \in Built
        BY DEF TypeInv
    <2>4. [index[p] EXCEPT !.outdated = index[p].built] \in Built
        BY <2>3 DEF Built
    <2>5. index' \in [Projects -> Built]
        BY <1>0, <2>4 DEF TypeInv
    <2> QED
        BY <1>0, <2>1, <2>2, <2>5 DEF TypeInv
<1>2. \A s \in Sources, r \in Runs : last'[s] = r => last[s] = r /\ s \notin ofProject
    BY <1>0
<1>3. RunInv' /\ AloneInv'
    BY <1>0, <1>2 DEF RunInv, AloneInv, ActiveOn, Active
<1>4. \A s \in Sources \ ofProject : LiveOf(s)' = LiveOf(s)
    BY <1>0 DEF LiveOf, NoPoint
<1>5. ReplaceInv'
    <2> SUFFICES ASSUME NEW s \in Sources, NEW r \in Runs, Counts(s, r)'
                 PROVE  Replaced(s, r)'
        BY DEF ReplaceInv
    <2>1. Counts(s, r) /\ s \notin ofProject
        BY <1>0, <1>2 DEF Counts
    <2>2. LiveOf(s)' = LiveOf(s) /\ StoredBy(r)' = StoredBy(r)
        BY <1>0, <1>4, <2>1 DEF StoredBy
    <2>3. \A t : OnlyReadIn(t, s)' => OnlyReadIn(t, s)
        BY <1>0 DEF OnlyReadIn
    <2> QED
        BY <2>1, <2>2, <2>3 DEF ReplaceInv, Replaced
<1>6. FollowInv'
    <2> SUFFICES ASSUME NEW q \in Projects
                 PROVE  /\ \A r \in index'[q].writers : ~EndedWell(r, q)'
                        /\ index'[q].built /\ ~index'[q].outdated /\ index'[q].writers = {} =>
                               index'[q].texts = Live(q)'
        BY DEF FollowInv
    <2>1. \A r : EndedWell(r, q)' <=> EndedWell(r, q)
        BY <1>0 DEF EndedWell
    <2>2. CASE q = p
        <3>1. index[p] \in Built
            BY DEF TypeInv
        <3>2. /\ index'[p].writers = index[p].writers /\ index'[p].built = index[p].built
              /\ index'[p].outdated = index[p].built
            BY <1>0, <3>1 DEF TypeInv, Built
        <3> QED
            BY <2>1, <2>2, <3>2 DEF FollowInv
    <2>3. CASE q # p
        <3>1. index'[q] = index[q]
            BY <1>0, <2>3 DEF TypeInv
        <3>2. \A x \in {s \in Sources : ProjectOf[s] = q} : LiveOf(x)' = LiveOf(x)
            BY <1>4, <2>3
        <3>3. Live(q)' = Live(q)
            BY <3>2 DEF Live
        <3> QED
            BY <2>1, <3>1, <3>3 DEF FollowInv
    <2> QED
        BY <2>2, <2>3
<1> QED
    BY <1>1, <1>3, <1>5, <1>6

LEMMA RestartKeeps ==
    ASSUME Inv, Restart
    PROVE  Inv'
<1> USE DEF Inv
<1>0. /\ index' = [p \in Projects |-> Unbuilt] /\ UNCHANGED <<content, point, last>>
      /\ ingest' = [r \in Runs |-> IF Active(r) /\ ~ingest[r].script
                                   THEN [ingest[r] EXCEPT !.st = "failed"]
                                   ELSE ingest[r]]
    BY DEF Restart
<1>1. \A r \in Runs :
          /\ ingest'[r] \in Ingest /\ Staged(ingest'[r])
          /\ ingest'[r].source = ingest[r].source /\ ingest'[r].alone = ingest[r].alone
          /\ ingest'[r].read = ingest[r].read
          /\ ingest'[r].st \in {"listing", "storing", "done"} => ingest'[r] = ingest[r]
    <2> SUFFICES ASSUME NEW r \in Runs
                 PROVE  /\ ingest'[r] \in Ingest /\ Staged(ingest'[r])
                        /\ ingest'[r].source = ingest[r].source
                        /\ ingest'[r].alone = ingest[r].alone
                        /\ ingest'[r].read = ingest[r].read
                        /\ ingest'[r].st \in {"listing", "storing", "done"} =>
                               ingest'[r] = ingest[r]
        OBVIOUS
    <2>1. ingest[r] \in Ingest /\ Staged(ingest[r])
        BY DEF TypeInv, RunInv
    <2>2. CASE Active(r) /\ ~ingest[r].script
        <3>1. ingest'[r] = [ingest[r] EXCEPT !.st = "failed"]
            BY <1>0, <2>2
        <3>2. /\ ingest'[r] \in Ingest /\ ingest'[r].st = "failed"
              /\ ingest'[r].source = ingest[r].source /\ ingest'[r].alone = ingest[r].alone
              /\ ingest'[r].read = ingest[r].read /\ ingest'[r].left = ingest[r].left
              /\ ingest'[r].lost = ingest[r].lost
            BY <2>1, <3>1 DEF Ingest, RunStates
        <3> QED
            BY <2>1, <2>2, <3>2 DEF Staged, Active
    <2>3. CASE ~(Active(r) /\ ~ingest[r].script)
        BY <1>0, <2>1, <2>3
    <2> QED
        BY <2>2, <2>3
<1>2. TypeInv'
    <2>1. ingest' \in [Runs -> Ingest]
        BY <1>0, <1>1
    <2>2. Unbuilt \in Built
        BY DEF Unbuilt, Built
    <2> QED
        BY <1>0, <2>1, <2>2 DEF TypeInv
<1>3. RunInv'
    BY <1>0, <1>1 DEF RunInv
<1>4. AloneInv'
    <2>1. \A s : ActiveOn(s)' \subseteq ActiveOn(s)
        BY <1>0, <1>1 DEF ActiveOn, Active
    <2> QED
        BY <1>0, <1>1, <2>1 DEF AloneInv
<1>5. ReplaceInv'
    <2> SUFFICES ASSUME NEW s \in Sources, NEW r \in Runs, Counts(s, r)'
                 PROVE  Replaced(s, r)'
        BY DEF ReplaceInv
    <2>1. ingest'[r] = ingest[r] /\ Counts(s, r)
        BY <1>0, <1>1 DEF Counts
    <2>2. LiveOf(s)' = LiveOf(s) /\ StoredBy(r)' = StoredBy(r)
        BY <1>0, <2>1 DEF LiveOf, StoredBy
    <2>3. \A t : OnlyReadIn(t, s)' => OnlyReadIn(t, s)
        BY <1>1 DEF OnlyReadIn
    <2> QED
        BY <2>1, <2>2, <2>3 DEF ReplaceInv, Replaced
<1>6. FollowInv'
    BY <1>0 DEF FollowInv, Unbuilt
<1> QED
    BY <1>2, <1>3, <1>4, <1>5, <1>6

\* Edits of the documents, and stuttering.
LEMMA OthersKeep ==
    ASSUME Inv, content' \in [Sources -> SUBSET Texts], UNCHANGED <<point, ingest, last, index>>
    PROVE  Inv'
<1> USE DEF Inv
<1>1. TypeInv' /\ RunInv' /\ AloneInv'
    BY DEF TypeInv, RunInv, AloneInv, ActiveOn, Active
<1>2. ReplaceInv'
    BY DEF ReplaceInv, Counts, Replaced, LiveOf, StoredBy, OnlyReadIn
<1>3. FollowInv'
    BY DEF FollowInv, EndedWell, Live, LiveOf
<1> QED
    BY <1>1, <1>2, <1>3

LEMMA NextInv == Inv /\ [Next]_vars => Inv'
<1> SUFFICES ASSUME Inv, [Next]_vars PROVE Inv'
    OBVIOUS
<1>1. ASSUME NEW r \in Runs, IngestStep(r) PROVE Inv'
    BY <1>1, BeginsKeep, StageKeeps, MarkFetchedKeeps, StoreKeeps DEF IngestStep
<1>2. ASSUME NEW p \in Projects, Retrieve(p) \/ ClearChunks(p) PROVE Inv'
    BY <1>2, RetrieveKeeps, ClearKeeps
<1>3. ASSUME NEW s \in Sources, NEW texts \in SUBSET Texts, Edit(s, texts) PROVE Inv'
    BY <1>3, OthersKeep DEF Edit, Inv, TypeInv
<1>4. CASE Restart
    BY <1>4, RestartKeeps
<1>5. CASE UNCHANGED vars
    BY <1>5, OthersKeep DEF vars, Inv, TypeInv
<1> QED
    BY <1>1, <1>2, <1>3, <1>4, <1>5 DEF Next

\* An ingest that nothing disturbed leaves exactly what it read of its source
\* to be found (mark_stale, upsert).
THEOREM IngestsReplace == Spec => []IngestReplacesSource
BY InitInv, NextInv, InvSuffices, PTL DEF Spec

\* The keyword index agrees with the store but for a clear and for what was
\* changed since it was built by an ingest that is not done, failed, belongs to
\* another project or was a script's (_get_or_build_bm25, _invalidate_bm25).
THEOREM IndexFollows == Spec => []IndexFollowsStore
BY InitInv, NextInv, InvSuffices, PTL DEF Spec

-----------------------------------------------------------------------------
(* DocumentIngest: the inductive invariant, stage by stage.                *)

Piece == Nat \X Nat
Parent == [pieces : Seq(Piece), size : Nat]
SectionOf == [title : Nat, isolated : BOOLEAN, members : Seq(Nat)]

GroupTypes ==
    /\ elements \in Seq(ElementRecords)
    /\ at \in Nat \ {0} /\ at - 1 <= Len(elements)
    /\ open \in SectionOf /\ sections \in Seq(SectionOf)

HeadingsOf(e, i) == {h \in 1..i - 1 : e[h].kind \in {"title", "doctitle"}}

\* What SectionsHoldElements says of one section, and of some of them.
Good(e, s) ==
    /\ IsInjective(s.members)
    /\ s.isolated => Len(s.members) = 1
    /\ \A i \in Range(s.members) :
         /\ s.title = Max(HeadingsOf(e, i) \cup {0})
         /\ (e[i].kind = "table") = s.isolated

Held(e, all, T) ==
    /\ T = UNION {Range(s.members) : s \in Range(all)}
    /\ \A k, l \in DOMAIN all :
         k # l => Range(all[k].members) \cap Range(all[l].members) = {}
    /\ \A s \in Range(all) : Good(e, s)

\* The sections ss, and o with other members, hold T together.
HeldWith(e, ss, o, T) ==
    \E U : /\ Held(e, ss, U) /\ Good(e, o)
           /\ U \cap Range(o.members) = {} /\ T = U \cup Range(o.members)

Filled(ss) == \A s \in Range(ss) : s.members # <<>>

GroupInv ==
    /\ GroupTypes
    /\ phase \notin {"elements", "sections"} => NoGrouping
    /\ phase = "elements" => open.title = Max(Headings(at) \cup {0})
    /\ ~open.isolated
    /\ Filled(sections)
    /\ SectionsHoldElements

PackTypes ==
    /\ doc \in Seq(Paragraphs) /\ para \in Nat \ {0} /\ sentence \in Nat \ {0}
    /\ current \in Parent /\ parents \in Seq(Parent)

PackInv ==
    /\ PackTypes
    /\ phase \notin {"paragraphs", "sentences", "parents"} => NoPacking
    /\ phase = "sentences" => /\ para \in DOMAIN doc /\ doc[para].size > ParentMax
                              /\ sentence - 1 <= Len(doc[para].sentences)
    /\ ParentsHoldDocument

Child == [from : Nat, to : Nat]

CutInv ==
    /\ phase # "children" => NoCutting
    /\ phase = "children" => text \in ParentTexts
    /\ start \in 0..Length /\ children \in Seq(Child)
    /\ children # <<>> => children[Len(children)].to - start <= Overlap
    /\ ChildrenCoverText

ChunkOf == [id : PointIds, part : Int, index : Int, page : Nat]
Payload == [doc : {"none", "this", "other"}, stale : BOOLEAN, index : Int, page : Nat]

StoreTypes ==
    /\ chunks \in Seq(ChunkOf) /\ tables \in Nat
    /\ payload \in [PointIds -> Payload] /\ marked \in BOOLEAN
    /\ stored \in 0..Len(chunks) /\ skipped \subseteq 1..stored
    /\ phase \notin {"storing", "done", "failed"} => stored = 0
    /\ phase = "reading" => chunks = <<>>

InTurn(c, d) == InOrder(c, d) => SortsBefore(c, d)

ChunksInv ==
    /\ \A i \in DOMAIN chunks :
         \/ chunks[i].part = Image /\ chunks[i].index = NoIndex
         \/ chunks[i].part \in 0..tables /\ chunks[i].index \in Nat
    /\ \A i, j \in DOMAIN chunks : i < j => InTurn(chunks[i], chunks[j])

Mine(c) == [doc |-> "this", stale |-> FALSE, index |-> c.index, page |-> c.page]

RecallInv ==
    /\ \A i \in Kept : chunks[i].id \in Recalled \/ TakenOver(i)
    /\ \A i \in 1..stored : Survives(i) => payload[chunks[i].id] = Mine(chunks[i])
    /\ phase \in {"storing", "done"} /\ chunks # <<>> /\ marked =>
         \A t \in Recalled : \E i \in Kept : chunks[i].id = t

\* A nonempty set of naturals has a least element.
LEMMA LeastNatural ==
    ASSUME NEW T, T \subseteq Nat, T # {}
    PROVE  \E n \in T : \A m \in T : n <= m
<1> DEFINE R == OpToRel(<, Nat)
<1>1. R = {ss \in Nat \X Nat : ss[1] < ss[2]}
  BY DEF OpToRel
<1>2. IsWellFoundedOn(R, Nat)
  BY NatLessThanWellFounded
<1> HIDE DEF R
<1>3. PICK x \in T : \A y \in T : <<y, x>> \notin R
  BY <1>2, WFMin
<1>4. \A y \in T : ~(y < x)
  BY <1>1, <1>3
<1>5. QED
  BY <1>4

\* Max and Min of a nonempty part of an interval.
LEMMA MaxInInterval ==
    ASSUME NEW a \in Int, NEW b \in Int, NEW S, S \subseteq a..b, S # {}
    PROVE  Max(S) \in S /\ \A y \in S : y <= Max(S)
<1> DEFINE D == {n \in Nat : b - n \in S}
<1>1. \A m \in S : m \in Int /\ b - m \in D
  <2>1. \A m \in S : m \in Int /\ b - m \in Nat /\ b - (b - m) = m
    OBVIOUS
  <2> QED BY <2>1
<1>2. PICK d \in D : \A m \in D : d <= m
  BY <1>1, LeastNatural
<1>3. \A m \in S : b - d >= m
  <2>1. \A m \in S : d <= b - m
    BY <1>1, <1>2
  <2> QED BY <1>1, <1>2, <2>1
<1>4. \E x \in S : \A y \in S : x >= y
  BY <1>2, <1>3
<1>5. Max(S) \in S /\ \A y \in S : Max(S) >= y
  BY <1>4, Zenon DEF Max
<1> QED BY <1>1, <1>5

LEMMA MinInInterval ==
    ASSUME NEW a \in Int, NEW b \in Int, NEW S, S \subseteq a..b, S # {}
    PROVE  Min(S) \in S /\ \A y \in S : Min(S) <= y
<1> DEFINE D == {n \in Nat : a + n \in S}
<1>1. \A m \in S : m \in Int /\ m - a \in D
  <2>1. \A m \in S : m \in Int /\ m - a \in Nat /\ a + (m - a) = m
    OBVIOUS
  <2> QED BY <2>1
<1>2. PICK d \in D : \A m \in D : d <= m
  BY <1>1, LeastNatural
<1>3. \A m \in S : a + d =< m
  <2>1. \A m \in S : d <= m - a
    BY <1>1, <1>2
  <2> QED BY <1>1, <1>2, <2>1
<1>4. \E x \in S : \A y \in S : x =< y
  BY <1>2, <1>3
<1>5. Min(S) \in S /\ \A y \in S : Min(S) =< y
  BY <1>4, Zenon DEF Min
<1> QED BY <1>5

-----------------------------------------------------------------------------
(* Cutting: _split_child_chunks.                                           *)

LEMMA SixPlaces ==
    ASSUME NEW a, NEW b, NEW c, NEW d, NEW e, NEW f
    PROVE  DOMAIN <<a, b, c, d, e, f>> = 1..6
  OBVIOUS

\* A break point never lies behind the end that was aimed at.
LEMMA BreakPointBefore ==
    ASSUME NEW ideal \in Nat
    PROVE  FindBreakPoint(ideal) \in Int /\ FindBreakPoint(ideal) <= ideal
<1> DEFINE from == (ideal * 8) \div 10
           ends == { i \in DOMAIN SentenceEnds : Pairs(SentenceEnds[i], from, ideal) # {} }
           breaks == Pairs(<<"\n", "\n">>, from, ideal)
           spaces == Spaces((ideal * 9) \div 10, ideal)
<1>1. from \in Int /\ (ideal * 9) \div 10 \in Int
  OBVIOUS
<1> HIDE DEF from
<1>2. \A pair : Pairs(pair, from, ideal) # {} =>
                  /\ Max(Pairs(pair, from, ideal)) + 2 \in Int
                  /\ Max(Pairs(pair, from, ideal)) + 2 <= ideal
  <2> TAKE pair
  <2> HAVE Pairs(pair, from, ideal) # {}
  <2>1. Pairs(pair, from, ideal) \subseteq from..ideal - 2
    BY DEF Pairs
  <2>2. Max(Pairs(pair, from, ideal)) \in from..ideal - 2
    BY <1>1, <2>1, MaxInInterval
  <2> QED BY <1>1, <2>2
<1>3. ends # {} => Min(ends) \in ends
  <2>1. DOMAIN SentenceEnds = 1..6
    BY SixPlaces, Zenon DEF SentenceEnds
  <2>2. ends \subseteq 1..6
    BY <2>1
  <2> HIDE DEF ends
  <2> QED BY <2>2, 1 \in Int, 6 \in Int, MinInInterval, Zenon
<1>4. CASE ends # {}
  <2>1. FindBreakPoint(ideal) = Max(Pairs(SentenceEnds[Min(ends)], from, ideal)) + 2
    BY <1>4 DEF FindBreakPoint, from
  <2>2. Pairs(SentenceEnds[Min(ends)], from, ideal) # {}
    BY <1>3, <1>4
  <2> QED BY <1>2, <2>1, <2>2
<1>5. CASE ends = {} /\ breaks # {}
  <2>1. FindBreakPoint(ideal) = Max(breaks) + 2
    BY <1>5 DEF FindBreakPoint, from
  <2> QED BY <1>2, <1>5, <2>1
<1>6. CASE ends = {} /\ breaks = {} /\ spaces # {}
  <2>1. FindBreakPoint(ideal) = Max(spaces) + 1
    BY <1>6 DEF FindBreakPoint, from
  <2>2. spaces \subseteq ((ideal * 9) \div 10)..ideal - 1
    BY DEF Spaces
  <2>3. Max(spaces) \in ((ideal * 9) \div 10)..ideal - 1
    BY <1>1, <1>6, <2>2, MaxInInterval
  <2> QED BY <1>1, <2>1, <2>3
<1>7. CASE ends = {} /\ breaks = {} /\ spaces = {}
  BY <1>7 DEF FindBreakPoint, from
<1> QED BY <1>4, <1>5, <1>6, <1>7

LEMMA ChildEnds ==
    ASSUME NEW s \in Nat, start = s
    PROVE  ChildEnd(s + ChildSize) \in s + 1..s + ChildSize
<1>1. ChildSize \in Nat \ {0} /\ s + ChildSize \in Nat
  BY ChunkerAssumption
<1>2. FindBreakPoint(s + ChildSize) \in Int /\ FindBreakPoint(s + ChildSize) <= s + ChildSize
  BY <1>1, BreakPointBefore
<1> QED BY <1>1, <1>2 DEF ChildEnd

\* The next child begins behind the one before and shares no more than the
\* overlap with it.
LEMMA NextStarts ==
    ASSUME NEW s \in Nat, start = s, NEW end \in s + 1..Length, Length \in Nat
    PROVE  NextStart(end) \in s + 1..end /\ end - NextStart(end) <= Overlap
<1> DEFINE from == Max({s + 1, end - Overlap})
           words == Spaces(from, Length)
<1>1. Overlap \in Nat /\ s + 1 \in Int /\ end - Overlap \in Int /\ end \in Int
  BY ChunkerAssumption
<1>2. from \in Int /\ from >= s + 1 /\ from >= end - Overlap
  <2>1. \E x \in {s + 1, end - Overlap} : \A y \in {s + 1, end - Overlap} : x >= y
    BY <1>1
  <2>2. /\ from \in {s + 1, end - Overlap}
        /\ \A y \in {s + 1, end - Overlap} : from >= y
    BY <2>1, Zenon DEF Max
  <2> QED BY <1>1, <2>2
<1> HIDE DEF from
<1>3. NextStart(end) = IF words # {} /\ Min(words) < end THEN Min(words) + 1 ELSE end
  BY DEF NextStart, from
<1>4. words # {} => Min(words) \in from..Length - 1
  <2>1. words \subseteq from..Length - 1
    BY DEF Spaces
  <2> QED BY <1>2, <2>1, MinInInterval
<1>5. CASE words # {} /\ Min(words) < end
  BY <1>1, <1>2, <1>3, <1>4, <1>5
<1>6. CASE ~(words # {} /\ Min(words) < end)
  BY <1>1, <1>3, <1>6
<1> QED BY <1>5, <1>6

\* One more child, from start to end, and the window moves on.
LEMMA AddChild ==
    ASSUME CutInv, text' = text, phase = "children", phase' = "children",
           NEW s, s = start, NEW end \in s + 1..Length, end - s <= ChildSize,
           NEW next \in s + 1..end, end - next <= Overlap, start' = next,
           \E p \in s..end - 1 : p \in DOMAIN text /\ text[p] \notin Blanks,
           children' = Append(children, Cut(s, end))
    PROVE  CutInv'
<1> DEFINE new == Append(children, Cut(s, end))
           n == Len(children)
<1>1. /\ Length \in Nat /\ s \in 0..Length /\ end \in Nat /\ s \in Nat /\ next \in Nat
      /\ ChildSize \in Nat /\ Overlap \in Nat
  <2>1. text \in ParentTexts
    BY DEF CutInv
  <2>2. Length \in Nat
    BY <2>1, ChunkerAssumption, FS_CardinalityType DEF Length
  <2> QED BY <2>2, ChunkerAssumption DEF CutInv
<1>2. Cut(s, end) \in Child /\ Cut(s, end).from = s /\ Cut(s, end).to = end
  BY <1>1 DEF Cut, Child
<1>3. children \in Seq(Child) /\ n \in Nat /\ DOMAIN children = 1..n
  BY DEF CutInv
<1>4. /\ new \in Seq(Child) /\ Len(new) = n + 1 /\ DOMAIN new = 1..n + 1
      /\ new # <<>> /\ new[n + 1] = Cut(s, end)
      /\ \A k \in 1..n : new[k] = children[k]
  BY <1>2, <1>3, AppendProperties
<1>5. children' = new /\ Length' = Length /\ text' \in ParentTexts
  BY DEF CutInv, Length
<1> HIDE DEF new
<1>6. \A k \in 1..n + 1 :
        /\ new[k].from < new[k].to
        /\ new[k].to - new[k].from <= ChildSize
        /\ k > 1 => new[k - 1].to - new[k].from <= Overlap
  <2> TAKE k \in 1..n + 1
  <2>1. CASE k \in 1..n
    <3>1. /\ new[k] = children[k]
          /\ k > 1 => k - 1 \in 1..n /\ new[k - 1] = children[k - 1]
      BY <1>3, <1>4, <2>1
    <3>2. /\ children[k].from < children[k].to
          /\ children[k].to - children[k].from <= ChildSize
          /\ k > 1 => children[k - 1].to - children[k].from <= Overlap
      BY <1>3, <2>1 DEF CutInv, ChildrenCoverText
    <3> QED BY <3>1, <3>2
  <2>2. CASE k = n + 1
    <3>1. new[k].from = s /\ new[k].to = end
      BY <1>2, <1>4, <2>2
    <3>2. k > 1 => new[k - 1].to - s <= Overlap
      <4> HAVE k > 1
      <4>1. n \in 1..n /\ k - 1 = n /\ children # <<>>
        BY <1>3, <2>2
      <4> QED BY <1>4, <4>1 DEF CutInv
    <3> QED BY <1>1, <3>1, <3>2
  <2> QED BY <1>3, <2>1, <2>2
<1>7. \A i \in 0..next - 1 :
        text[i] \in Blanks \/ \E k \in 1..n + 1 : new[k].from <= i /\ i < new[k].to
  <2> TAKE i \in 0..next - 1
  <2>1. CASE i < s
    <3>1. i \in 0..start - 1
      BY <1>1, <2>1
    <3>2. CASE text[i] \in Blanks
      BY <3>2
    <3>3. CASE text[i] \notin Blanks
      <4>1. PICK k \in DOMAIN children : children[k].from <= i /\ i < children[k].to
        BY <3>1, <3>3 DEF CutInv, ChildrenCoverText, Between
      <4>2. k \in 1..n + 1 /\ new[k] = children[k]
        BY <1>3, <1>4, <4>1
      <4> QED BY <4>1, <4>2
    <3> QED BY <3>2, <3>3
  <2>2. CASE ~(i < s)
    <3>1. new[n + 1].from <= i /\ i < new[n + 1].to
      BY <1>1, <1>2, <1>4, <2>2
    <3>2. n + 1 \in 1..n + 1
      BY <1>3
    <3> QED BY <3>1, <3>2
  <2> QED BY <2>1, <2>2
<1>8. ChildrenCoverText'
  BY <1>4, <1>5, <1>6, <1>7 DEF ChildrenCoverText, Between
<1>9. next \in 0..Length /\ new[Len(new)].to - next <= Overlap
  BY <1>1, <1>2, <1>4
<1> QED BY <1>4, <1>5, <1>8, <1>9 DEF CutInv

\* A stretch of blanks is no child, and the window moves on all the same.
LEMMA SkipBlanks ==
    ASSUME CutInv, text' = text, phase = "children", phase' = "children",
           NEW s, s = start, NEW end \in s + 1..Length,
           NEW next \in s + 1..end, start' = next,
           ~\E p \in s..end - 1 : p \in DOMAIN text /\ text[p] \notin Blanks,
           children' = children
    PROVE  CutInv'
<1>1. /\ Length \in Nat /\ s \in Nat /\ s \in 0..Length /\ next \in Nat /\ Overlap \in Nat
      /\ DOMAIN text = 0..Length - 1 /\ text \in ParentTexts
  <2>1. text \in ParentTexts
    BY DEF CutInv
  <2>2. Length \in Nat /\ DOMAIN text = 0..Length - 1
    BY <2>1, ChunkerAssumption, FS_CardinalityType DEF Length
  <2> QED BY <2>1, <2>2, ChunkerAssumption DEF CutInv
<1>2. \A i \in 0..next - 1 :
        text[i] \in Blanks \/ \E k \in DOMAIN children : Between(i, children[k])
  <2> TAKE i \in 0..next - 1
  <2>1. CASE i < s
    <3>1. i \in 0..start - 1
      BY <1>1, <2>1
    <3> QED BY <3>1 DEF CutInv, ChildrenCoverText
  <2>2. CASE ~(i < s)
    <3>1. i \in s..end - 1 /\ i \in DOMAIN text
      BY <1>1, <2>2
    <3> QED BY <3>1
  <2> QED BY <2>1, <2>2
<1>3. Length' = Length
  BY DEF Length
<1>4. ChildrenCoverText'
  BY <1>2 DEF CutInv, ChildrenCoverText, Between
<1>5. next \in 0..Length
  BY <1>1
<1>6. children # <<>> => children[Len(children)].to - next <= Overlap
  <2> HAVE children # <<>>
  <2>1. children[Len(children)].to - start <= Overlap
    BY DEF CutInv
  <2>2. children \in Seq(Child) /\ Len(children) \in DOMAIN children
    BY DEF CutInv
  <2>3. children[Len(children)] \in Child
    BY <2>2
  <2>4. children[Len(children)].to \in Nat
    BY <2>3 DEF Child
  <2> QED BY <1>1, <2>1, <2>4
<1> QED BY <1>1, <1>3, <1>4, <1>5, <1>6 DEF CutInv

LEMMA NextChild ==
    ASSUME CutInv, text' = text, phase = "children", phase' = "children",
           NEW s, s = start, NEW end \in s + 1..Length, end - s <= ChildSize,
           NEW next \in s + 1..end, end - next <= Overlap, start' = next,
           children' = WithChild(s, end)
    PROVE  CutInv'
<1>1. CASE \E p \in s..end - 1 : p \in DOMAIN text /\ text[p] \notin Blanks
  <2>1. children' = Append(children, Cut(s, end))
    BY <1>1 DEF WithChild
  <2> QED BY <1>1, <2>1, AddChild
<1>2. CASE ~\E p \in s..end - 1 : p \in DOMAIN text /\ text[p] \notin Blanks
  <2>1. children' = children
    BY <1>2 DEF WithChild
  <2> QED BY <1>2, <2>1, SkipBlanks
<1> QED BY <1>1, <1>2

LEMMA NoChildren ==
    ASSUME start' = 0, children' = <<>>, text' \in ParentTexts \cup {<<>>},
           phase' # "children" => text' = <<>>, phase' = "children" => text' \in ParentTexts
    PROVE  CutInv'
<1>1. Length' \in Nat
  <2>1. CASE text' \in ParentTexts
    BY <2>1, ChunkerAssumption, FS_CardinalityType DEF Length
  <2>2. CASE text' = <<>>
    BY <2>2, FS_EmptySet DEF Length
  <2> QED BY <2>1, <2>2
<1>2. ChildrenCoverText'
  BY DEF ChildrenCoverText
<1> QED BY <1>1, <1>2 DEF CutInv, NoCutting

\* What every step that does not cut does to cutting.
LEMMA CutKept ==
    ASSUME CutInv, UNCHANGED cutting, (phase = "children") = (phase' = "children")
    PROVE  CutInv'
  BY DEF CutInv, NoCutting, cutting, ChildrenCoverText, Length, Between

LEMMA CutStep ==
    ASSUME CutInv, SplitChildChunks
    PROVE  CutInv'
<1>1. CASE CutParent
  <2>1. start = 0 /\ children = <<>>
    BY <1>1 DEF CutParent, CutInv, NoCutting
  <2> QED BY <1>1, <2>1, NoChildren DEF CutParent
<1>2. CASE CutChild
  <2>1. PICK s : s = start
    OBVIOUS
  <2>2. PICK end : end = ChildEnd(s + ChildSize)
    OBVIOUS
  <2>3. PICK next : next = NextStart(end)
    OBVIOUS
  <2>4. /\ phase = "children" /\ phase' = "children" /\ text' = text
        /\ start < Length /\ start + ChildSize < Length
        /\ children' = WithChild(s, end) /\ start' = next
    BY <1>2, <2>1, <2>2, <2>3 DEF CutChild
  <2>5. Length \in Nat /\ s \in Nat /\ ChildSize \in Nat
    <3>1. text \in ParentTexts /\ start \in 0..Length
      BY <2>4 DEF CutInv
    <3>2. Length \in Nat
      BY <3>1, ChunkerAssumption, FS_CardinalityType DEF Length
    <3> QED BY <2>1, <3>1, <3>2, ChunkerAssumption
  <2>6. end \in s + 1..s + ChildSize
    BY <2>1, <2>2, <2>5, ChildEnds
  <2>7. end \in s + 1..Length /\ end - s <= ChildSize
    BY <2>1, <2>4, <2>5, <2>6
  <2>8. next \in s + 1..end /\ end - next <= Overlap
    BY <2>1, <2>3, <2>5, <2>7, NextStarts
  <2> QED BY <2>1, <2>4, <2>7, <2>8, NextChild
<1>3. CASE LastChild
  <2>1. PICK s : s = start
    OBVIOUS
  <2>2. /\ phase = "children" /\ phase' = "children" /\ text' = text
        /\ start < Length /\ start + ChildSize >= Length
        /\ children' = WithChild(s, Length) /\ start' = Length
    BY <1>3, <2>1 DEF LastChild
  <2>3. Length \in Nat /\ s \in Nat /\ ChildSize \in Nat /\ Overlap \in Nat
    <3>1. text \in ParentTexts /\ start \in 0..Length
      BY <2>2 DEF CutInv
    <3>2. Length \in Nat
      BY <3>1, ChunkerAssumption, FS_CardinalityType DEF Length
    <3> QED BY <2>1, <3>1, <3>2, ChunkerAssumption
  <2>4. PICK end : end = Length
    OBVIOUS
  <2>5. end \in s + 1..Length /\ end - s <= ChildSize /\ end \in s + 1..end /\ end - end <= Overlap
    BY <2>1, <2>2, <2>3, <2>4
  <2> QED BY <2>1, <2>2, <2>4, <2>5, NextChild
<1>4. CASE EndOfChildren
  BY <1>4, NoChildren DEF EndOfChildren
<1> QED BY <1>1, <1>2, <1>3, <1>4 DEF SplitChildChunks

-----------------------------------------------------------------------------
(* Grouping: chunk_from_elements.                                          *)

LEMMA HoldIsHeld ==
    SectionsHoldElements <=>
        (phase \in {"elements", "sections"} =>
            Held(elements, Append(sections, open), Textual))
  BY DEF SectionsHoldElements, Held, Good, Headings, HeadingsOf

\* Appending to a sequence.
LEMMA Appending ==
    ASSUME NEW S, NEW w \in Seq(S), NEW e \in S
    PROVE  /\ Append(w, e) \in Seq(S) /\ Append(w, e) # <<>>
           /\ Len(w) \in Nat /\ DOMAIN w = 1..Len(w)
           /\ Len(Append(w, e)) = Len(w) + 1 /\ DOMAIN Append(w, e) = 1..Len(w) + 1
           /\ Append(w, e)[Len(w) + 1] = e
           /\ \A k \in 1..Len(w) : Append(w, e)[k] = w[k]
           /\ Range(Append(w, e)) = Range(w) \cup {e}
<1>1. /\ Append(w, e) \in Seq(S) /\ Append(w, e) # <<>>
      /\ Len(w) \in Nat /\ DOMAIN w = 1..Len(w)
      /\ Len(Append(w, e)) = Len(w) + 1
      /\ Append(w, e)[Len(w) + 1] = e
      /\ \A k \in 1..Len(w) : Append(w, e)[k] = w[k]
  BY AppendProperties
<1>2. DOMAIN Append(w, e) = 1..Len(w) + 1
  BY <1>1
<1>3. \A k \in 1..Len(w) + 1 : k \in 1..Len(w) \/ k = Len(w) + 1
  BY <1>1
<1>4. Len(w) + 1 \in 1..Len(w) + 1 /\ 1..Len(w) \subseteq 1..Len(w) + 1
  BY <1>1
<1>5. Range(Append(w, e)) = Range(w) \cup {e}
  BY <1>1, <1>2, <1>3, <1>4, Zenon DEF Range
<1> QED BY <1>1, <1>2, <1>5

\* One section more holds its own members, which no other one holds.
LEMMA OneMoreHeld ==
    ASSUME NEW e, NEW ss \in Seq(SectionOf), NEW o \in SectionOf, NEW T
    PROVE  Held(e, Append(ss, o), T) <=> HeldWith(e, ss, o, T)
<1> DEFINE all == Append(ss, o)
           n == Len(ss)
           M(s) == Range(s.members)
           W == UNION {M(s) : s \in Range(ss)}
<1>1. /\ n \in Nat /\ DOMAIN ss = 1..n /\ DOMAIN all = 1..n + 1 /\ all[n + 1] = o
      /\ \A k \in 1..n : all[k] = ss[k]
      /\ Range(all) = Range(ss) \cup {o}
  BY Appending
<1>2. /\ \A k \in 1..n : k \in 1..n + 1 /\ k # n + 1
      /\ \A k \in 1..n + 1 : k \in 1..n \/ k = n + 1
      /\ n + 1 \in 1..n + 1
  BY <1>1
<1>3. Range(ss) = {ss[k] : k \in 1..n}
  BY <1>1 DEF Range
<1> HIDE DEF all, n
<1>4. UNION {M(s) : s \in Range(all)} = W \cup M(o)
  BY <1>1
<1>5. (\A s \in Range(all) : Good(e, s)) <=> (\A s \in Range(ss) : Good(e, s)) /\ Good(e, o)
  BY <1>1
<1>6. (\A k, l \in 1..n + 1 : k # l => M(all[k]) \cap M(all[l]) = {})
        <=> /\ \A k, l \in 1..n : k # l => M(ss[k]) \cap M(ss[l]) = {}
            /\ \A k \in 1..n : M(ss[k]) \cap M(o) = {}
  <2> HIDE DEF M
  <2>1. ASSUME \A k, l \in 1..n + 1 : k # l => M(all[k]) \cap M(all[l]) = {}
        PROVE  /\ \A k, l \in 1..n : k # l => M(ss[k]) \cap M(ss[l]) = {}
               /\ \A k \in 1..n : M(ss[k]) \cap M(o) = {}
    BY <1>1, <1>2, <2>1, Zenon
  <2>2. ASSUME \A k, l \in 1..n : k # l => M(ss[k]) \cap M(ss[l]) = {},
               \A k \in 1..n : M(ss[k]) \cap M(o) = {},
               NEW k \in 1..n + 1, NEW l \in 1..n + 1, k # l
        PROVE  M(all[k]) \cap M(all[l]) = {}
    <3>1. CASE k \in 1..n /\ l \in 1..n
      BY <1>1, <2>2, <3>1
    <3>2. CASE k \in 1..n /\ l = n + 1
      BY <1>1, <2>2, <3>2
    <3>3. CASE k = n + 1 /\ l \in 1..n
      <4>1. M(ss[l]) \cap M(o) = {}
        BY <2>2, <3>3
      <4> QED BY <1>1, <3>3, <4>1
    <3> QED BY <1>2, <2>2, <3>1, <3>2, <3>3
  <2> QED BY <2>1, <2>2
<1>7. (\A k \in 1..n : M(ss[k]) \cap M(o) = {}) <=> W \cap M(o) = {}
  BY <1>3
<1>8. Held(e, all, T) <=>
        /\ T = W \cup M(o)
        /\ \A k, l \in 1..n : k # l => M(ss[k]) \cap M(ss[l]) = {}
        /\ W \cap M(o) = {}
        /\ \A s \in Range(ss) : Good(e, s)
        /\ Good(e, o)
  <2>1. Held(e, all, T) <=>
          /\ T = UNION {M(s) : s \in Range(all)}
          /\ \A k, l \in 1..n + 1 : k # l => M(all[k]) \cap M(all[l]) = {}
          /\ \A s \in Range(all) : Good(e, s)
    BY <1>1, Zenon DEF Held
  <2> HIDE DEF M, W
  <2> QED BY <1>4, <1>5, <1>6, <1>7, <2>1
<1>9. \A U : Held(e, ss, U) <=>
        /\ U = W
        /\ \A k, l \in 1..n : k # l => M(ss[k]) \cap M(ss[l]) = {}
        /\ \A s \in Range(ss) : Good(e, s)
  BY <1>1, Zenon DEF Held
<1> HIDE DEF W, M
<1>10. Held(e, all, T) <=>
         \E U : Held(e, ss, U) /\ Good(e, o) /\ U \cap M(o) = {} /\ T = U \cup M(o)
  BY <1>8, <1>9, Zenon
<1> QED BY <1>10, Zenon DEF all, M, HeldWith

LEMMA HeldAfter ==
    ASSUME NEW e, NEW ss \in Seq(SectionOf), NEW o \in SectionOf, NEW U, NEW T,
           Held(e, ss, U), Good(e, o), U \cap Range(o.members) = {},
           T = U \cup Range(o.members)
    PROVE  Held(e, Append(ss, o), T)
<1>1. HeldWith(e, ss, o, T)
  BY DEF HeldWith
<1> QED BY <1>1, OneMoreHeld, Zenon

\* A section without members, whatever its title.
LEMMA EmptySection ==
    ASSUME NEW e, NEW t \in Nat
    PROVE  /\ Section(t, FALSE, <<>>) \in SectionOf
           /\ Range(Section(t, FALSE, <<>>).members) = {}
           /\ Good(e, Section(t, FALSE, <<>>))
<1>1. /\ Section(t, FALSE, <<>>).members = <<>> /\ Section(t, FALSE, <<>>).isolated = FALSE
      /\ Section(t, FALSE, <<>>) \in SectionOf
  BY DEF Section, SectionOf
<1>2. DOMAIN <<>> = {}
  OBVIOUS
<1>3. Range(<<>>) = {} /\ IsInjective(<<>>)
  BY <1>2 DEF Range, IsInjective
<1> QED BY <1>1, <1>3 DEF Good

\* A new section is opened; the one before is dropped if it has no members.
LEMMA Opening ==
    ASSUME NEW e, NEW ss \in Seq(SectionOf), NEW o \in SectionOf, NEW T,
           Held(e, Append(ss, o), T), NEW t \in Nat,
           NEW closed, closed = IF o.members = <<>> THEN ss ELSE Append(ss, o)
    PROVE  closed \in Seq(SectionOf) /\ Held(e, Append(closed, Section(t, FALSE, <<>>)), T)
<1>1. PICK new \in SectionOf : new = Section(t, FALSE, <<>>) /\ Range(new.members) = {} /\ Good(e, new)
  BY EmptySection
<1>2. CASE o.members = <<>>
  <2>1. Range(o.members) = {}
    BY <1>2 DEF Range
  <2>2. PICK U : Held(e, ss, U) /\ T = U \cup Range(o.members)
    <3>1. HeldWith(e, ss, o, T)
      BY OneMoreHeld, Zenon
    <3> QED BY <3>1 DEF HeldWith
  <2>3. Held(e, ss, T)
    <3>1. T = U
      BY <2>1, <2>2
    <3> QED BY <2>2, <3>1
  <2>4. closed = ss /\ T \cap Range(new.members) = {} /\ T = T \cup Range(new.members)
    BY <1>1, <1>2
  <2>5. Held(e, Append(closed, new), T)
    BY <1>1, <2>3, <2>4, HeldAfter, Zenon
  <2> QED BY <1>1, <2>4, <2>5
<1>3. CASE o.members # <<>>
  <2>1. closed = Append(ss, o) /\ closed \in Seq(SectionOf)
    BY <1>3, Appending
  <2>2. Held(e, closed, T) /\ T \cap Range(new.members) = {} /\ T = T \cup Range(new.members)
    BY <1>1, <2>1
  <2>3. Held(e, Append(closed, new), T)
    BY <1>1, <2>1, <2>2, HeldAfter, Zenon
  <2> QED BY <1>1, <2>1, <2>3
<1> QED BY <1>2, <1>3

LEMMA Joining ==
    ASSUME NEW e, NEW ss \in Seq(SectionOf), NEW o \in SectionOf, NEW T,
           Held(e, Append(ss, o), T), ~o.isolated,
           NEW x \in Nat, x \notin T, e[x].kind # "table",
           o.title = Max(HeadingsOf(e, x) \cup {0}),
           NEW new, new = [o EXCEPT !.members = Append(@, x)]
    PROVE  new \in SectionOf /\ ~new.isolated /\ Held(e, Append(ss, new), T \cup {x})
<1>1. PICK w \in Seq(Nat) : w = o.members
  BY DEF SectionOf
<1>2. /\ Append(w, x) \in Seq(Nat) /\ Len(w) \in Nat
      /\ DOMAIN w = 1..Len(w) /\ DOMAIN Append(w, x) = 1..Len(w) + 1
      /\ Append(w, x)[Len(w) + 1] = x /\ \A k \in 1..Len(w) : Append(w, x)[k] = w[k]
      /\ Range(Append(w, x)) = Range(w) \cup {x}
  BY Appending
<1>3. /\ new.members = Append(w, x) /\ new.title = o.title /\ new.isolated = o.isolated
      /\ new \in SectionOf
  BY <1>1, <1>2 DEF SectionOf
<1>4. PICK U : /\ Held(e, ss, U) /\ Good(e, o)
               /\ U \cap Range(w) = {} /\ T = U \cup Range(w)
  <2>1. HeldWith(e, ss, o, T)
    BY OneMoreHeld, Zenon
  <2> QED BY <1>1, <2>1 DEF HeldWith
<1>5. \A k \in 1..Len(w) : w[k] # x
  BY <1>2, <1>4 DEF Range
<1>6. IsInjective(Append(w, x))
  <2> SUFFICES ASSUME NEW a \in 1..Len(w) + 1, NEW b \in 1..Len(w) + 1,
                      Append(w, x)[a] = Append(w, x)[b]
               PROVE  a = b
    BY <1>2 DEF IsInjective
  <2>1. CASE a \in 1..Len(w) /\ b \in 1..Len(w)
    <3>1. w[a] = w[b]
      BY <1>2, <2>1
    <3>2. \A c, d \in 1..Len(w) : w[c] = w[d] => c = d
      BY <1>1, <1>2, <1>4 DEF Good, IsInjective
    <3> QED BY <2>1, <3>1, <3>2
  <2>2. CASE a \notin 1..Len(w) /\ b \notin 1..Len(w)
    BY <1>2, <2>2
  <2>3. CASE a \in 1..Len(w) /\ b \notin 1..Len(w)
    <3>1. b = Len(w) + 1
      BY <1>2, <2>3
    <3> QED BY <1>2, <1>5, <2>3, <3>1
  <2>4. CASE a \notin 1..Len(w) /\ b \in 1..Len(w)
    <3>1. a = Len(w) + 1
      BY <1>2, <2>4
    <3> QED BY <1>2, <1>5, <2>4, <3>1
  <2> QED BY <2>1, <2>2, <2>3, <2>4
<1>7. o.isolated \in BOOLEAN
  BY DEF SectionOf
<1>8. \A i \in Range(w) : /\ o.title = Max(HeadingsOf(e, i) \cup {0})
                          /\ (e[i].kind = "table") = o.isolated
  BY <1>1, <1>4 DEF Good
<1>9. Good(e, new)
  <2>1. ~new.isolated /\ (e[x].kind = "table") = new.isolated
    BY <1>3, <1>7
  <2>2. \A i \in Range(new.members) :
          /\ new.title = Max(HeadingsOf(e, i) \cup {0})
          /\ (e[i].kind = "table") = new.isolated
    BY <1>2, <1>3, <1>8, <2>1
  <2> QED BY <1>3, <1>6, <2>1, <2>2 DEF Good
<1>10. U \cap Range(new.members) = {} /\ T \cup {x} = U \cup Range(new.members)
  BY <1>2, <1>3, <1>4
<1>11. Held(e, Append(ss, new), T \cup {x})
  BY <1>3, <1>4, <1>9, <1>10, HeldAfter, Zenon
<1> QED BY <1>3, <1>11

\* A table goes in front of the open section.
LEMMA Isolating ==
    ASSUME NEW e, NEW ss \in Seq(SectionOf), NEW o \in SectionOf, NEW T,
           Held(e, Append(ss, o), T),
           NEW x \in Nat, x \notin T, e[x].kind = "table",
           o.title = Max(HeadingsOf(e, x) \cup {0}),
           NEW new, new = Section(o.title, TRUE, <<x>>)
    PROVE  Append(ss, new) \in Seq(SectionOf) /\ Held(e, Append(Append(ss, new), o), T \cup {x})
<1>1. /\ new \in SectionOf /\ new.members = <<x>> /\ new.isolated = TRUE /\ new.title = o.title
  BY DEF Section, SectionOf
<1>2. DOMAIN <<x>> = {1} /\ <<x>>[1] = x /\ Len(<<x>>) = 1
  OBVIOUS
<1>3. Range(<<x>>) = {x} /\ IsInjective(<<x>>)
  BY <1>2 DEF Range, IsInjective
<1>4. Good(e, new)
  BY <1>1, <1>2, <1>3 DEF Good
<1>5. PICK U : /\ Held(e, ss, U) /\ Good(e, o)
               /\ U \cap Range(o.members) = {} /\ T = U \cup Range(o.members)
  <2>1. HeldWith(e, ss, o, T)
    BY OneMoreHeld, Zenon
  <2> QED BY <2>1 DEF HeldWith
<1>6. PICK more : more = Append(ss, new) /\ more \in Seq(SectionOf)
  BY <1>1, Appending
<1>7. Held(e, more, U \cup {x})
  <2>1. x \notin U /\ Range(new.members) = {x}
    BY <1>1, <1>3, <1>5
  <2>2. U \cap Range(new.members) = {} /\ U \cup {x} = U \cup Range(new.members)
    BY <2>1
  <2> QED BY <1>1, <1>4, <1>5, <1>6, <2>2, HeldAfter, Zenon
<1>8. (U \cup {x}) \cap Range(o.members) = {} /\ T \cup {x} = (U \cup {x}) \cup Range(o.members)
  BY <1>5
<1>9. Held(e, Append(more, o), T \cup {x})
  BY <1>5, <1>6, <1>7, <1>8, HeldAfter, Zenon
<1> QED BY <1>6, <1>9

LEMMA MaxOfZero == Max({0}) = 0
<1>1. \E x \in {0} : \A y \in {0} : x >= y
  OBVIOUS
<1> QED BY <1>1, Zenon DEF Max

\* A heading at x is the last one before x + 1; anything else leaves the last.
LEMMA LastHeading ==
    ASSUME NEW e, NEW x \in Nat \ {0}
    PROVE  /\ e[x].kind \in {"title", "doctitle"} => Max(HeadingsOf(e, x + 1) \cup {0}) = x
           /\ e[x].kind \notin {"title", "doctitle"} => HeadingsOf(e, x + 1) = HeadingsOf(e, x)
<1>1. \A h : h \in 1..x <=> h \in 1..x - 1 \/ h = x
  OBVIOUS
<1>2. x + 1 - 1 = x
  OBVIOUS
<1>3. HeadingsOf(e, x + 1) = {h \in 1..x : e[h].kind \in {"title", "doctitle"}}
  BY <1>2 DEF HeadingsOf
<1>4. ASSUME e[x].kind \in {"title", "doctitle"}
      PROVE  Max(HeadingsOf(e, x + 1) \cup {0}) = x
  <2> DEFINE S == HeadingsOf(e, x + 1) \cup {0}
  <2>1. x \in S /\ S \subseteq 0..x
    BY <1>3, <1>4
  <2> HIDE DEF S
  <2>2. Max(S) \in S /\ \A y \in S : y <= Max(S)
    BY <2>1, x \in Int, 0 \in Int, MaxInInterval, Zenon
  <2> QED BY <2>1, <2>2 DEF S
<1>5. ASSUME e[x].kind \notin {"title", "doctitle"}
      PROVE  HeadingsOf(e, x + 1) = HeadingsOf(e, x)
  BY <1>1, <1>3, <1>5 DEF HeadingsOf
<1> QED BY <1>4, <1>5

\* What one element adds to those with text.
LEMMA NextTextual ==
    ASSUME at \in Nat \ {0}, at' = at + 1, UNCHANGED elements
    PROVE  /\ at \notin Textual
           /\ elements[at].kind \in {"text", "noise", "table"} => Textual' = Textual \cup {at}
           /\ elements[at].kind \notin {"text", "noise", "table"} => Textual' = Textual
<1>1. \A i : i \in 1..at' - 1 <=> i \in 1..at - 1 \/ i = at
  OBVIOUS
<1>2. at \notin 1..at - 1
  OBVIOUS
<1>3. Textual' = {i \in 1..at' - 1 : elements[i].kind \in {"text", "noise", "table"}}
  BY DEF Textual
<1>4. Textual = {i \in 1..at - 1 : elements[i].kind \in {"text", "noise", "table"}}
  BY DEF Textual
<1> QED BY <1>1, <1>2, <1>3, <1>4

LEMMA NextElement ==
    ASSUME GroupInv, phase = "elements", phase' = "elements",
           at <= Len(elements), at' = at + 1, UNCHANGED elements,
           NEW ss \in Seq(SectionOf), sections' = ss,
           Filled(ss), NEW o \in SectionOf, open' = o, ~o.isolated,
           o.title = Max(HeadingsOf(elements, at + 1) \cup {0}),
           Held(elements, Append(ss, o), Textual')
    PROVE  GroupInv'
<1>1. /\ elements \in Seq(ElementRecords)
      /\ at \in Nat \ {0} /\ Len(elements) \in Nat
  BY DEF GroupInv, GroupTypes
<1>2. GroupTypes'
  <2>1. at' \in Nat \ {0} /\ at' - 1 <= Len(elements)
    BY <1>1
  <2> QED BY <1>1, <2>1 DEF GroupTypes
<1>3. SectionsHoldElements'
  <2>1. Held(elements', Append(sections', open'), Textual')
    OBVIOUS
  <2>2. Held(elements, Append(sections, open), Textual)'
    BY <2>1
  <2> QED BY <2>2 DEF SectionsHoldElements, Held, Good, Headings, HeadingsOf
<1>4. open'.title = Max((Headings(at) \cup {0})')
  BY DEF Headings, HeadingsOf
<1>5. Filled(sections')
  OBVIOUS
<1> QED BY <1>2, <1>3, <1>4, <1>5 DEF GroupInv, Filled

LEMMA NoElements ==
    ASSUME phase' \notin {"elements", "sections"}, elements' = <<>>, at' = 1,
           open' = Section(0, FALSE, <<>>), sections' = <<>>
    PROVE  GroupInv'
<1>1. Section(0, FALSE, <<>>) \in SectionOf /\ Section(0, FALSE, <<>>).isolated = FALSE
  BY DEF Section, SectionOf
<1>2. GroupTypes'
  <2>1. Len(<<>>) = 0 /\ <<>> \in Seq(ElementRecords) /\ <<>> \in Seq(SectionOf)
    BY EmptySeq
  <2>2. elements' \in Seq(ElementRecords) /\ sections' \in Seq(SectionOf) /\ open' \in SectionOf
    BY <1>1, <2>1
  <2>3. at' \in Nat \ {0} /\ Len(elements') = 0
    BY <2>1
  <2>4. at' - 1 <= Len(elements')
    BY <2>3
  <2> QED BY <2>2, <2>3, <2>4, Zenon DEF GroupTypes
<1>3. Filled(sections)'
  BY DEF Filled, Range
<1> QED BY <1>1, <1>2, <1>3 DEF GroupInv, NoGrouping, SectionsHoldElements

LEMMA GroupStart ==
    ASSUME GroupInv, phase = "reading", phase' = "elements",
           elements' \in Elements, UNCHANGED <<at, open, sections>>
    PROVE  GroupInv'
<1>1. /\ at = 1 /\ open = Section(0, FALSE, <<>>) /\ sections = <<>>
  BY DEF GroupInv, NoGrouping
<1>2. PICK e : e = elements' /\ e \in Seq(ElementRecords)
  BY ChunkerAssumption
<1>3. PICK o \in SectionOf : o = open /\ o.title = 0 /\ ~o.isolated /\ Range(o.members) = {} /\ Good(e, o)
  BY <1>1, EmptySection DEF Section
<1>4. PICK ss \in Seq(SectionOf) : ss = <<>>
  BY EmptySeq
<1>5. Held(e, ss, {})
  <2>1. DOMAIN ss = {} /\ Range(ss) = {}
    BY <1>4 DEF Range
  <2> QED BY <2>1 DEF Held
<1>6. Held(e, Append(ss, o), {})
  BY <1>3, <1>5, HeldAfter
<1>7. Textual' = {} /\ HeadingsOf(e, 1) = {}
  BY <1>1 DEF Textual, HeadingsOf
<1>8. GroupTypes'
  <2>1. Len(e) \in Nat
    BY <1>2
  <2>2. elements' \in Seq(ElementRecords) /\ sections' \in Seq(SectionOf) /\ open' \in SectionOf
    BY <1>1, <1>2, <1>3, <1>4
  <2>3. at' \in Nat \ {0} /\ at' - 1 <= Len(elements')
    BY <1>1, <1>2, <2>1
  <2> QED BY <2>2, <2>3, Zenon DEF GroupTypes
<1>9. SectionsHoldElements'
  <2>1. Held(elements', Append(sections', open'), Textual')
    BY <1>1, <1>2, <1>3, <1>4, <1>6, <1>7
  <2> QED BY <2>1 DEF SectionsHoldElements, Held, Good, Headings, HeadingsOf
<1>10. open'.title = Max((Headings(at) \cup {0})')
  <2>1. (Headings(at))' = {}
    BY <1>1 DEF Headings
  <2> QED BY <1>3, <2>1, MaxOfZero
<1>11. Filled(sections)'
  BY <1>1 DEF Filled, Range
<1> QED BY <1>3, <1>8, <1>9, <1>10, <1>11 DEF GroupInv

LEMMA GroupFacts ==
    ASSUME GroupInv, phase = "elements"
    PROVE  /\ elements \in Seq(ElementRecords) /\ at \in Nat \ {0}
           /\ open \in SectionOf /\ sections \in Seq(SectionOf) /\ ~open.isolated
           /\ Filled(sections)
           /\ open.title = Max(HeadingsOf(elements, at) \cup {0})
           /\ Held(elements, Append(sections, open), Textual)
<1>1. Held(elements, Append(sections, open), Textual)
  BY HoldIsHeld DEF GroupInv
<1>2. open.title = Max(HeadingsOf(elements, at) \cup {0})
  BY DEF GroupInv, Headings, HeadingsOf
<1> QED BY <1>1, <1>2 DEF GroupInv, GroupTypes

LEMMA OneMoreFilled ==
    ASSUME NEW ss \in Seq(SectionOf), Filled(ss), NEW s \in SectionOf, s.members # <<>>
    PROVE  Filled(Append(ss, s))
<1>1. Range(Append(ss, s)) = Range(ss) \cup {s}
  BY Appending
<1> QED BY <1>1 DEF Filled

LEMMA SkipElementStep ==
    ASSUME GroupInv, SkipElement PROVE GroupInv'
<1>1. /\ phase = "elements" /\ phase' = "elements" /\ at <= Len(elements) /\ at' = at + 1
      /\ elements[at].kind = "skipped" /\ UNCHANGED <<elements, open, sections>>
  BY DEF SkipElement, Grouping, Grouped
<1>2. PICK o \in SectionOf, ss \in Seq(SectionOf) :
        /\ o = open /\ ss = sections /\ ~o.isolated /\ Filled(ss)
        /\ o.title = Max(HeadingsOf(elements, at) \cup {0})
        /\ Held(elements, Append(ss, o), Textual)
  BY <1>1, GroupFacts
<1>3. at \in Nat \ {0}
  BY <1>1, GroupFacts
<1>4. Textual' = Textual
  BY <1>1, <1>3, NextTextual
<1>5. HeadingsOf(elements, at + 1) = HeadingsOf(elements, at)
  BY <1>1, <1>3, LastHeading
<1> QED BY <1>1, <1>2, <1>4, <1>5, NextElement

LEMMA HeadingStep ==
    ASSUME GroupInv, Heading PROVE GroupInv'
<1>1. /\ phase = "elements" /\ phase' = "elements" /\ at <= Len(elements) /\ at' = at + 1
      /\ elements[at].kind \in {"title", "doctitle"} /\ UNCHANGED elements
      /\ sections' = Closed /\ open' = Section(at, FALSE, <<>>)
  BY DEF Heading, Grouping, Grouped
<1>2. PICK o \in SectionOf, ss \in Seq(SectionOf) :
        /\ o = open /\ ss = sections /\ Filled(ss)
        /\ Held(elements, Append(ss, o), Textual)
  BY <1>1, GroupFacts
<1>3. at \in Nat \ {0}
  BY <1>1, GroupFacts
<1>4. Textual' = Textual
  BY <1>1, <1>3, NextTextual
<1>5. PICK closed : closed = Closed
  OBVIOUS
<1>6. closed \in Seq(SectionOf) /\ Held(elements, Append(closed, Section(at, FALSE, <<>>)), Textual)
  BY <1>2, <1>3, <1>5, Opening DEF Closed
<1>7. PICK new \in SectionOf : new = Section(at, FALSE, <<>>) /\ new.title = at /\ ~new.isolated
  BY <1>3, EmptySection DEF Section
<1>8. new.title = Max(HeadingsOf(elements, at + 1) \cup {0})
  BY <1>1, <1>3, <1>7, LastHeading
<1>9. sections' = closed /\ open' = new /\ Held(elements, Append(closed, new), Textual')
  BY <1>1, <1>4, <1>5, <1>6, <1>7
<1>10. Filled(closed)
  BY <1>2, <1>5, OneMoreFilled DEF Closed
<1> QED BY <1>1, <1>6, <1>10, <1>7, <1>8, <1>9, NextElement

LEMMA JoinStep ==
    ASSUME GroupInv, Prose \/ NoiseTitle PROVE GroupInv'
<1>1. /\ phase = "elements" /\ phase' = "elements" /\ at <= Len(elements) /\ at' = at + 1
      /\ elements[at].kind \in {"text", "noise"} /\ UNCHANGED <<elements, sections>>
      /\ open' = [open EXCEPT !.members = Append(@, at)]
  BY DEF Prose, NoiseTitle, Joins, Grouping, Grouped
<1>2. PICK o \in SectionOf, ss \in Seq(SectionOf) :
        /\ o = open /\ ss = sections /\ ~o.isolated /\ Filled(ss)
        /\ o.title = Max(HeadingsOf(elements, at) \cup {0})
        /\ Held(elements, Append(ss, o), Textual)
  BY <1>1, GroupFacts
<1>3. PICK x \in Nat \ {0} : x = at
  BY <1>1, GroupFacts
<1>4. x \notin Textual /\ Textual' = Textual \cup {x}
  BY <1>1, <1>3, NextTextual
<1>5. elements[x].kind # "table" /\ HeadingsOf(elements, x + 1) = HeadingsOf(elements, x)
  BY <1>1, <1>3, LastHeading
<1>6. PICK new : new = [o EXCEPT !.members = Append(@, x)]
  OBVIOUS
<1>7. new \in SectionOf /\ ~new.isolated /\ Held(elements, Append(ss, new), Textual \cup {x})
  BY <1>2, <1>3, <1>4, <1>5, <1>6, Joining, Zenon
<1>8. new.title = o.title
  BY <1>2, <1>6 DEF SectionOf
<1>9. sections' = ss /\ open' = new
  BY <1>1, <1>2, <1>3, <1>6
<1> QED BY <1>1, <1>2, <1>3, <1>4, <1>5, <1>7, <1>8, <1>9, NextElement

LEMMA IsolateStep ==
    ASSUME GroupInv, IsolateTable PROVE GroupInv'
<1>1. /\ phase = "elements" /\ phase' = "elements" /\ at <= Len(elements) /\ at' = at + 1
      /\ elements[at].kind = "table" /\ UNCHANGED <<elements, open>>
      /\ sections' = Append(sections, Section(open.title, TRUE, <<at>>))
  BY DEF IsolateTable, Grouping, Grouped
<1>2. PICK o \in SectionOf, ss \in Seq(SectionOf) :
        /\ o = open /\ ss = sections /\ ~o.isolated /\ Filled(ss)
        /\ o.title = Max(HeadingsOf(elements, at) \cup {0})
        /\ Held(elements, Append(ss, o), Textual)
  BY <1>1, GroupFacts
<1>3. PICK x \in Nat \ {0} : x = at
  BY <1>1, GroupFacts
<1>4. x \notin Textual /\ Textual' = Textual \cup {x}
  BY <1>1, <1>3, NextTextual
<1>5. HeadingsOf(elements, x + 1) = HeadingsOf(elements, x)
  BY <1>1, <1>3, LastHeading
<1>6. PICK new : new = Section(o.title, TRUE, <<x>>)
  OBVIOUS
<1>7. PICK more : more = Append(ss, new)
  OBVIOUS
<1>8. more \in Seq(SectionOf) /\ Held(elements, Append(more, o), Textual \cup {x})
  <2>1. Append(ss, new) \in Seq(SectionOf) /\ Held(elements, Append(Append(ss, new), o), Textual \cup {x})
    BY <1>1, <1>2, <1>3, <1>4, <1>6, Isolating
  <2> QED BY <1>7, <2>1
<1>9. sections' = more /\ open' = o
  BY <1>1, <1>2, <1>3, <1>6, <1>7
<1>10. Filled(more)
  <2>1. new \in SectionOf /\ new.members # <<>>
    BY <1>2, <1>3, <1>6 DEF Section, SectionOf
  <2> QED BY <1>2, <1>7, <2>1, OneMoreFilled
<1> QED BY <1>1, <1>10, <1>2, <1>3, <1>4, <1>5, <1>8, <1>9, NextElement

LEMMA EndOfElementsStep ==
    ASSUME GroupInv, EndOfElements PROVE GroupInv'
<1>1. /\ phase = "elements" /\ phase' = "sections" /\ UNCHANGED <<elements, at>>
      /\ sections' = Closed /\ open' = Section(0, FALSE, <<>>)
  BY DEF EndOfElements
<1>2. PICK o \in SectionOf, ss \in Seq(SectionOf) :
        /\ o = open /\ ss = sections /\ Filled(ss)
        /\ Held(elements, Append(ss, o), Textual)
  BY <1>1, GroupFacts
<1>3. PICK closed : closed = Closed
  OBVIOUS
<1>4. closed \in Seq(SectionOf) /\ Held(elements, Append(closed, Section(0, FALSE, <<>>)), Textual)
  BY <1>2, <1>3, Opening DEF Closed
<1>5. open' \in SectionOf /\ ~open'.isolated
  BY <1>1, EmptySection DEF Section
<1>6. Held(elements, Append(sections, open), Textual)'
  <2>1. Textual' = Textual
    BY <1>1 DEF Textual
  <2>2. Held(elements', Append(sections', open'), Textual')
    BY <1>1, <1>3, <1>4, <2>1
  <2> QED BY <2>2
<1>7. SectionsHoldElements'
  BY <1>6 DEF SectionsHoldElements, Held, Good, Headings, HeadingsOf
<1>8. GroupTypes'
  BY <1>1, <1>3, <1>4, <1>5 DEF GroupInv, GroupTypes
<1>9. Filled(sections)'
  BY <1>1, <1>2, <1>3, OneMoreFilled DEF Closed, Filled
<1> QED BY <1>1, <1>5, <1>7, <1>8, <1>9 DEF GroupInv

LEMMA PackSectionStep ==
    ASSUME PackSection \/ CollectTables PROVE GroupInv'
<1>1. /\ phase' \in {"paragraphs", "embedding"} /\ elements' = <<>> /\ at' = 1
      /\ open' = Section(0, FALSE, <<>>) /\ sections' = <<>>
  BY DEF PackSection, CollectTables
<1> QED BY <1>1, NoElements

\* What every step that does not group does to grouping.
LEMMA GroupKept ==
    ASSUME GroupInv, UNCHANGED grouping,
           phase' = phase \/ {phase, phase'} \cap {"elements", "sections"} = {}
    PROVE  GroupInv'
<1>1. UNCHANGED <<elements, at, open, sections>>
  BY DEF grouping
<1>2. CASE phase' = phase
  <2>1. SectionsHoldElements'
    <3>1. CASE phase \in {"elements", "sections"}
      <4>1. Held(elements, Append(sections, open), Textual)
        BY <3>1, HoldIsHeld DEF GroupInv
      <4>2. Textual' = Textual
        BY <1>1 DEF Textual
      <4>3. Held(elements', Append(sections', open'), Textual')
        BY <1>1, <4>1, <4>2
      <4>4. Held(elements, Append(sections, open), Textual)'
        BY <4>3
      <4> QED BY <4>4 DEF SectionsHoldElements, Held, Good, Headings, HeadingsOf
    <3>2. CASE phase \notin {"elements", "sections"}
      BY <1>2, <3>2 DEF SectionsHoldElements
    <3> QED BY <3>1, <3>2
  <2>2. GroupTypes' /\ (NoGrouping <=> NoGrouping')
    BY <1>1 DEF GroupInv, GroupTypes, NoGrouping
  <2>3. (Headings(at))' = Headings(at)
    BY <1>1 DEF Headings
  <2> QED BY <1>1, <1>2, <2>1, <2>2, <2>3 DEF GroupInv, Filled
<1>3. CASE {phase, phase'} \cap {"elements", "sections"} = {}
  <2>1. phase \notin {"elements", "sections"} /\ phase' \notin {"elements", "sections"}
    BY <1>3
  <2>2. SectionsHoldElements'
    BY <2>1 DEF SectionsHoldElements
  <2> QED BY <1>1, <2>1, <2>2 DEF GroupInv, GroupTypes, NoGrouping, Filled
<1> QED BY <1>2, <1>3

LEMMA GroupStep ==
    ASSUME GroupInv, GroupElements PROVE GroupInv'
  BY SkipElementStep, HeadingStep, JoinStep, IsolateStep, EndOfElementsStep, PackSectionStep
     DEF GroupElements

-----------------------------------------------------------------------------
(* Packing: _split_by_paragraphs.                                          *)

\* What ParentsHoldDocument says of one parent, and of some of them.
Fine(p) ==
    /\ \A i, j \in DOMAIN p.pieces : i < j => Precedes(p.pieces[i], p.pieces[j])
    /\ p.size > ParentMax => Len(p.pieces) = 1 /\ p.pieces[1][2] # 0

AllPrecede(P, Q) == \A p \in P, q \in Q : Precedes(p, q)

Full(all, P) ==
    /\ P = UNION {Range(p.pieces) : p \in Range(all)}
    /\ \A k, l \in DOMAIN all : k < l => AllPrecede(Range(all[k].pieces), Range(all[l].pieces))
    /\ \A p \in Range(all) : Fine(p)

FullWith(ps, c, P) ==
    \E U : /\ Full(ps, U) /\ Fine(c)
           /\ AllPrecede(U, Range(c.pieces)) /\ P = U \cup Range(c.pieces)

LEMMA HoldIsFull == ParentsHoldDocument <=> Full(Append(parents, current), Packed)
  BY DEF ParentsHoldDocument, Full, Fine, AllPrecede

\* One parent more holds its own pieces, behind those of the others.
LEMMA OneMoreFull ==
    ASSUME NEW ps \in Seq(Parent), NEW c \in Parent, NEW P
    PROVE  Full(Append(ps, c), P) <=> FullWith(ps, c, P)
<1> DEFINE all == Append(ps, c)
           n == Len(ps)
           M(s) == Range(s.pieces)
           W == UNION {M(s) : s \in Range(ps)}
<1>1. /\ n \in Nat /\ DOMAIN ps = 1..n /\ DOMAIN all = 1..n + 1 /\ all[n + 1] = c
      /\ \A k \in 1..n : all[k] = ps[k]
      /\ Range(all) = Range(ps) \cup {c}
  BY Appending
<1>2. /\ \A k \in 1..n : k \in 1..n + 1 /\ k < n + 1 /\ ~(n + 1 < k)
      /\ \A k \in 1..n + 1 : k \in 1..n \/ k = n + 1
      /\ n + 1 \in 1..n + 1 /\ ~(n + 1 < n + 1)
  BY <1>1
<1>3. Range(ps) = {ps[k] : k \in 1..n}
  BY <1>1 DEF Range
<1> HIDE DEF all, n
<1>4. UNION {M(s) : s \in Range(all)} = W \cup M(c)
  BY <1>1
<1>5. (\A s \in Range(all) : Fine(s)) <=> (\A s \in Range(ps) : Fine(s)) /\ Fine(c)
  BY <1>1
<1>6. (\A k, l \in 1..n + 1 : k < l => AllPrecede(M(all[k]), M(all[l])))
        <=> /\ \A k, l \in 1..n : k < l => AllPrecede(M(ps[k]), M(ps[l]))
            /\ \A k \in 1..n : AllPrecede(M(ps[k]), M(c))
  <2> HIDE DEF M
  <2>1. ASSUME \A k, l \in 1..n + 1 : k < l => AllPrecede(M(all[k]), M(all[l]))
        PROVE  /\ \A k, l \in 1..n : k < l => AllPrecede(M(ps[k]), M(ps[l]))
               /\ \A k \in 1..n : AllPrecede(M(ps[k]), M(c))
    BY <1>1, <1>2, <2>1, Zenon
  <2>2. ASSUME \A k, l \in 1..n : k < l => AllPrecede(M(ps[k]), M(ps[l])),
               \A k \in 1..n : AllPrecede(M(ps[k]), M(c)),
               NEW k \in 1..n + 1, NEW l \in 1..n + 1, k < l
        PROVE  AllPrecede(M(all[k]), M(all[l]))
    <3>1. CASE k \in 1..n /\ l \in 1..n
      BY <1>1, <2>2, <3>1
    <3>2. CASE k \in 1..n /\ l = n + 1
      BY <1>1, <2>2, <3>2
    <3>3. CASE k = n + 1
      BY <1>2, <2>2, <3>3
    <3> QED BY <1>2, <2>2, <3>1, <3>2, <3>3
  <2> QED BY <2>1, <2>2
<1>7. (\A k \in 1..n : AllPrecede(M(ps[k]), M(c))) <=> AllPrecede(W, M(c))
  BY <1>3, Zenon DEF AllPrecede
<1>8. Full(all, P) <=>
        /\ P = W \cup M(c)
        /\ \A k, l \in 1..n : k < l => AllPrecede(M(ps[k]), M(ps[l]))
        /\ AllPrecede(W, M(c))
        /\ \A s \in Range(ps) : Fine(s)
        /\ Fine(c)
  <2>1. Full(all, P) <=>
          /\ P = UNION {M(s) : s \in Range(all)}
          /\ \A k, l \in 1..n + 1 : k < l => AllPrecede(M(all[k]), M(all[l]))
          /\ \A s \in Range(all) : Fine(s)
    BY <1>1, Zenon DEF Full
  <2> HIDE DEF M, W
  <2> QED BY <1>4, <1>5, <1>6, <1>7, <2>1
<1>9. \A U : Full(ps, U) <=>
        /\ U = W
        /\ \A k, l \in 1..n : k < l => AllPrecede(M(ps[k]), M(ps[l]))
        /\ \A s \in Range(ps) : Fine(s)
  BY <1>1, Zenon DEF Full
<1> HIDE DEF W, M
<1>10. Full(all, P) <=>
         \E U : Full(ps, U) /\ Fine(c) /\ AllPrecede(U, M(c)) /\ P = U \cup M(c)
  BY <1>8, <1>9, Zenon
<1> QED BY <1>10, Zenon DEF all, M, FullWith

LEMMA FullAfter ==
    ASSUME NEW ps \in Seq(Parent), NEW c \in Parent, NEW U, NEW P,
           Full(ps, U), Fine(c), AllPrecede(U, Range(c.pieces)),
           P = U \cup Range(c.pieces)
    PROVE  Full(Append(ps, c), P)
<1>1. FullWith(ps, c, P)
  BY DEF FullWith
<1> QED BY <1>1, OneMoreFull, Zenon

LEMMA EmptyParent ==
    Empty \in Parent /\ Range(Empty.pieces) = {} /\ Fine(Empty) /\ Empty.size = 0
<1>1. Empty.pieces = <<>> /\ Empty.size = 0 /\ Empty \in Parent
  BY EmptySeq DEF Empty, Parent
<1>2. DOMAIN <<>> = {}
  OBVIOUS
<1>3. Range(<<>>) = {}
  BY <1>2 DEF Range
<1>4. ~(0 > ParentMax)
  BY ChunkerAssumption
<1> QED BY <1>1, <1>2, <1>3, <1>4 DEF Fine

\* A piece is added to the parent that is being filled.
LEMMA JoiningPiece ==
    ASSUME NEW ps \in Seq(Parent), NEW c \in Parent, NEW P, Full(Append(ps, c), P),
           NEW x \in Piece, AllPrecede(P, {x}),
           NEW size \in Nat, size <= ParentMax,
           NEW new, new = [pieces |-> Append(c.pieces, x), size |-> size]
    PROVE  new \in Parent /\ Full(Append(ps, new), P \cup {x})
<1>1. PICK w \in Seq(Piece) : w = c.pieces
  BY DEF Parent
<1>2. /\ Append(w, x) \in Seq(Piece) /\ Len(w) \in Nat
      /\ DOMAIN w = 1..Len(w) /\ DOMAIN Append(w, x) = 1..Len(w) + 1
      /\ Append(w, x)[Len(w) + 1] = x /\ \A k \in 1..Len(w) : Append(w, x)[k] = w[k]
      /\ Range(Append(w, x)) = Range(w) \cup {x}
  BY Appending
<1>3. new.pieces = Append(w, x) /\ new.size = size /\ new \in Parent
  BY <1>1, <1>2 DEF Parent
<1>4. PICK U : /\ Full(ps, U) /\ Fine(c)
               /\ AllPrecede(U, Range(w)) /\ P = U \cup Range(w)
  <2>1. FullWith(ps, c, P)
    BY OneMoreFull, Zenon
  <2> QED BY <1>1, <2>1 DEF FullWith
<1>5. \A k \in 1..Len(w) : Precedes(w[k], x)
  BY <1>2, <1>4, Zenon DEF Range, AllPrecede
<1>6. \A i, j \in 1..Len(w) + 1 : i < j => Precedes(Append(w, x)[i], Append(w, x)[j])
  <2> SUFFICES ASSUME NEW i \in 1..Len(w) + 1, NEW j \in 1..Len(w) + 1, i < j
               PROVE  Precedes(Append(w, x)[i], Append(w, x)[j])
    OBVIOUS
  <2>1. i \in 1..Len(w) /\ (j \in 1..Len(w) \/ j = Len(w) + 1)
    <3>1. PICK n \in Nat : n = Len(w)
      BY <1>2
    <3>2. i \in 1..n + 1 /\ j \in 1..n + 1
      BY <3>1
    <3>3. i \in 1..n /\ (j \in 1..n \/ j = n + 1)
      BY <3>2
    <3> QED BY <3>1, <3>3
  <2>2. CASE j \in 1..Len(w)
    <3>1. Precedes(w[i], w[j])
      BY <1>1, <1>2, <1>4, <2>1, <2>2 DEF Fine
    <3> QED BY <1>2, <2>1, <2>2, <3>1
  <2>3. CASE j = Len(w) + 1
    BY <1>2, <1>5, <2>1, <2>3
  <2> QED BY <2>1, <2>2, <2>3
<1>7. Fine(new)
  <2>1. ~(size > ParentMax)
    BY ChunkerAssumption
  <2> QED BY <1>2, <1>3, <1>6, <2>1 DEF Fine
<1>8. AllPrecede(U, Range(new.pieces)) /\ P \cup {x} = U \cup Range(new.pieces)
  BY <1>2, <1>3, <1>4, Zenon DEF AllPrecede
<1>9. Full(Append(ps, new), P \cup {x})
  BY <1>3, <1>4, <1>7, <1>8, FullAfter, Zenon
<1> QED BY <1>3, <1>9

\* The parent that is being filled is done, unless there is nothing in it.
LEMMA Flushing ==
    ASSUME NEW ps \in Seq(Parent), NEW c \in Parent, NEW P, Full(Append(ps, c), P),
           NEW flushed, flushed = IF c = Empty THEN ps ELSE Append(ps, c)
    PROVE  flushed \in Seq(Parent) /\ Full(flushed, P)
<1>1. CASE c = Empty
  <2>1. Range(c.pieces) = {}
    BY <1>1, EmptyParent
  <2>2. PICK U : Full(ps, U) /\ P = U \cup Range(c.pieces)
    <3>1. FullWith(ps, c, P)
      BY OneMoreFull, Zenon
    <3> QED BY <3>1 DEF FullWith
  <2>3. P = U
    BY <2>1, <2>2
  <2> QED BY <1>1, <2>2, <2>3
<1>2. CASE c # Empty
  <2>1. flushed = Append(ps, c) /\ flushed \in Seq(Parent)
    BY <1>2, Appending
  <2> QED BY <2>1
<1> QED BY <1>1, <1>2

LEMMA NothingInIt ==
    ASSUME NEW ps \in Seq(Parent), NEW P, Full(ps, P)
    PROVE  Full(Append(ps, Empty), P)
<1>1. PICK c \in Parent : c = Empty /\ Range(c.pieces) = {} /\ Fine(c)
  BY EmptyParent
<1>2. AllPrecede(P, Range(c.pieces)) /\ P = P \cup Range(c.pieces)
  BY <1>1 DEF AllPrecede
<1> QED BY <1>1, <1>2, FullAfter

\* A new one is begun with a piece.
LEMMA BeginningWith ==
    ASSUME NEW ps \in Seq(Parent), NEW P, Full(ps, P),
           NEW x \in Piece, AllPrecede(P, {x}),
           NEW size \in Nat, size > ParentMax => x[2] # 0
    PROVE  Single(x, size) \in Parent /\ Full(Append(ps, Single(x, size)), P \cup {x})
<1>1. PICK new : new = Single(x, size)
  OBVIOUS
<1>2. new.pieces = <<x>> /\ new.size = size /\ new \in Parent
  BY <1>1 DEF Single, Parent
<1>3. DOMAIN <<x>> = {1} /\ <<x>>[1] = x /\ Len(<<x>>) = 1
  OBVIOUS
<1>4. Range(<<x>>) = {x}
  BY <1>3 DEF Range
<1>5. Fine(new)
  BY <1>2, <1>3 DEF Fine
<1>6. AllPrecede(P, Range(new.pieces)) /\ P \cup {x} = P \cup Range(new.pieces)
  BY <1>2, <1>4
<1>7. Full(Append(ps, new), P \cup {x})
  BY <1>2, <1>5, <1>6, FullAfter
<1> QED BY <1>1, <1>2, <1>7

\* What lies in front of a paragraph's pieces.
LEMMA PackedBefore ==
    ASSUME PackTypes, NEW n \in Nat, n = para - 1
    PROVE  AllPrecede(UNION {PiecesOf(i) : i \in 1..n}, {<<para, 0>>} \cup {<<para, j>> : j \in Nat})
<1>1. n < para /\ para \in Nat
  BY DEF PackTypes
<1>2. \A i : \A p \in PiecesOf(i) : p[1] = i
  BY DEF PiecesOf, Part, Whole
<1>3. \A i \in 1..n : i < para
  BY <1>1
<1>4. ASSUME NEW p \in UNION {PiecesOf(i) : i \in 1..n},
             NEW q \in {<<para, 0>>} \cup {<<para, j>> : j \in Nat}
      PROVE  Precedes(p, q)
  <2>1. q[1] = para
    BY <1>4
  <2>2. p[1] < para
    BY <1>2, <1>3
  <2> QED BY <2>1, <2>2 DEF Precedes
<1> QED BY <1>4 DEF AllPrecede

LEMMA ParagraphTypes ==
    ASSUME PackTypes, para <= Len(doc)
    PROVE  /\ para \in DOMAIN doc /\ doc[para].size \in Nat
           /\ doc[para].sentences \in Seq(Nat)
<1>1. para \in DOMAIN doc /\ doc[para] \in Paragraphs
  BY DEF PackTypes
<1> QED BY <1>1 DEF Paragraphs

\* The next paragraph is packed as it is.
LEMMA WholePacked ==
    ASSUME PackTypes, phase = "paragraphs", phase' = "paragraphs", para <= Len(doc),
           doc[para].size <= ParentMax, para' = para + 1, UNCHANGED doc
    PROVE  /\ Packed' = Packed \cup {Whole(para)} /\ AllPrecede(Packed, {Whole(para)})
           /\ Whole(para) \in Piece
<1>1. PICK n \in Nat : n = para - 1
  BY DEF PackTypes
<1>2. para = n + 1 /\ para' - 1 = n + 1 /\ para \in Nat
  BY <1>1 DEF PackTypes
<1>3. Packed = UNION {PiecesOf(i) : i \in 1..n}
  BY <1>1 DEF Packed
<1>4. Packed' = UNION {PiecesOf(i) : i \in 1..n + 1}
  BY <1>2, phase' # "sentences" DEF Packed, PiecesOf
<1>5. PiecesOf(para) = {Whole(para)}
  <2>1. ~(doc[para].size > ParentMax)
    BY ParagraphTypes, ChunkerAssumption
  <2> QED BY <2>1 DEF PiecesOf
<1>6. \A i : i \in 1..n + 1 <=> i \in 1..n \/ i = n + 1
  OBVIOUS
<1>7. Packed' = Packed \cup {Whole(para)}
  BY <1>2, <1>3, <1>4, <1>5, <1>6, Zenon
<1>8. AllPrecede(Packed, {Whole(para)})
  BY <1>1, <1>3, PackedBefore DEF Whole, AllPrecede
<1>9. Whole(para) \in Piece
  BY <1>2 DEF Whole, Piece
<1> QED BY <1>7, <1>8, <1>9

\* The next sentence of a long paragraph is packed.
LEMMA PartPacked ==
    ASSUME PackTypes, phase = "sentences", phase' = "sentences",
           sentence' = sentence + 1, UNCHANGED <<doc, para>>
    PROVE  /\ Packed' = Packed \cup {Part(para, sentence)}
           /\ AllPrecede(Packed, {Part(para, sentence)})
           /\ Part(para, sentence) \in Piece
<1>1. PICK n \in Nat : n = para - 1
  BY DEF PackTypes
<1>2. PICK m \in Nat : m = sentence - 1
  BY DEF PackTypes
<1>3. para \in Nat /\ sentence = m + 1 /\ sentence' - 1 = m + 1
  BY <1>2 DEF PackTypes
<1> DEFINE W == UNION {PiecesOf(i) : i \in 1..n}
<1>4. Packed = W \cup {Part(para, j) : j \in 1..m}
  BY <1>1, <1>2 DEF Packed
<1>5. Packed' = W \cup {Part(para, j) : j \in 1..m + 1}
  BY <1>1, <1>3 DEF Packed, PiecesOf
<1>6. AllPrecede(W, {Part(para, sentence)})
  <2>1. sentence \in Nat
    BY <1>2, <1>3
  <2> QED BY <1>1, <2>1, PackedBefore DEF Part, AllPrecede
<1> HIDE DEF W
<1>7. \A j : j \in 1..m + 1 <=> j \in 1..m \/ j = m + 1
  OBVIOUS
<1>8. Packed' = Packed \cup {Part(para, sentence)}
  BY <1>3, <1>4, <1>5, <1>7, Zenon
<1>9. AllPrecede({Part(para, j) : j \in 1..m}, {Part(para, sentence)})
  <2>1. \A j \in 1..m : j < sentence
    BY <1>3
  <2> QED BY <1>3, <2>1 DEF AllPrecede, Precedes, Part
<1>10. AllPrecede(Packed, {Part(para, sentence)})
  BY <1>4, <1>6, <1>9, Zenon DEF AllPrecede
<1>11. Part(para, sentence) \in Piece
  BY <1>2, <1>3 DEF Part, Piece
<1> QED BY <1>8, <1>10, <1>11

\* A long paragraph is entered, or left, and so is the document.
LEMMA SamePacked ==
    ASSUME PackInv, UNCHANGED doc,
           \/ phase = "paragraphs" /\ phase' = "sentences" /\ sentence' = 1 /\ UNCHANGED para
           \/ /\ phase = "sentences" /\ phase' = "paragraphs"
              /\ sentence > Len(doc[para].sentences) /\ para' = para + 1
           \/ /\ "sentences" \notin {phase, phase'} /\ UNCHANGED para
           \/ /\ phase = "sentences" /\ phase' = "sentences" /\ UNCHANGED <<para, sentence>>
    PROVE  Packed' = Packed
<1>1. CASE phase = "paragraphs" /\ phase' = "sentences" /\ sentence' = 1 /\ UNCHANGED para
  <2>1. 1..sentence' - 1 = {}
    BY <1>1
  <2> QED BY <1>1, <2>1 DEF Packed, PiecesOf
<1>2. CASE /\ phase = "sentences" /\ phase' = "paragraphs"
           /\ sentence > Len(doc[para].sentences) /\ para' = para + 1
  <2>1. PICK n \in Nat : n = para - 1
    BY DEF PackInv, PackTypes
  <2>2. para = n + 1 /\ para' - 1 = n + 1 /\ para \in DOMAIN doc /\ doc \in Seq(Paragraphs)
    BY <1>2, <2>1 DEF PackInv, PackTypes
  <2>3. PICK m \in Nat : m = Len(doc[para].sentences) /\ DOMAIN doc[para].sentences = 1..m
    <3>1. doc[para] \in Paragraphs
      BY <2>2
    <3> QED BY <3>1 DEF Paragraphs
  <2>4. sentence - 1 = m
    BY <1>2, <2>3 DEF PackInv, PackTypes
  <2>5. PiecesOf(para) = {Part(para, j) : j \in 1..m}
    BY <1>2, <2>3 DEF PackInv, PiecesOf
  <2>6. Packed = (UNION {PiecesOf(i) : i \in 1..n}) \cup PiecesOf(para)
    BY <1>2, <2>1, <2>4, <2>5 DEF Packed
  <2>7. Packed' = UNION {PiecesOf(i) : i \in 1..n + 1}
    BY <1>2, <2>2, phase' # "sentences" DEF Packed, PiecesOf
  <2>8. \A i : i \in 1..n + 1 <=> i \in 1..n \/ i = n + 1
    OBVIOUS
  <2> QED BY <2>2, <2>6, <2>7, <2>8, Zenon
<1>3. CASE "sentences" \notin {phase, phase'} /\ UNCHANGED para
  <2>1. phase # "sentences" /\ phase' # "sentences"
    BY <1>3
  <2> QED BY <1>3, <2>1 DEF Packed, PiecesOf
<1>4. CASE phase = "sentences" /\ phase' = "sentences" /\ UNCHANGED <<para, sentence>>
  BY <1>4 DEF Packed, PiecesOf
<1> QED BY <1>1, <1>2, <1>3, <1>4

LEMMA FullNow ==
    ASSUME PackInv
    PROVE  /\ Full(Append(parents, current), Packed) /\ PackTypes
           /\ current \in Parent /\ parents \in Seq(Parent)
           /\ current.size \in Nat /\ current.pieces \in Seq(Piece)
<1>1. Full(Append(parents, current), Packed)
  BY HoldIsFull DEF PackInv
<1> QED BY <1>1 DEF PackInv, PackTypes, Parent

\* What has to be shown of a step that packs.
LEMMA FullNext ==
    ASSUME phase' \in {"paragraphs", "sentences", "parents"}, UNCHANGED doc,
           PackTypes, para' \in Nat \ {0}, sentence' \in Nat \ {0},
           phase' = "sentences" => /\ para' \in DOMAIN doc /\ doc[para'].size > ParentMax
                                   /\ sentence' - 1 <= Len(doc[para'].sentences),
           NEW c \in Parent, current' = c, NEW ps \in Seq(Parent), parents' = ps,
           Full(Append(ps, c), Packed')
    PROVE  PackInv'
<1>1. PackTypes'
  BY DEF PackTypes
<1>2. ParentsHoldDocument'
  <2>1. Full(Append(parents, current), Packed)'
    OBVIOUS
  <2> QED BY <2>1 DEF ParentsHoldDocument, Full, Fine, AllPrecede
<1> QED BY <1>1, <1>2 DEF PackInv

LEMMA JoinParagraphStep ==
    ASSUME PackInv, JoinParagraph PROVE PackInv'
<1>1. /\ phase = "paragraphs" /\ phase' = "paragraphs" /\ para <= Len(doc) /\ para' = para + 1
      /\ current.size + doc[para].size + 2 <= ParentMax
      /\ current' = Joined(Whole(para), doc[para].size, 2)
      /\ UNCHANGED <<doc, sentence, parents>>
  BY DEF JoinParagraph, Packing, Fits, Size
<1>2. PICK c \in Parent, ps \in Seq(Parent) :
        c = current /\ ps = parents /\ Full(Append(ps, c), Packed) /\ c.size \in Nat
  BY FullNow
<1>3. PackTypes /\ doc[para].size \in Nat
  BY <1>1, FullNow, ParagraphTypes
<1>4. PICK x \in Piece : x = Whole(para) /\ Packed' = Packed \cup {x} /\ AllPrecede(Packed, {x})
  <2>1. doc[para].size <= ParentMax
    BY <1>1, <1>2, <1>3, ChunkerAssumption
  <2> QED BY <1>1, <1>3, <2>1, WholePacked
<1>5. PICK size \in Nat :
        size <= ParentMax /\ current' = [pieces |-> Append(c.pieces, x), size |-> size]
  <2>1. /\ c.size + 2 + doc[para].size \in Nat /\ c.size + 2 + doc[para].size <= ParentMax
        /\ doc[para].size <= ParentMax
    <3>1. PICK s \in Nat, max \in Nat : s = doc[para].size /\ max = ParentMax
      BY <1>3, ChunkerAssumption
    <3>2. PICK old \in Nat : old = c.size
      BY <1>2
    <3>3. old + s + 2 <= max
      BY <1>1, <1>2, <3>1, <3>2
    <3>4. old + 2 + s \in Nat /\ old + 2 + s <= max /\ s <= max
      BY <3>3
    <3> QED BY <3>1, <3>2, <3>4
  <2> QED BY <1>1, <1>2, <1>3, <1>4, <2>1 DEF Joined
<1>6. current' \in Parent /\ Full(Append(ps, current'), Packed')
  BY <1>2, <1>4, <1>5, JoiningPiece, Zenon
<1>7. para' \in Nat \ {0} /\ sentence' \in Nat \ {0} /\ parents' = ps
  BY <1>1, <1>2, <1>3 DEF PackTypes
<1> QED BY <1>1, <1>3, <1>6, <1>7, FullNext

LEMMA NextParentStep ==
    ASSUME PackInv, NextParent PROVE PackInv'
<1>1. /\ phase = "paragraphs" /\ phase' = "paragraphs" /\ para <= Len(doc) /\ para' = para + 1
      /\ doc[para].size <= ParentMax /\ parents' = Flushed
      /\ current' = Single(Whole(para), doc[para].size)
      /\ UNCHANGED <<doc, sentence>>
  BY DEF NextParent, Packing, Size
<1>2. PICK c \in Parent, ps \in Seq(Parent) :
        c = current /\ ps = parents /\ Full(Append(ps, c), Packed)
  BY FullNow
<1>3. PackTypes /\ doc[para].size \in Nat
  BY <1>1, FullNow, ParagraphTypes
<1>4. PICK x \in Piece : x = Whole(para) /\ Packed' = Packed \cup {x} /\ AllPrecede(Packed, {x})
  BY <1>1, <1>3, WholePacked
<1>5. PICK flushed \in Seq(Parent) : flushed = parents' /\ Full(flushed, Packed)
  BY <1>1, <1>2, Flushing DEF Flushed
<1>6. PICK size \in Nat : size = doc[para].size /\ ~(size > ParentMax)
  BY <1>1, <1>3, ChunkerAssumption
<1>7. current' = Single(x, size)
  BY <1>1, <1>4, <1>6
<1>8. current' \in Parent /\ Full(Append(flushed, current'), Packed')
  BY <1>4, <1>5, <1>6, <1>7, BeginningWith
<1>9. para' \in Nat \ {0} /\ sentence' \in Nat \ {0}
  BY <1>1, <1>3 DEF PackTypes
<1> QED BY <1>1, <1>3, <1>5, <1>8, <1>9, FullNext

LEMMA LongParagraphStep ==
    ASSUME PackInv, LongParagraph PROVE PackInv'
<1>1. /\ phase = "paragraphs" /\ phase' = "sentences" /\ para <= Len(doc)
      /\ doc[para].size > ParentMax /\ parents' = Flushed /\ current' = Empty /\ sentence' = 1
      /\ UNCHANGED <<doc, para>>
  BY DEF LongParagraph, Packing, Size
<1>2. PICK c \in Parent, ps \in Seq(Parent) :
        c = current /\ ps = parents /\ Full(Append(ps, c), Packed)
  BY FullNow
<1>3. PICK flushed \in Seq(Parent) : flushed = parents' /\ Full(flushed, Packed)
  BY <1>1, <1>2, Flushing DEF Flushed
<1>4. Packed' = Packed
  BY <1>1, SamePacked
<1>5. current' \in Parent /\ Full(Append(flushed, current'), Packed')
  BY <1>1, <1>3, <1>4, NothingInIt, EmptyParent
<1>6. /\ PackTypes /\ para' \in Nat \ {0} /\ sentence' \in Nat \ {0}
      /\ para' \in DOMAIN doc /\ doc[para'].size > ParentMax
  BY <1>1, FullNow, ParagraphTypes DEF PackTypes
<1>7. sentence' - 1 <= Len(doc[para'].sentences)
  <2>1. Len(doc[para].sentences) \in Nat
    BY <1>1, <1>6, ParagraphTypes
  <2> QED BY <1>1, <2>1
<1> QED BY <1>1, <1>3, <1>5, <1>6, <1>7, FullNext

LEMMA JoinSentenceStep ==
    ASSUME PackInv, JoinSentence PROVE PackInv'
<1> DEFINE long == doc[para].sentences[sentence]
<1>1. /\ phase = "sentences" /\ phase' = "sentences" /\ sentence <= Len(doc[para].sentences)
      /\ \/ /\ current.size + long + 1 <= ParentMax
            /\ current' = Joined(Part(para, sentence), long, 1) /\ UNCHANGED parents
         \/ current' = Single(Part(para, sentence), long) /\ parents' = Flushed
      /\ sentence' = sentence + 1 /\ UNCHANGED <<doc, para>>
  BY DEF JoinSentence
<1>2. PICK c \in Parent, ps \in Seq(Parent) :
        c = current /\ ps = parents /\ Full(Append(ps, c), Packed) /\ c.size \in Nat
  BY FullNow
<1>3. PackTypes /\ sentence \in Nat \ {0}
  BY FullNow DEF PackTypes
<1>4. PICK x \in Piece :
        /\ x = Part(para, sentence) /\ Packed' = Packed \cup {x} /\ AllPrecede(Packed, {x})
        /\ x[2] # 0
  BY <1>1, <1>3, PartPacked DEF Part
<1>5. /\ para \in DOMAIN doc /\ doc[para].size > ParentMax
      /\ doc[para].sentences \in Seq(Nat)
  <2>1. para \in DOMAIN doc /\ doc[para].size > ParentMax
    BY <1>1 DEF PackInv
  <2>2. doc[para] \in Paragraphs
    BY <1>3, <2>1 DEF PackTypes
  <2> QED BY <2>1, <2>2 DEF Paragraphs
<1>6. PICK size \in Nat : size = long
  <2>1. sentence \in DOMAIN doc[para].sentences
    BY <1>1, <1>3, <1>5
  <2> QED BY <1>5, <2>1
<1>7. \E new \in Parent, more \in Seq(Parent) :
        current' = new /\ parents' = more /\ Full(Append(more, new), Packed')
  <2>1. CASE /\ current.size + long + 1 <= ParentMax
             /\ current' = Joined(Part(para, sentence), long, 1) /\ UNCHANGED parents
    <3>1. PICK total \in Nat :
            total <= ParentMax /\ current' = [pieces |-> Append(c.pieces, x), size |-> total]
      <4>1. /\ c.size + 1 + size \in Nat /\ c.size + 1 + size <= ParentMax
            /\ size <= ParentMax
        BY <1>2, <1>6, <2>1, ChunkerAssumption
      <4> QED BY <1>2, <1>4, <1>6, <2>1, <4>1 DEF Joined
    <3>2. current' \in Parent /\ Full(Append(ps, current'), Packed')
      BY <1>2, <1>4, <3>1, JoiningPiece, Zenon
    <3> QED BY <1>2, <2>1, <3>2
  <2>2. CASE current' = Single(Part(para, sentence), long) /\ parents' = Flushed
    <3>1. PICK flushed \in Seq(Parent) : flushed = parents' /\ Full(flushed, Packed)
      BY <1>2, <2>2, Flushing DEF Flushed
    <3>2. current' = Single(x, size)
      BY <1>4, <1>6, <2>2
    <3>3. current' \in Parent /\ Full(Append(flushed, current'), Packed')
      BY <1>4, <1>6, <3>1, <3>2, BeginningWith
    <3> QED BY <3>1, <3>3
  <2> QED BY <1>1, <2>1, <2>2
<1>8. /\ para' \in Nat \ {0} /\ sentence' \in Nat \ {0}
      /\ para' \in DOMAIN doc /\ doc[para'].size > ParentMax
      /\ sentence' - 1 <= Len(doc[para'].sentences)
  BY <1>1, <1>3, <1>5 DEF PackTypes
<1> QED BY <1>1, <1>3, <1>7, <1>8, FullNext

LEMMA EndOfParagraphStep ==
    ASSUME PackInv, EndOfParagraph PROVE PackInv'
<1>1. /\ phase = "sentences" /\ phase' = "paragraphs" /\ sentence > Len(doc[para].sentences)
      /\ para' = para + 1 /\ UNCHANGED <<doc, sentence, current, parents>>
  BY DEF EndOfParagraph
<1>2. PICK c \in Parent, ps \in Seq(Parent) :
        c = current /\ ps = parents /\ Full(Append(ps, c), Packed)
  BY FullNow
<1>3. Packed' = Packed
  BY <1>1, SamePacked
<1>4. PackTypes /\ para' \in Nat \ {0} /\ sentence' \in Nat \ {0}
  BY <1>1, FullNow DEF PackTypes
<1>5. current' = c /\ parents' = ps /\ Full(Append(ps, c), Packed')
  BY <1>1, <1>2, <1>3
<1> QED BY <1>1, <1>4, <1>5, FullNext

LEMMA EndOfDocumentStep ==
    ASSUME PackInv, EndOfDocument PROVE PackInv'
<1>1. /\ phase = "paragraphs" /\ phase' = "parents" /\ parents' = Flushed /\ current' = Empty
      /\ UNCHANGED <<doc, para, sentence>>
  BY DEF EndOfDocument
<1>2. PICK c \in Parent, ps \in Seq(Parent) :
        c = current /\ ps = parents /\ Full(Append(ps, c), Packed)
  BY FullNow
<1>3. PICK flushed \in Seq(Parent) : flushed = parents' /\ Full(flushed, Packed)
  BY <1>1, <1>2, Flushing DEF Flushed
<1>4. Packed' = Packed
  BY <1>1, SamePacked
<1>5. current' \in Parent /\ Full(Append(flushed, current'), Packed')
  BY <1>1, <1>3, <1>4, NothingInIt, EmptyParent
<1>6. PackTypes /\ para' \in Nat \ {0} /\ sentence' \in Nat \ {0}
  BY <1>1, FullNow DEF PackTypes
<1> QED BY <1>1, <1>3, <1>5, <1>6, FullNext

\* Packing begins, or is reset.
LEMMA NothingPacked ==
    ASSUME phase' # "sentences", NEW d \in Seq(Paragraphs), doc' = d,
           phase' \notin {"paragraphs", "parents"} => d = <<>>,
           para' = 1, sentence' = 1, current' = Empty, parents' = <<>>
    PROVE  PackInv'
<1>1. PICK c \in Parent : c = Empty
  BY EmptyParent
<1>2. PICK ps \in Seq(Parent) : ps = <<>>
  BY EmptySeq
<1>3. PackTypes'
  BY <1>1, <1>2 DEF PackTypes
<1>4. Packed' = {}
  <2>1. 1..para' - 1 = {}
    OBVIOUS
  <2> QED BY <2>1 DEF Packed
<1>5. Full(ps, {})
  <2>1. DOMAIN ps = {} /\ Range(ps) = {}
    BY <1>2 DEF Range
  <2> QED BY <2>1 DEF Full
<1>6. Full(Append(ps, c), {})
  BY <1>1, <1>5, NothingInIt
<1>7. ParentsHoldDocument'
  <2>1. Full(Append(parents', current'), Packed')
    BY <1>1, <1>2, <1>4, <1>6
  <2>2. Full(Append(parents, current), Packed)'
    BY <2>1
  <2> QED BY <2>2 DEF ParentsHoldDocument, Full, Fine, AllPrecede
<1>8. phase' \notin {"paragraphs", "sentences", "parents"} => NoPacking'
  BY DEF NoPacking
<1> QED BY <1>3, <1>7, <1>8 DEF PackInv

\* What every step that does not pack does to packing.
LEMMA PackKept ==
    ASSUME PackInv, UNCHANGED packing,
           phase' = phase \/ {phase, phase'} \cap {"paragraphs", "sentences", "parents"} = {}
    PROVE  PackInv'
<1>1. UNCHANGED <<doc, para, sentence, current, parents>>
  BY DEF packing
<1>2. PackTypes' /\ (NoPacking <=> NoPacking')
  BY <1>1 DEF PackInv, PackTypes, NoPacking
<1>3. phase' = phase
      \/ /\ phase \notin {"paragraphs", "sentences", "parents"}
         /\ phase' \notin {"paragraphs", "sentences", "parents"}
  OBVIOUS
<1>4. Packed' = Packed
  BY <1>1, <1>3 DEF Packed, PiecesOf
<1>5. ParentsHoldDocument'
  <2>1. Full(Append(parents', current'), Packed')
    BY <1>1, <1>4, FullNow
  <2>2. Full(Append(parents, current), Packed)'
    BY <2>1
  <2> QED BY <2>2 DEF ParentsHoldDocument, Full, Fine, AllPrecede
<1> QED BY <1>1, <1>2, <1>3, <1>5 DEF PackInv

LEMMA SplitStep ==
    ASSUME PackInv, SplitByParagraphs PROVE PackInv'
  BY JoinParagraphStep, NextParentStep, LongParagraphStep, JoinSentenceStep,
     EndOfParagraphStep, EndOfDocumentStep DEF SplitByParagraphs

LEMMA SectionPlaces ==
    ASSUME GroupInv, phase = "sections", NEW k \in DOMAIN sections
    PROVE  /\ sections[k].members \in Seq(DOMAIN elements)
           /\ sections[k].title \in {0} \cup DOMAIN elements
<1>1. PICK ss \in Seq(SectionOf), o \in SectionOf :
        ss = sections /\ o = open /\ Filled(ss) /\ Held(elements, Append(ss, o), Textual)
  <2>1. Held(elements, Append(sections, open), Textual)
    BY HoldIsHeld DEF GroupInv
  <2> QED BY <2>1 DEF GroupInv, GroupTypes
<1>2. PICK s \in SectionOf : s = ss[k] /\ s \in Range(ss) /\ s.members # <<>>
  BY <1>1 DEF Filled, Range
<1>3. s \in Range(Append(ss, o))
  BY <1>1, <1>2, Appending
<1>4. Range(s.members) \subseteq Textual /\ Good(elements, s)
  BY <1>1, <1>3, Zenon DEF Held
<1>5. PICK n \in Nat : n = Len(elements) /\ DOMAIN elements = 1..n /\ at - 1 <= n /\ at \in Nat
  BY DEF GroupInv, GroupTypes
<1>6. Textual \subseteq 1..n
  BY <1>5 DEF Textual
<1>7. PICK w \in Seq(Nat) : w = s.members /\ w # <<>>
  BY <1>2 DEF SectionOf
<1>8. \A i \in DOMAIN w : w[i] \in 1..n
  BY <1>4, <1>6, <1>7, Zenon DEF Range
<1>9. w \in Seq(1..n)
  <2>1. PICK l \in Nat : l = Len(w) /\ DOMAIN w = 1..l /\ w = [i \in 1..l |-> w[i]]
    OBVIOUS
  <2>2. w \in [1..l -> 1..n]
    BY <1>8, <2>1
  <2> QED BY <2>1, <2>2, SeqDef
<1>10. 1 \in DOMAIN w
  BY <1>7
<1>11. PICK m \in 1..n : m = w[1] /\ m \in Range(w)
  BY <1>8, <1>10 DEF Range
<1>12. s.title = Max(HeadingsOf(elements, m) \cup {0})
  BY <1>4, <1>7, <1>11 DEF Good
<1>13. s.title \in {0} \cup 1..n
  <2> DEFINE S == HeadingsOf(elements, m) \cup {0}
  <2>1. S \subseteq 0..n /\ S # {}
    BY <1>11 DEF HeadingsOf
  <2> HIDE DEF S
  <2>2. Max(S) \in S
    BY <2>1, n \in Int, 0 \in Int, MaxInInterval, Zenon
  <2> QED BY <1>12, <2>1, <2>2 DEF S
<1> QED BY <1>1, <1>2, <1>5, <1>7, <1>9, <1>13

LEMMA HeaderIsParagraph ==
    ASSUME elements \in Seq(ElementRecords), NEW t \in {0} \cup DOMAIN elements
    PROVE  Header(t) \in Seq(Paragraphs)
<1>1. <<>> \in Seq(Paragraphs)
  BY EmptySeq
<1>2. CASE t \in DOMAIN elements
  <2>1. elements[t] \in ElementRecords
    BY <1>2
  <2>2. elements[t].paragraph \in Paragraphs
    BY <2>1 DEF ElementRecords
  <2>3. PICK size \in Nat : size = elements[t].paragraph.size + 3
    BY <2>2 DEF Paragraphs
  <2>4. PICK p \in Paragraphs : p = [sentences |-> <<size>>, size |-> size]
    <3>1. <<size>> \in Seq(Nat)
      OBVIOUS
    <3>2. [sentences |-> <<size>>, size |-> size] \in Paragraphs
      BY <3>1 DEF Paragraphs
    <3> QED BY <3>2
  <2>5. <<p>> \in Seq(Paragraphs)
    OBVIOUS
  <2>6. CASE elements[t].kind = "doctitle"
    <3>1. Header(t) = <<>>
      BY <2>6 DEF Header
    <3> QED BY <1>1, <3>1
  <2>7. CASE t = 0
    <3>1. Header(t) = <<>>
      BY <2>7 DEF Header
    <3> QED BY <1>1, <3>1
  <2>8. CASE t # 0 /\ elements[t].kind # "doctitle"
    <3>1. Header(t) = <<[sentences |-> <<elements[t].paragraph.size + 3>>,
                         size |-> elements[t].paragraph.size + 3]>>
      BY <2>8, Zenon DEF Header
    <3>2. Header(t) = <<p>>
      BY <2>3, <2>4, <3>1
    <3> QED BY <2>5, <3>2
  <2> QED BY <2>6, <2>7, <2>8
<1>3. CASE t = 0
  BY <1>1, <1>3 DEF Header
<1> QED BY <1>2, <1>3

LEMMA PackSectionPacks ==
    ASSUME GroupInv, PackInv, PackSection PROVE PackInv'
<1>1. PICK k \in DOMAIN sections :
        doc' = Header(sections[k].title)
                 \o [i \in DOMAIN sections[k].members |->
                       elements[sections[k].members[i]].paragraph]
  BY DEF PackSection
<1>2. /\ phase = "sections" /\ phase' = "paragraphs"
      /\ UNCHANGED <<para, sentence, current, parents>>
  BY DEF PackSection
<1>3. elements \in Seq(ElementRecords)
  BY DEF GroupInv, GroupTypes
<1>4. PICK w \in Seq(DOMAIN elements), t \in {0} \cup DOMAIN elements :
        w = sections[k].members /\ t = sections[k].title
  BY <1>2, SectionPlaces
<1>5. PICK h \in Seq(Paragraphs) : h = Header(t)
  BY <1>3, HeaderIsParagraph
<1>6. [i \in DOMAIN w |-> elements[w[i]].paragraph] \in Seq(Paragraphs)
  <2>1. \A i \in DOMAIN w : elements[w[i]] \in ElementRecords
    BY <1>3
  <2>2. \A i \in DOMAIN w : elements[w[i]].paragraph \in Paragraphs
    BY <2>1 DEF ElementRecords
  <2>3. PICK l \in Nat : DOMAIN w = 1..l
    OBVIOUS
  <2>4. [i \in 1..l |-> elements[w[i]].paragraph] \in [1..l -> Paragraphs]
    BY <2>2, <2>3
  <2> QED BY <2>3, <2>4, SeqDef
<1>7. PICK r \in Seq(Paragraphs) : r = [i \in DOMAIN w |-> elements[w[i]].paragraph]
  BY <1>6
<1>8. doc' = h \o r
  BY <1>1, <1>4, <1>5, <1>7
<1>9. h \o r \in Seq(Paragraphs)
  BY ConcatProperties
<1>10. para = 1 /\ sentence = 1 /\ current = Empty /\ parents = <<>>
  BY <1>2 DEF PackInv, NoPacking
<1> QED BY <1>2, <1>8, <1>9, <1>10, NothingPacked

LEMMA PackStep ==
    ASSUME GroupInv, PackInv, GroupElements \/ SplitByParagraphs \/ SplitChildChunks
    PROVE  PackInv'
<1>1. CASE SplitByParagraphs
  BY <1>1, SplitStep
<1>2. CASE PackSection
  BY <1>2, PackSectionPacks
<1>3. CASE GroupElements /\ ~PackSection
  <2>1. UNCHANGED packing /\ {phase, phase'} \subseteq {"elements", "sections"}
    <3>1. CASE EndOfElements
      BY <3>1 DEF EndOfElements
    <3>2. CASE SkipElement \/ Heading \/ NoiseTitle \/ Prose \/ IsolateTable
      <4>1. phase = "elements" /\ Grouped
        BY <3>2 DEF SkipElement, Heading, NoiseTitle, Prose, IsolateTable, Joins, Grouping
      <4> QED BY <4>1 DEF Grouped
    <3> QED BY <1>3, <3>1, <3>2 DEF GroupElements
  <2>2. {phase, phase'} \cap {"paragraphs", "sentences", "parents"} = {}
    BY <2>1
  <2> QED BY <2>1, <2>2, PackKept
<1>4. CASE CutParent
  <2>1. PICK d \in Seq(Paragraphs) : d = <<>>
    BY EmptySeq
  <2>2. /\ phase' = "children" /\ doc' = d /\ para' = 1 /\ sentence' = 1
        /\ current' = Empty /\ parents' = <<>>
    BY <1>4, <2>1 DEF CutParent
  <2> QED BY <2>1, <2>2, NothingPacked
<1>5. CASE CutChild \/ LastChild \/ EndOfChildren
  <2>1. UNCHANGED packing /\ {phase, phase'} \subseteq {"children", "chunks"}
    BY <1>5 DEF CutChild, LastChild, EndOfChildren
  <2>2. {phase, phase'} \cap {"paragraphs", "sentences", "parents"} = {}
    BY <2>1
  <2> QED BY <2>1, <2>2, PackKept
<1> QED BY <1>1, <1>2, <1>3, <1>4, <1>5 DEF SplitChildChunks

-----------------------------------------------------------------------------
(* The three stages, within the life of a file.                            *)

\* Phases in which no stage of the chunker is at work.
Idle == {"reading", "chunks", "tables", "images", "embedding", "storing", "done", "failed"}

Aside ==
    /\ UNCHANGED <<grouping, packing, cutting>>
    /\ phase' = phase \/ {phase, phase'} \subseteq Idle

LEMMA AsideKeeps ==
    ASSUME GroupInv, PackInv, CutInv, Aside
    PROVE  GroupInv' /\ PackInv' /\ CutInv'
<1>1. UNCHANGED grouping /\ UNCHANGED packing /\ UNCHANGED cutting
  BY DEF Aside
<1>2. /\ phase' = phase \/ {phase, phase'} \cap {"elements", "sections"} = {}
      /\ phase' = phase \/ {phase, phase'} \cap {"paragraphs", "sentences", "parents"} = {}
      /\ (phase = "children") = (phase' = "children")
  BY DEF Aside, Idle
<1> QED BY <1>1, <1>2, GroupKept, PackKept, CutKept

LEMMA StepsAside ==
    ASSUME \/ ReadNothing \/ ReadRaises \/ ReadSlack
           \/ CollectChunks \/ AddTable \/ AddImage \/ PdfRead
           \/ StoreChunks \/ \E t \in PointIds : OtherDocument(t)
    PROVE  Aside
<1>1. CASE ReadNothing \/ ReadRaises \/ ReadSlack
  <2>1. UNCHANGED <<grouping, packing, cutting>> /\ phase = "reading"
    BY <1>1 DEF ReadNothing, ReadRaises, ReadSlack, Reads
  <2>2. phase' \in {"done", "failed", "embedding"}
    BY <1>1 DEF ReadNothing, ReadRaises, ReadSlack, Reads
  <2> QED BY <2>1, <2>2 DEF Aside, Idle
<1>2. CASE CollectChunks \/ AddTable \/ AddImage \/ PdfRead
  <2>1. UNCHANGED <<grouping, packing, cutting>> /\ phase \in {"chunks", "tables", "images"}
    BY <1>2 DEF CollectChunks, AddTable, AddImage, PdfRead
  <2>2. phase' \in {"tables", "images", "embedding"}
    BY <1>2 DEF CollectChunks, AddTable, AddImage, PdfRead, AfterChunks
  <2> QED BY <2>1, <2>2 DEF Aside, Idle
<1>3. CASE StoreChunks
  <2>1. UNCHANGED <<grouping, packing, cutting>> /\ phase \in {"embedding", "storing"}
    BY <1>3 DEF StoreChunks, NothingToStore, Embed, EmbedRaises, StoreChunk, SkipChunk, Stored, Storing
  <2>2. phase' \in {"storing", "done", "failed"}
    BY <1>3 DEF StoreChunks, NothingToStore, Embed, EmbedRaises, StoreChunk, SkipChunk, Stored, Storing
  <2> QED BY <2>1, <2>2 DEF Aside, Idle
<1>4. CASE \E t \in PointIds : OtherDocument(t)
  BY <1>4 DEF OtherDocument, Aside
<1> QED BY <1>1, <1>2, <1>3, <1>4

LEMMA ReadPlain ==
    ASSUME GroupInv, PackInv, CutInv, ReadText \/ ReadProse
    PROVE  GroupInv' /\ PackInv' /\ CutInv'
<1>1. CASE UNCHANGED doc /\ Reads("pdf", "tables") /\ ReadProse
  BY <1>1, AsideKeeps DEF ReadProse, Aside, Idle, Reads, packing
<1>2. CASE doc' \in Documents
  <2>1. /\ UNCHANGED grouping /\ UNCHANGED cutting /\ UNCHANGED <<para, sentence, current, parents>>
        /\ phase = "reading" /\ phase' \in {"paragraphs", "tables"}
    BY DEF ReadText, ReadProse, Reads
  <2>2. GroupInv' /\ CutInv'
    BY <2>1, GroupKept, CutKept
  <2>3. para = 1 /\ sentence = 1 /\ current = Empty /\ parents = <<>> /\ doc = <<>>
    BY <2>1 DEF PackInv, NoPacking
  <2>4. CASE phase' = "paragraphs"
    <3>1. PICK d \in Seq(Paragraphs) : doc' = d
      BY <1>2, ChunkerAssumption
    <3> QED BY <2>1, <2>2, <2>3, <2>4, <3>1, NothingPacked
  <2>5. CASE phase' = "tables"
    <3>1. UNCHANGED doc
      BY <2>5 DEF ReadText, ReadProse, Reads
    <3>2. UNCHANGED packing /\ {phase, phase'} \cap {"paragraphs", "sentences", "parents"} = {}
      BY <2>1, <2>5, <3>1 DEF packing
    <3> QED BY <2>2, <3>2, PackKept
  <2> QED BY <2>1, <2>4, <2>5
<1> QED BY <1>1, <1>2 DEF ReadText, ReadProse

LEMMA StagesStep ==
    ASSUME GroupInv, PackInv, CutInv, [FileNext]_fileVars
    PROVE  GroupInv' /\ PackInv' /\ CutInv'
<1>1. CASE \/ ReadNothing \/ ReadRaises \/ ReadSlack
           \/ CollectChunks \/ AddTable \/ AddImage \/ PdfRead
           \/ StoreChunks \/ \E t \in PointIds : OtherDocument(t)
  BY <1>1, StepsAside, AsideKeeps
<1>2. CASE ReadText \/ ReadProse
  BY <1>2, ReadPlain
<1>3. CASE ReadElements
  <2>1. /\ phase = "reading" /\ phase' = "elements" /\ elements' \in Elements
        /\ UNCHANGED <<at, open, sections>> /\ UNCHANGED packing /\ UNCHANGED cutting
    BY <1>3 DEF ReadElements, Reads
  <2> QED BY <2>1, GroupStart, PackKept, CutKept
<1>4. CASE CollectTables
  <2>1. /\ phase = "sections" /\ phase' = "embedding" /\ UNCHANGED packing /\ UNCHANGED cutting
    BY <1>4 DEF CollectTables
  <2> QED BY <1>4, <2>1, PackSectionStep, PackKept, CutKept
<1>5. CASE GroupElements
  <2>1. UNCHANGED cutting /\ phase \in {"elements", "sections"} /\ phase' # "children"
    BY <1>5 DEF GroupElements, SkipElement, Heading, NoiseTitle, Prose, IsolateTable, EndOfElements,
                PackSection, Joins, Grouping, Grouped
  <2> QED BY <1>5, <2>1, GroupStep, PackStep, CutKept
<1>6. CASE SplitByParagraphs
  <2>1. /\ UNCHANGED grouping /\ UNCHANGED cutting
        /\ {phase, phase'} \subseteq {"paragraphs", "sentences", "parents"}
    BY <1>6 DEF SplitByParagraphs, JoinParagraph, NextParent, LongParagraph, JoinSentence,
                EndOfParagraph, EndOfDocument, Packing
  <2>2. {phase, phase'} \cap {"elements", "sections"} = {} /\ phase # "children" /\ phase' # "children"
    BY <2>1
  <2> QED BY <1>6, <2>1, <2>2, GroupKept, PackStep, CutKept
<1>7. CASE SplitChildChunks
  <2>1. UNCHANGED grouping /\ {phase, phase'} \subseteq {"parents", "children", "chunks"}
    BY <1>7 DEF SplitChildChunks, CutParent, CutChild, LastChild, EndOfChildren
  <2>2. {phase, phase'} \cap {"elements", "sections"} = {}
    BY <2>1
  <2> QED BY <1>7, <2>1, <2>2, GroupKept, PackStep, CutStep
<1>8. CASE UNCHANGED fileVars
  BY <1>8, AsideKeeps DEF fileVars, chunkerVars, Aside
<1> QED BY <1>1, <1>2, <1>3, <1>4, <1>5, <1>6, <1>7, <1>8
        DEF FileNext, IngestFile, Read, Collect, Chunked

LEMMA StagesInit ==
    ASSUME FileInit PROVE GroupInv /\ PackInv /\ CutInv
<1>1. phase = "reading" /\ NoGrouping /\ NoPacking /\ NoCutting
  BY DEF FileInit
<1>2. GroupInv
  <2>1. Section(0, FALSE, <<>>) \in SectionOf /\ Section(0, FALSE, <<>>).isolated = FALSE
    BY DEF Section, SectionOf
  <2>2. elements = <<>> /\ at = 1 /\ open = Section(0, FALSE, <<>>) /\ sections = <<>>
    BY <1>1 DEF NoGrouping
  <2>3. elements \in Seq(ElementRecords) /\ sections \in Seq(SectionOf) /\ Len(elements) = 0
    BY <2>2, EmptySeq
  <2>4. GroupTypes
    <3>1. at \in Nat \ {0} /\ at - 1 = 0
      BY <2>2
    <3>2. at - 1 <= Len(elements)
      BY <2>3, <3>1
    <3>3. open \in SectionOf
      BY <2>1, <2>2, Zenon
    <3> QED BY <2>3, <3>1, <3>2, <3>3, Zenon DEF GroupTypes
  <2>5. Filled(sections)
    BY <2>2 DEF Filled, Range
  <2> QED BY <1>1, <2>1, <2>2, <2>4, <2>5 DEF GroupInv, SectionsHoldElements
<1>3. PackInv
  <2>1. doc = <<>> /\ para = 1 /\ sentence = 1 /\ current = Empty /\ parents = <<>>
    BY <1>1 DEF NoPacking
  <2>2. PICK c \in Parent : c = Empty
    BY EmptyParent
  <2>3. PICK ps \in Seq(Parent) : ps = <<>>
    BY EmptySeq
  <2>4. PackTypes
    BY <2>1, <2>2, <2>3, EmptySeq DEF PackTypes
  <2>5. Packed = {}
    <3>1. 1..para - 1 = {}
      BY <2>1
    <3> QED BY <1>1, <3>1 DEF Packed
  <2>6. Full(ps, {})
    <3>1. DOMAIN ps = {} /\ Range(ps) = {}
      BY <2>3 DEF Range
    <3> QED BY <3>1 DEF Full
  <2>7. Full(Append(parents, current), Packed)
    BY <2>1, <2>2, <2>3, <2>5, <2>6, NothingInIt
  <2> QED BY <1>1, <2>4, <2>7, HoldIsFull DEF PackInv
<1>4. CutInv
  <2>1. text = <<>> /\ start = 0 /\ children = <<>>
    BY <1>1 DEF NoCutting
  <2>2. Length = 0
    BY <2>1, FS_EmptySet DEF Length
  <2>3. children \in Seq(Child)
    BY <2>1, EmptySeq
  <2>4. start \in 0..Length
    BY <2>1, <2>2
  <2>5. ChildrenCoverText
    BY <2>1 DEF ChildrenCoverText
  <2> QED BY <1>1, <2>1, <2>3, <2>4, <2>5 DEF CutInv
<1> QED BY <1>2, <1>3, <1>4

\* Whatever the document, its sections hold every element with text once, each
\* under its own heading (SectionsHoldElements, chunk_from_elements).
THEOREM GroupingLosesNothing == FileSpec => []SectionsHoldElements
<1>1. FileInit => GroupInv /\ PackInv /\ CutInv
  BY StagesInit
<1>2. GroupInv /\ PackInv /\ CutInv /\ [FileNext]_fileVars => (GroupInv /\ PackInv /\ CutInv)'
  BY StagesStep
<1>3. GroupInv => SectionsHoldElements
  BY DEF GroupInv
<1> QED BY <1>1, <1>2, <1>3, PTL DEF FileSpec

\* Whatever the lengths of paragraphs and sentences and the limit, the parents
\* hold all of the document, once and in order (ParentsHoldDocument,
\* _split_by_paragraphs).
THEOREM PackingLosesNothing == FileSpec => []ParentsHoldDocument
<1>1. FileInit => GroupInv /\ PackInv /\ CutInv
  BY StagesInit
<1>2. GroupInv /\ PackInv /\ CutInv /\ [FileNext]_fileVars => (GroupInv /\ PackInv /\ CutInv)'
  BY StagesStep
<1>3. PackInv => ParentsHoldDocument
  BY DEF PackInv
<1> QED BY <1>1, <1>2, <1>3, PTL DEF FileSpec

\* Whatever the text, the size of a child and the overlap, the sliding window
\* skips nothing but blanks (ChildrenCoverText, _split_child_chunks).
THEOREM CuttingLosesNothing == FileSpec => []ChildrenCoverText
<1>1. FileInit => GroupInv /\ PackInv /\ CutInv
  BY StagesInit
<1>2. GroupInv /\ PackInv /\ CutInv /\ [FileNext]_fileVars => (GroupInv /\ PackInv /\ CutInv)'
  BY StagesStep
<1>3. CutInv => ChildrenCoverText
  BY DEF CutInv
<1> QED BY <1>1, <1>2, <1>3, PTL DEF FileSpec

-----------------------------------------------------------------------------
(* Storing and recalling: _ingest_chunks and get_document_chunks.          *)

\* The chunks of one call: typed, numbered, each in its turn.
LEMMA NumberedChunks ==
    ASSUME NEW texts \in Seq(ChunkTexts), NEW part \in Nat
    PROVE  /\ Numbered(texts, part) \in Seq(ChunkOf) /\ Len(Numbered(texts, part)) = Len(texts)
           /\ Len(texts) \in Nat
           /\ \A i \in 1..Len(texts) : /\ Numbered(texts, part)[i].part = part
                                       /\ Numbered(texts, part)[i].index = i - 1
<1>1. PICK n \in Nat : n = Len(texts) /\ DOMAIN texts = 1..n
  OBVIOUS
<1>2. \A i \in 1..n : /\ Chunk(texts[i], part, i - 1, 0) \in ChunkOf
                      /\ Chunk(texts[i], part, i - 1, 0).part = part
                      /\ Chunk(texts[i], part, i - 1, 0).index = i - 1
  BY <1>1 DEF Chunk, ChunkOf, PointIds
<1>3. Numbered(texts, part) = [i \in 1..n |-> Chunk(texts[i], part, i - 1, 0)]
  BY <1>1 DEF Numbered
<1>4. Numbered(texts, part) \in [1..n -> ChunkOf]
  BY <1>2, <1>3
<1>5. Numbered(texts, part) \in Seq(ChunkOf) /\ Len(Numbered(texts, part)) = n
  BY <1>3, <1>4, SeqDef, LenProperties
<1> QED BY <1>1, <1>2, <1>3, <1>5

\* Chunks of one call are in their turn whatever their texts.
LEMMA CountedInTurn ==
    ASSUME NEW c, NEW d, c.part \in Nat, c.index \in Nat, d.index \in Nat, c.index < d.index
    PROVE  InTurn(c, d)
  BY DEF InTurn, InOrder, Image, SortsBefore, NoIndex

LEMMA StoreKept ==
    ASSUME StoreTypes, ChunksInv, RecallInv, UNCHANGED ingestVars,
           phase' \in {"storing", "done", "failed"} =>
             phase \in {"storing", "done", "failed"} \/ stored = 0,
           phase' \in {"storing", "done"} => phase \in {"storing", "done"} \/ chunks = <<>>,
           phase \notin {"storing", "done", "failed"} \/ phase' \in {"storing", "done", "failed"},
           phase' = "reading" => phase = "reading"
    PROVE  StoreTypes' /\ ChunksInv' /\ RecallInv'
<1>1. UNCHANGED <<file, chunks, tables, stored, skipped, marked, payload>>
  BY DEF ingestVars
<1>2. StoreTypes'
  BY <1>1 DEF StoreTypes
<1>3. ChunksInv'
  BY <1>1 DEF ChunksInv
<1>4. \A i : Survives(i)' <=> Survives(i)
  BY <1>1 DEF Survives, Kept, TakenOver
<1>5. Recalled' = Recalled /\ Kept' = Kept /\ \A i : TakenOver(i)' <=> TakenOver(i)
  BY <1>1 DEF Recalled, Kept, TakenOver
<1>6. RecallInv'
  BY <1>1, <1>4, <1>5 DEF RecallInv
<1> QED BY <1>2, <1>3, <1>6

\* What has to be shown of a step that collects chunks.
LEMMA NewChunks ==
    ASSUME StoreTypes, phase \notin {"storing", "done", "failed"},
           phase' \notin {"storing", "done", "failed", "reading"},
           UNCHANGED <<stored, skipped, marked, payload>>, tables' \in Nat,
           NEW cs \in Seq(ChunkOf), chunks' = cs,
           \A i \in DOMAIN cs : \/ cs[i].part = Image /\ cs[i].index = NoIndex
                                \/ cs[i].part \in 0..tables' /\ cs[i].index \in Nat,
           \A i, j \in DOMAIN cs : i < j => InTurn(cs[i], cs[j])
    PROVE  StoreTypes' /\ ChunksInv' /\ RecallInv'
<1>1. stored = 0 /\ stored' = 0
  BY DEF StoreTypes
<1>2. StoreTypes'
  <2>1. 0 \in 0..Len(cs)
    BY LenProperties
  <2> QED BY <1>1, <2>1 DEF StoreTypes
<1>3. ChunksInv'
  BY DEF ChunksInv
<1>4. RecallInv'
  <2>1. (\A i \in 1..stored' : FALSE) /\ Kept' = {}
    BY <1>1 DEF Kept
  <2> QED BY <2>1 DEF RecallInv
<1> QED BY <1>2, <1>3, <1>4

\* The chunks of the text, of a table or of a chat replace the empty list.
LEMMA NewNumbered ==
    ASSUME NEW cs \in Seq(ChunkOf), NEW n \in Nat,
           \A i \in DOMAIN cs : cs[i].part = 0 /\ cs[i].index \in Nat,
           \A i, j \in DOMAIN cs : i < j => cs[i].index < cs[j].index
    PROVE  /\ \A i \in DOMAIN cs : \/ cs[i].part = Image /\ cs[i].index = NoIndex
                                   \/ cs[i].part \in 0..n /\ cs[i].index \in Nat
           /\ \A i, j \in DOMAIN cs : i < j => InTurn(cs[i], cs[j])
<1>1. 0 \in 0..n
  OBVIOUS
<1>2. ASSUME NEW i \in DOMAIN cs, NEW j \in DOMAIN cs, i < j PROVE InTurn(cs[i], cs[j])
  BY <1>2, CountedInTurn
<1> QED BY <1>1, <1>2

LEMMA CollectChunksStep ==
    ASSUME StoreTypes, CollectChunks PROVE StoreTypes' /\ ChunksInv' /\ RecallInv'
<1>1. PICK texts \in SeqOf(ChunkTexts, Room) : chunks' = Numbered(texts, 0)
  BY DEF CollectChunks
<1>2. texts \in Seq(ChunkTexts)
  BY <1>1, SeqDef DEF SeqOf
<1>3. PICK cs \in Seq(ChunkOf) :
        /\ cs = Numbered(texts, 0) /\ DOMAIN cs = 1..Len(texts) /\ Len(texts) \in Nat
        /\ \A i \in 1..Len(texts) : cs[i].part = 0 /\ cs[i].index = i - 1
  BY <1>2, NumberedChunks
<1>4. /\ \A i \in DOMAIN cs : cs[i].part = 0 /\ cs[i].index \in Nat
      /\ \A i, j \in DOMAIN cs : i < j => cs[i].index < cs[j].index
  BY <1>3
<1>5. tables \in Nat
  BY DEF StoreTypes
<1>6. /\ phase = "chunks" /\ phase' \in {"tables", "embedding"}
      /\ UNCHANGED <<tables, stored, skipped, marked, payload>>
  BY DEF CollectChunks, AfterChunks
<1> QED BY <1>1, <1>3, <1>4, <1>5, <1>6, NewNumbered, NewChunks

LEMMA CollectTablesStep ==
    ASSUME StoreTypes, GroupInv, CollectTables PROVE StoreTypes' /\ ChunksInv' /\ RecallInv'
<1>1. PICK texts \in [DOMAIN sections -> ChunkTexts] :
        chunks' = SubSeq(Numbered(texts, 0), 1, Min({Len(sections), MaxChunks}))
  BY DEF CollectTables
<1>2. PICK n \in Nat : n = Len(sections) /\ DOMAIN sections = 1..n
  BY DEF GroupInv, GroupTypes
<1>3. texts \in Seq(ChunkTexts) /\ Len(texts) = n
  BY <1>1, <1>2, SeqDef, LenProperties
<1>4. PICK all \in Seq(ChunkOf) :
        /\ all = Numbered(texts, 0) /\ Len(all) = n /\ DOMAIN all = 1..n
        /\ \A i \in 1..n : all[i].part = 0 /\ all[i].index = i - 1
  BY <1>3, NumberedChunks
<1>5. PICK m \in 0..n : m = Min({n, MaxChunks})
  <2>1. MaxChunks \in Nat \ {0}
    BY IngestAssumption
  <2>2. \E x \in {n, MaxChunks} : \A y \in {n, MaxChunks} : x <= y
    BY <2>1
  <2>3. /\ Min({n, MaxChunks}) \in {n, MaxChunks}
        /\ \A y \in {n, MaxChunks} : Min({n, MaxChunks}) <= y
    BY <2>2, Zenon DEF Min
  <2> QED BY <2>1, <2>3
<1>6. PICK cs : cs = SubSeq(all, 1, m)
  OBVIOUS
<1>7. /\ cs \in Seq(ChunkOf) /\ DOMAIN cs = 1..m
      /\ \A i \in 1..m : cs[i] = all[i]
  <2>1. 1 \in 1..Len(all) + 1 /\ m \in 1 - 1..Len(all) /\ m - 1 + 1 = m
    BY <1>4, <1>5
  <2>2. /\ cs \in Seq(ChunkOf) /\ Len(cs) = m
        /\ \A i \in 1..m : cs[i] = all[1 + i - 1]
    BY <1>4, <1>6, <2>1, SubSeqProperties
  <2>3. \A i \in 1..m : 1 + i - 1 = i
    OBVIOUS
  <2> QED BY <2>2, <2>3
<1>8. /\ \A i \in DOMAIN cs : cs[i].part = 0 /\ cs[i].index \in Nat
      /\ \A i, j \in DOMAIN cs : i < j => cs[i].index < cs[j].index
  <2>1. \A i \in 1..m : i \in 1..n /\ i - 1 \in Nat
    BY <1>5
  <2>2. \A i \in 1..m : cs[i].part = 0 /\ cs[i].index = i - 1
    BY <1>4, <1>7, <2>1
  <2> QED BY <1>7, <2>1, <2>2
<1>9. tables \in Nat
  BY DEF StoreTypes
<1>10. /\ phase = "sections" /\ phase' = "embedding"
       /\ UNCHANGED <<tables, stored, skipped, marked, payload>>
  BY DEF CollectTables
<1>11. chunks' = cs
  BY <1>1, <1>2, <1>4, <1>5, <1>6
<1> QED BY <1>7, <1>8, <1>9, <1>10, <1>11, NewNumbered, NewChunks

LEMMA ReadSlackStep ==
    ASSUME StoreTypes, ReadSlack PROVE StoreTypes' /\ ChunksInv' /\ RecallInv'
<1>1. PICK kept \in SeqOf(1..MaxChunks, MaxChunks) :
        /\ \A i, j \in DOMAIN kept : i < j => kept[i] < kept[j]
        /\ \E texts \in [DOMAIN kept -> ChunkTexts] : chunks' = SlackChunks(kept, texts)
  BY DEF ReadSlack
<1>2. PICK texts \in [DOMAIN kept -> ChunkTexts] : chunks' = SlackChunks(kept, texts)
  BY <1>1
<1>3. PICK n \in Nat : n = Len(kept) /\ DOMAIN kept = 1..n /\ \A i \in 1..n : kept[i] \in Nat \ {0}
  <2>1. PICK l \in 0..MaxChunks : kept \in [1..l -> 1..MaxChunks]
    BY <1>1 DEF SeqOf
  <2>2. l \in Nat /\ \A x \in 1..MaxChunks : x \in Nat \ {0}
    OBVIOUS
  <2>3. kept \in Seq(1..MaxChunks) /\ DOMAIN kept = 1..l
    <3>1. DOMAIN kept = 1..l
      BY <2>1
    <3>2. \E m \in Nat : kept \in [1..m -> 1..MaxChunks]
      BY <2>1, <2>2
    <3> QED BY <3>1, <3>2, SeqDef, Zenon
  <2>4. Len(kept) = l
    BY <2>2, <2>3, LenProperties
  <2>5. \A i \in 1..l : kept[i] \in Nat \ {0}
    BY <2>1, <2>2
  <2> QED BY <2>2, <2>3, <2>4, <2>5
<1>4. PICK cs : cs = [i \in 1..n |-> Chunk(texts[i], 0, kept[i] - 1, 0)]
  OBVIOUS
<1>5. \A i \in 1..n : /\ cs[i] \in ChunkOf /\ cs[i].part = 0
                      /\ cs[i].index = kept[i] - 1 /\ cs[i].index \in Nat
  BY <1>2, <1>3, <1>4 DEF Chunk, ChunkOf, PointIds
<1>6. cs \in Seq(ChunkOf) /\ DOMAIN cs = 1..n
  <2>1. cs \in [1..n -> ChunkOf]
    BY <1>4, <1>5
  <2> QED BY <2>1, SeqDef
<1>7. /\ \A i \in DOMAIN cs : cs[i].part = 0 /\ cs[i].index \in Nat
      /\ \A i, j \in DOMAIN cs : i < j => cs[i].index < cs[j].index
  <2>1. \A i, j \in 1..n : i < j => kept[i] - 1 < kept[j] - 1
    <3>1. \A a, b \in Nat : a < b => a - 1 < b - 1
      OBVIOUS
    <3>2. \A i, j \in 1..n : i < j => kept[i] < kept[j]
      BY <1>1, <1>3
    <3> QED BY <1>3, <3>1, <3>2
  <2> QED BY <1>5, <1>6, <2>1
<1>8. tables \in Nat
  BY DEF StoreTypes
<1>9. /\ phase = "reading" /\ phase' = "embedding"
      /\ UNCHANGED <<tables, stored, skipped, marked, payload>>
  BY DEF ReadSlack, Reads
<1>10. chunks' = cs
  BY <1>2, <1>3, <1>4 DEF SlackChunks
<1> QED BY <1>6, <1>7, <1>8, <1>9, <1>10, NewNumbered, NewChunks

\* A table's chunks stand behind the others and are of a call of their own.
LEMMA AddTableStep ==
    ASSUME StoreTypes, ChunksInv, AddTable PROVE StoreTypes' /\ ChunksInv' /\ RecallInv'
<1>1. PICK texts \in SeqOf(ChunkTexts, Room) : chunks' = chunks \o Numbered(texts, tables + 1)
  BY DEF AddTable
<1>2. PICK t \in Nat : t = tables
  BY DEF StoreTypes
<1>3. texts \in Seq(ChunkTexts)
  BY <1>1, SeqDef DEF SeqOf
<1>4. PICK n \in Nat, more \in Seq(ChunkOf) :
        /\ more = Numbered(texts, t + 1) /\ Len(more) = n /\ DOMAIN more = 1..n
        /\ \A i \in 1..n : more[i].part = t + 1 /\ more[i].index = i - 1
  BY <1>2, <1>3, NumberedChunks
<1>5. PICK old \in Seq(ChunkOf), m \in Nat :
        /\ old = chunks /\ Len(old) = m /\ DOMAIN old = 1..m
        /\ \A i \in 1..m : \/ old[i].part = Image /\ old[i].index = NoIndex
                           \/ old[i].part \in 0..t /\ old[i].index \in Nat
        /\ \A i, j \in 1..m : i < j => InTurn(old[i], old[j])
  BY <1>2 DEF StoreTypes, ChunksInv
<1>6. PICK cs : cs = old \o more
  OBVIOUS
<1>7. /\ cs \in Seq(ChunkOf) /\ DOMAIN cs = 1..m + n
      /\ \A i \in 1..m : cs[i] = old[i]
      /\ \A i \in m + 1..m + n : cs[i] = more[i - m]
  <2>1. /\ cs \in Seq(ChunkOf) /\ Len(cs) = m + n
        /\ \A i \in 1..m + n : cs[i] = IF i <= m THEN old[i] ELSE more[i - m]
    <3>1. /\ old \in Seq(ChunkOf) /\ more \in Seq(ChunkOf)
          /\ Len(old) = m /\ Len(more) = n
      BY <1>4, <1>5
    <3> QED BY <1>6, <3>1, ConcatProperties, Zenon
  <2>2. DOMAIN cs = 1..m + n
    BY <2>1, LenProperties
  <2>3. ASSUME NEW i \in 1..m PROVE cs[i] = old[i]
    BY <2>1
  <2>4. ASSUME NEW i \in m + 1..m + n PROVE cs[i] = more[i - m]
    <3>1. i \in 1..m + n /\ ~(i <= m)
      OBVIOUS
    <3>2. cs[i] = IF i <= m THEN old[i] ELSE more[i - m]
      BY <2>1, <3>1, Zenon
    <3> QED BY <3>1, <3>2, Zenon
  <2> QED BY <2>1, <2>2, <2>3, <2>4
<1>8. \A i \in m + 1..m + n : cs[i].part = t + 1 /\ cs[i].index = i - m - 1
  <2> TAKE i \in m + 1..m + n
  <2>1. PICK j \in 1..n : j = i - m
    OBVIOUS
  <2>2. cs[i] = more[j] /\ more[j].part = t + 1 /\ more[j].index = j - 1
    BY <1>4, <1>7, <2>1
  <2> QED BY <2>1, <2>2
<1>9. \A i \in 1..m + n : i \in 1..m \/ i \in m + 1..m + n
  OBVIOUS
<1>10. ASSUME NEW i \in DOMAIN cs
       PROVE  \/ cs[i].part = Image /\ cs[i].index = NoIndex
              \/ cs[i].part \in 0..t + 1 /\ cs[i].index \in Nat
  <2>1. CASE i \in 1..m
    <3>1. 0..t \subseteq 0..t + 1
      OBVIOUS
    <3> QED BY <1>5, <1>7, <2>1, <3>1
  <2>2. CASE i \in m + 1..m + n
    <3>1. i - m - 1 \in Nat /\ t + 1 \in 0..t + 1
      BY <2>2
    <3> QED BY <1>8, <2>2, <3>1
  <2> QED BY <1>7, <1>9, <2>1, <2>2
<1>11. ASSUME NEW i \in DOMAIN cs, NEW j \in DOMAIN cs, i < j PROVE InTurn(cs[i], cs[j])
  <2>1. CASE j \in 1..m
    <3>1. i \in 1..m
      BY <1>7, <1>11, <2>1
    <3> QED BY <1>5, <1>7, <1>11, <2>1, <3>1
  <2>2. CASE i \in 1..m /\ j \in m + 1..m + n
    <3>1. old[i].part \in {Image} \cup 0..t /\ t + 1 \notin {Image} \cup 0..t
      BY <1>5, <2>2 DEF Image
    <3>2. cs[i].part # cs[j].part
      BY <1>7, <1>8, <2>2, <3>1
    <3>3. cs[j].part # Image
      BY <1>8, <2>2, <3>1
    <3> QED BY <3>2, <3>3 DEF InTurn, InOrder
  <2>3. CASE i \in m + 1..m + n /\ j \in m + 1..m + n
    <3>1. /\ t + 1 \in Nat /\ i - m - 1 \in Nat /\ j - m - 1 \in Nat /\ i - m - 1 < j - m - 1
      BY <1>11, <2>3
    <3> QED BY <1>8, <2>3, <3>1, CountedInTurn
  <2> QED BY <1>7, <1>9, <2>1, <2>2, <2>3
<1>12. tables' \in Nat /\ tables' = t + 1
  BY <1>2 DEF AddTable
<1>13. /\ phase = "tables" /\ phase' = "tables"
       /\ UNCHANGED <<stored, skipped, marked, payload>>
  BY DEF AddTable
<1>14. chunks' = cs
  BY <1>1, <1>2, <1>4, <1>5, <1>6
<1>15. \A i \in DOMAIN cs : \/ cs[i].part = Image /\ cs[i].index = NoIndex
                            \/ cs[i].part \in 0..tables' /\ cs[i].index \in Nat
  BY <1>10, <1>12
<1> QED BY <1>7, <1>11, <1>12, <1>13, <1>14, <1>15, NewChunks

\* An image stands behind the text and the tables, and behind no later page.
LEMMA AddImageStep ==
    ASSUME StoreTypes, ChunksInv, AddImage PROVE StoreTypes' /\ ChunksInv' /\ RecallInv'
<1>1. PICK image \in Images, page \in Pages :
        NotBehind(page) /\ chunks' = Append(chunks, Chunk(image, Image, NoIndex, page))
  BY DEF AddImage
<1>2. PICK new \in ChunkOf :
        /\ new = Chunk(image, Image, NoIndex, page)
        /\ new.part = Image /\ new.index = NoIndex /\ new.page = page /\ page \in Nat
  BY <1>1, IngestAssumption DEF Chunk, ChunkOf, PointIds, Image, NoIndex
<1>3. PICK n \in Nat : n = tables
  BY DEF StoreTypes
<1>4. PICK old \in Seq(ChunkOf), m \in Nat :
        /\ old = chunks /\ Len(old) = m /\ DOMAIN old = 1..m
        /\ \A i \in 1..m : \/ old[i].part = Image /\ old[i].index = NoIndex
                           \/ old[i].part \in 0..n /\ old[i].index \in Nat
        /\ \A i, j \in 1..m : i < j => InTurn(old[i], old[j])
  BY <1>3 DEF StoreTypes, ChunksInv
<1>5. PICK cs : cs = Append(old, new)
  OBVIOUS
<1>6. /\ cs \in Seq(ChunkOf) /\ DOMAIN cs = 1..m + 1 /\ cs[m + 1] = new
      /\ \A i \in 1..m : cs[i] = old[i]
  BY <1>4, <1>5, Appending
<1>7. \A i \in 1..m + 1 : i \in 1..m \/ i = m + 1
  OBVIOUS
<1>8. ASSUME NEW i \in 1..m PROVE InTurn(old[i], new)
  <2>1. old[i].page \in Nat /\ old[i].page <= page
    <3>1. old[i] \in Range(old)
      BY <1>4 DEF Range
    <3>2. old[i] \in ChunkOf
      BY <1>4
    <3> QED BY <1>1, <1>4, <3>1, <3>2 DEF NotBehind, ChunkOf
  <2>2. CASE old[i].part = Image /\ old[i].index = NoIndex
    BY <1>2, <2>1, <2>2 DEF InTurn, InOrder, SortsBefore
  <2>3. CASE old[i].part \in 0..n /\ old[i].index \in Nat
    <3>1. old[i].index # NoIndex
      BY <2>3 DEF NoIndex
    <3> QED BY <1>2, <3>1 DEF InTurn, SortsBefore
  <2> QED BY <1>4, <2>2, <2>3
<1>9. ASSUME NEW i \in DOMAIN cs, NEW j \in DOMAIN cs, i < j PROVE InTurn(cs[i], cs[j])
  <2>1. i \in 1..m
    BY <1>6, <1>9
  <2>2. CASE j \in 1..m
    BY <1>4, <1>6, <1>9, <2>1, <2>2
  <2>3. CASE j = m + 1
    BY <1>6, <1>8, <2>1, <2>3
  <2> QED BY <1>6, <1>7, <2>2, <2>3
<1>10. UNCHANGED tables
  BY DEF AddImage
<1>11. ASSUME NEW i \in DOMAIN cs
       PROVE  \/ cs[i].part = Image /\ cs[i].index = NoIndex
              \/ cs[i].part \in 0..tables' /\ cs[i].index \in Nat
  <2>1. CASE i \in 1..m
    BY <1>3, <1>4, <1>6, <1>10, <2>1
  <2>2. CASE i = m + 1
    BY <1>2, <1>6, <2>2
  <2> QED BY <1>6, <1>7, <2>1, <2>2
<1>12. /\ phase \in {"tables", "images"} /\ phase' = "images"
       /\ UNCHANGED <<stored, skipped, marked, payload>>
  BY DEF AddImage
<1>13. chunks' = cs /\ tables' \in Nat
  BY <1>1, <1>2, <1>3, <1>4, <1>5, <1>10
<1> QED BY <1>6, <1>9, <1>11, <1>12, <1>13, NewChunks

LEMMA Payloads ==
    /\ NoPayload \in Payload /\ NoPayload.doc = "none"
    /\ [NoPayload EXCEPT !.doc = "other"] \in Payload
    /\ [NoPayload EXCEPT !.doc = "other"].doc = "other"
<1>1. NoPayload \in Payload /\ NoPayload.doc = "none"
  BY DEF NoPayload, Payload
<1>2. NoPayload \in [doc : {"none", "this", "other"}, stale : BOOLEAN, index : Int, page : Nat]
  BY <1>1 DEF Payload
<1> QED BY <1>1, <1>2 DEF Payload

LEMMA IdOfChunk ==
    ASSUME StoreTypes, NEW i \in 1..stored
    PROVE  i \in DOMAIN chunks /\ chunks[i].id \in PointIds
<1>1. i \in DOMAIN chunks /\ chunks[i] \in ChunkOf
  BY DEF StoreTypes
<1> QED BY <1>1 DEF ChunkOf

\* The older version is marked: nothing of it is recalled.
LEMMA EmbedStep ==
    ASSUME StoreTypes, ChunksInv, Embed PROVE StoreTypes' /\ ChunksInv' /\ RecallInv'
<1>1. /\ phase = "embedding" /\ phase' = "storing" /\ marked' \in BOOLEAN
      /\ payload' \in [PointIds -> Older(marked')] /\ UNCHANGED <<chunks, tables, stored, skipped>>
  BY DEF Embed
<1>2. stored = 0
  BY <1>1 DEF StoreTypes
<1>3. PICK stale \in BOOLEAN : stale = marked'
  BY <1>1
<1>4. \A p \in Older(stale) : p \in Payload /\ (p.doc = "this" => p.stale = stale)
  <2>1. \A p \in [doc : {"this"}, stale : {stale}, index : {0}, page : {0}] :
          p \in Payload /\ p.stale = stale
    BY DEF Payload
  <2> QED BY <2>1, Payloads DEF Older
<1>5. payload' \in [PointIds -> Payload]
  BY <1>1, <1>3, <1>4
<1>6. StoreTypes'
  BY <1>1, <1>5 DEF StoreTypes
<1>7. ChunksInv'
  BY <1>1 DEF ChunksInv
<1>8. marked' => Recalled' = {}
  BY <1>1, <1>3, <1>4 DEF Recalled
<1>9. (\A i \in 1..stored' : FALSE) /\ Kept' = {}
  BY <1>1, <1>2 DEF Kept
<1> QED BY <1>6, <1>7, <1>8, <1>9 DEF RecallInv

LEMMA StoringFacts ==
    ASSUME StoreTypes, Storing
    PROVE  /\ stored \in Nat /\ stored + 1 \in 1..Len(chunks) /\ stored + 1 \in DOMAIN chunks
           /\ stored' = stored + 1 => stored' \in 0..Len(chunks)
           /\ skipped \subseteq 1..stored
           /\ chunks[stored + 1] \in ChunkOf
  BY DEF StoreTypes, Storing

LEMMA StoreChunkStep ==
    ASSUME StoreTypes, ChunksInv, RecallInv, StoreChunk
    PROVE  StoreTypes' /\ ChunksInv' /\ RecallInv'
<1>1. /\ Storing /\ phase = "storing" /\ phase' = "storing" /\ stored' = stored + 1
      /\ UNCHANGED <<chunks, tables, skipped, marked>>
      /\ payload' = [payload EXCEPT ![chunks[stored + 1].id] = Mine(chunks[stored + 1])]
  BY DEF StoreChunk, Storing, Mine
<1>2. PICK n \in Nat, c \in ChunkOf :
        /\ n = stored /\ c = chunks[n + 1] /\ n + 1 \in 1..Len(chunks)
        /\ skipped \subseteq 1..n /\ stored' = n + 1 /\ n + 1 \in 0..Len(chunks)
  BY <1>1, StoringFacts
<1>3. c.id \in PointIds /\ Mine(c) \in Payload /\ Mine(c).doc = "this" /\ ~Mine(c).stale
  BY DEF ChunkOf, Mine, Payload
<1>4. /\ payload \in [PointIds -> Payload] /\ payload'[c.id] = Mine(c)
      /\ \A t \in PointIds : t # c.id => payload'[t] = payload[t]
      /\ payload' \in [PointIds -> Payload]
  BY <1>1, <1>2, <1>3 DEF StoreTypes
<1>5. /\ \A i : i \in 1..n + 1 <=> i \in 1..n \/ i = n + 1
      /\ 1..n \subseteq 1..n + 1 /\ n + 1 \notin 1..n
  OBVIOUS
<1>6. StoreTypes'
  BY <1>1, <1>2, <1>4, <1>5 DEF StoreTypes
<1>7. ChunksInv'
  BY <1>1 DEF ChunksInv
<1>8. \A i \in 1..n : chunks[i].id \in PointIds
  BY <1>2, IdOfChunk
<1>9. ASSUME NEW i \in 1..n
      PROVE  Survives(i)' <=> Survives(i) /\ chunks[i].id # c.id
  <2>1. \A j : j \in i + 1..n + 1 <=> j \in i + 1..n \/ j = n + 1
    OBVIOUS
  <2>2. Survives(i)' <=>
          /\ i \notin skipped
          /\ \A j \in i + 1..n + 1 : chunks[j].id = chunks[i].id => j \in skipped
          /\ payload'[chunks[i].id].doc # "other"
    BY <1>1, <1>2, <1>5 DEF Survives, Kept, TakenOver
  <2>3. Survives(i) <=>
          /\ i \notin skipped
          /\ \A j \in i + 1..n : chunks[j].id = chunks[i].id => j \in skipped
          /\ payload[chunks[i].id].doc # "other"
    BY <1>2 DEF Survives, Kept, TakenOver
  <2>4. n + 1 \notin skipped
    BY <1>2, <1>5
  <2> QED BY <1>2, <1>4, <1>8, <2>1, <2>2, <2>3, <2>4
<1>10. Survives(n + 1)'
  <2>1. n + 1 + 1..n + 1 = {} /\ n + 1 \in 1..n + 1 /\ n + 1 \notin skipped
    BY <1>2, <1>5
  <2> QED BY <1>1, <1>2, <1>3, <1>4, <2>1 DEF Survives, Kept, TakenOver
<1>11. ASSUME NEW i \in 1..stored', Survives(i)'
       PROVE  payload'[chunks'[i].id] = Mine(chunks'[i])
  <2>1. CASE i = n + 1
    BY <1>1, <1>2, <1>4, <2>1
  <2>2. CASE i \in 1..n
    BY <1>1, <1>2, <1>4, <1>8, <1>9, <1>11, <2>2 DEF RecallInv
  <2> QED BY <1>2, <1>5, <2>1, <2>2
<1>12. Kept' = Kept \cup {n + 1}
  BY <1>1, <1>2, <1>5 DEF Kept
<1>13. c.id \in Recalled'
  BY <1>3, <1>4 DEF Recalled
<1>14. ASSUME NEW t \in PointIds, t # c.id PROVE t \in Recalled' <=> t \in Recalled
  BY <1>4, <1>14 DEF Recalled
<1>15. ASSUME NEW i \in Kept' PROVE chunks'[i].id \in Recalled' \/ TakenOver(i)'
  <2>1. CASE i = n + 1
    BY <1>1, <1>2, <1>13, <2>1
  <2>2. CASE i \in Kept /\ chunks[i].id = c.id
    BY <1>1, <1>13, <2>2
  <2>3. CASE i \in Kept /\ chunks[i].id # c.id
    <3>1. i \in 1..n
      BY <1>2, <2>3 DEF Kept
    <3>2. chunks[i].id \in Recalled \/ TakenOver(i)
      BY <2>3 DEF RecallInv
    <3> QED BY <1>1, <1>4, <1>8, <1>14, <2>3, <3>1, <3>2 DEF TakenOver
  <2> QED BY <1>12, <2>1, <2>2, <2>3
<1>16. ASSUME chunks' # <<>>, marked', NEW t \in Recalled'
       PROVE  \E i \in Kept' : chunks'[i].id = t
  <2>1. CASE t = c.id
    BY <1>1, <1>2, <1>12, <2>1
  <2>2. CASE t # c.id
    <3>1. t \in Recalled
      BY <1>14, <1>16, <2>2 DEF Recalled
    <3>2. PICK i \in Kept : chunks[i].id = t
      BY <1>1, <1>16, <3>1 DEF RecallInv
    <3> QED BY <1>1, <1>12, <3>2
  <2> QED BY <2>1, <2>2
<1>17. RecallInv'
  BY <1>11, <1>15, <1>16 DEF RecallInv
<1> QED BY <1>6, <1>7, <1>17

LEMMA SkipChunkStep ==
    ASSUME StoreTypes, ChunksInv, RecallInv, SkipChunk
    PROVE  StoreTypes' /\ ChunksInv' /\ RecallInv'
<1>1. /\ Storing /\ phase = "storing" /\ phase' = "storing" /\ stored' = stored + 1
      /\ UNCHANGED <<chunks, tables, payload, marked>> /\ skipped' = skipped \cup {stored + 1}
  BY DEF SkipChunk, Storing
<1>2. PICK n \in Nat :
        /\ n = stored /\ n + 1 \in 1..Len(chunks)
        /\ skipped \subseteq 1..n /\ stored' = n + 1 /\ n + 1 \in 0..Len(chunks)
  BY <1>1, StoringFacts
<1>3. /\ \A i : i \in 1..n + 1 <=> i \in 1..n \/ i = n + 1
      /\ 1..n \subseteq 1..n + 1 /\ n + 1 \in 1..n + 1 /\ n + 1 \notin 1..n
  OBVIOUS
<1>4. StoreTypes'
  BY <1>1, <1>2, <1>3 DEF StoreTypes
<1>5. ChunksInv'
  BY <1>1 DEF ChunksInv
<1>6. ASSUME NEW i \in 1..n PROVE Survives(i)' <=> Survives(i)
  <2>1. \A j : j \in i + 1..n + 1 <=> j \in i + 1..n \/ j = n + 1
    OBVIOUS
  <2>2. \A j \in i + 1..n : j \in 1..n
    OBVIOUS
  <2>3. Survives(i)' <=>
          /\ i \notin skipped'
          /\ \A j \in i + 1..n + 1 : chunks[j].id = chunks[i].id => j \in skipped'
          /\ payload[chunks[i].id].doc # "other"
    BY <1>1, <1>2, <1>3 DEF Survives, Kept, TakenOver
  <2>4. Survives(i) <=>
          /\ i \notin skipped
          /\ \A j \in i + 1..n : chunks[j].id = chunks[i].id => j \in skipped
          /\ payload[chunks[i].id].doc # "other"
    BY <1>2 DEF Survives, Kept, TakenOver
  <2>5. \A j : j \in skipped' <=> j \in skipped \/ j = n + 1
    BY <1>1, <1>2
  <2> QED BY <1>3, <2>1, <2>2, <2>3, <2>4, <2>5
<1>7. ~Survives(n + 1)'
  BY <1>1, <1>2 DEF Survives, Kept
<1>8. Recalled' = Recalled /\ Kept' = Kept /\ \A i : TakenOver(i)' <=> TakenOver(i)
  <2>1. Kept' = Kept
    BY <1>1, <1>2, <1>3 DEF Kept
  <2> QED BY <1>1, <2>1 DEF Recalled, TakenOver
<1>9. ASSUME NEW i \in 1..stored', Survives(i)'
      PROVE  payload'[chunks'[i].id] = Mine(chunks'[i])
  <2>1. i \in 1..n
    BY <1>2, <1>3, <1>7, <1>9
  <2> QED BY <1>1, <1>2, <1>6, <1>9, <2>1 DEF RecallInv
<1>10. RecallInv'
  BY <1>1, <1>8, <1>9 DEF RecallInv
<1> QED BY <1>4, <1>5, <1>10

LEMMA OtherDocumentStep ==
    ASSUME StoreTypes, ChunksInv, RecallInv, NEW t \in PointIds, OtherDocument(t)
    PROVE  StoreTypes' /\ ChunksInv' /\ RecallInv'
<1>1. /\ phase' = phase /\ UNCHANGED <<chunks, tables, stored, skipped, marked>>
      /\ payload' = [payload EXCEPT ![t] = [NoPayload EXCEPT !.doc = "other"]]
  BY DEF OtherDocument
<1>2. PICK p \in Payload : p = [NoPayload EXCEPT !.doc = "other"] /\ p.doc = "other"
  BY Payloads
<1>3. /\ payload \in [PointIds -> Payload] /\ payload'[t] = p
      /\ \A u \in PointIds : u # t => payload'[u] = payload[u]
      /\ payload' \in [PointIds -> Payload]
  BY <1>1, <1>2 DEF StoreTypes
<1>4. StoreTypes'
  BY <1>1, <1>3 DEF StoreTypes
<1>5. ChunksInv'
  BY <1>1 DEF ChunksInv
<1>6. \A i \in 1..stored : chunks[i].id \in PointIds
  BY IdOfChunk
<1>7. ASSUME NEW i \in 1..stored PROVE Survives(i)' <=> Survives(i) /\ chunks[i].id # t
  BY <1>1, <1>2, <1>3, <1>6 DEF Survives, Kept, TakenOver
<1>8. ASSUME NEW i \in 1..stored', Survives(i)'
      PROVE  payload'[chunks'[i].id] = Mine(chunks'[i])
  BY <1>1, <1>3, <1>6, <1>7, <1>8 DEF RecallInv
<1>9. Kept' = Kept /\ Kept \subseteq 1..stored
  BY <1>1 DEF Kept
<1>10. \A u \in PointIds : u # t => (u \in Recalled' <=> u \in Recalled)
  BY <1>3 DEF Recalled
<1>11. ASSUME NEW i \in Kept' PROVE chunks'[i].id \in Recalled' \/ TakenOver(i)'
  <2>1. chunks[i].id \in PointIds /\ (chunks[i].id \in Recalled \/ TakenOver(i))
    BY <1>6, <1>9 DEF RecallInv
  <2> QED BY <1>1, <1>2, <1>3, <1>10, <2>1 DEF TakenOver
<1>12. ASSUME phase' \in {"storing", "done"}, chunks' # <<>>, marked', NEW u \in Recalled'
       PROVE  \E i \in Kept' : chunks'[i].id = u
  <2>1. u \in Recalled
    BY <1>2, <1>3, <1>12 DEF Recalled
  <2> QED BY <1>1, <1>9, <1>12, <2>1 DEF RecallInv
<1>13. RecallInv'
  BY <1>8, <1>11, <1>12 DEF RecallInv
<1> QED BY <1>4, <1>5, <1>13

LEMMA StoreInit ==
    ASSUME FileInit PROVE StoreTypes /\ ChunksInv /\ RecallInv
<1>1. /\ phase = "reading" /\ chunks = <<>> /\ tables = 0 /\ stored = 0 /\ skipped = {}
      /\ marked = FALSE /\ payload = [t \in PointIds |-> NoPayload]
  BY DEF FileInit
<1>2. chunks \in Seq(ChunkOf) /\ Len(chunks) = 0 /\ DOMAIN chunks = {}
  BY <1>1, EmptySeq
<1>3. NoPayload \in Payload
  BY DEF NoPayload, Payload
<1>4. StoreTypes
  <2>1. payload \in [PointIds -> Payload]
    BY <1>1, <1>3
  <2>2. stored \in 0..Len(chunks) /\ skipped \subseteq 1..stored
    BY <1>1, <1>2
  <2> QED BY <1>1, <1>2, <2>1, <2>2 DEF StoreTypes
<1>5. (\A i \in 1..stored : FALSE) /\ Kept = {}
  BY <1>1 DEF Kept
<1> QED BY <1>1, <1>2, <1>4, <1>5 DEF ChunksInv, RecallInv

LEMMA StoreStep ==
    ASSUME GroupInv, StoreTypes, ChunksInv, RecallInv, [FileNext]_fileVars
    PROVE  StoreTypes' /\ ChunksInv' /\ RecallInv'
<1>1. CASE ReadSlack \/ CollectChunks \/ CollectTables \/ AddTable \/ AddImage
  BY <1>1, ReadSlackStep, CollectChunksStep, CollectTablesStep, AddTableStep, AddImageStep
<1>2. CASE Embed \/ StoreChunk \/ SkipChunk \/ \E t \in PointIds : OtherDocument(t)
  BY <1>2, EmbedStep, StoreChunkStep, SkipChunkStep, OtherDocumentStep
<1>3. CASE ReadNothing \/ ReadRaises \/ ReadText \/ ReadElements \/ ReadProse
  <2>1. /\ UNCHANGED ingestVars /\ phase = "reading"
        /\ phase' \in {"done", "failed", "paragraphs", "elements", "tables"}
    BY <1>3 DEF ReadNothing, ReadRaises, ReadText, ReadElements, ReadProse, Reads
  <2>2. chunks = <<>> /\ stored = 0
    BY <2>1 DEF StoreTypes
  <2> QED BY <2>1, <2>2, StoreKept
<1>4. CASE PdfRead \/ NothingToStore \/ EmbedRaises
  <2>1. /\ UNCHANGED ingestVars
        /\ \/ phase \in {"tables", "images"} /\ phase' = "embedding"
           \/ phase = "embedding" /\ chunks = <<>> /\ phase' = "done"
           \/ phase \in {"embedding", "storing"} /\ phase' = "failed"
    BY <1>4 DEF PdfRead, NothingToStore, EmbedRaises
  <2>2. phase = "embedding" => stored = 0
    BY DEF StoreTypes
  <2> QED BY <2>1, <2>2, StoreKept
<1>5. CASE Stored
  BY <1>5, StoreKept DEF Stored
<1>6. CASE Chunked
  <2>1. UNCHANGED ingestVars
    BY <1>6 DEF Chunked
  <2>2. /\ phase \in {"elements", "sections", "paragraphs", "sentences", "parents", "children"}
        /\ phase' \in {"elements", "sections", "paragraphs", "sentences", "parents", "children", "chunks"}
    <3>1. CASE GroupElements
      BY <3>1 DEF GroupElements, SkipElement, Heading, NoiseTitle, Prose, IsolateTable, EndOfElements,
                  PackSection, Joins, Grouping, Grouped
    <3>2. CASE SplitByParagraphs
      BY <3>2 DEF SplitByParagraphs, JoinParagraph, NextParent, LongParagraph, JoinSentence,
                  EndOfParagraph, EndOfDocument, Packing
    <3>3. CASE SplitChildChunks
      BY <3>3 DEF SplitChildChunks, CutParent, CutChild, LastChild, EndOfChildren
    <3> QED BY <1>6, <3>1, <3>2, <3>3 DEF Chunked
  <2>3. /\ phase \notin {"storing", "done", "failed", "reading"}
        /\ phase' \notin {"storing", "done", "failed", "reading"}
    BY <2>2
  <2> QED BY <2>1, <2>3, StoreKept
<1>7. CASE UNCHANGED fileVars
  BY <1>7, StoreKept DEF fileVars, chunkerVars
<1> QED BY <1>1, <1>2, <1>3, <1>4, <1>5, <1>6, <1>7
        DEF FileNext, IngestFile, Read, Collect, StoreChunks

LEMMA RecallsInTurn ==
    ASSUME StoreTypes, ChunksInv, RecallInv PROVE RecallKeepsSequence
<1>1. \A i \in 1..stored : i \in DOMAIN chunks /\ chunks[i].id \in PointIds
  BY IdOfChunk
<1>2. \A i \in 1..stored : Survives(i) => payload[chunks[i].id] = Mine(chunks[i])
  BY DEF RecallInv
<1>3. ASSUME NEW i \in {k \in Kept : Survives(k)}, NEW j \in {k \in Kept : Survives(k)}, i < j,
             InOrder(chunks[i], chunks[j])
      PROVE  SortsBefore(payload[chunks[i].id], payload[chunks[j].id])
  <2>1. i \in 1..stored /\ j \in 1..stored
    BY DEF Kept
  <2>2. SortsBefore(chunks[i], chunks[j])
    BY <1>1, <1>3, <2>1 DEF ChunksInv, InTurn
  <2>3. payload[chunks[i].id] = Mine(chunks[i]) /\ payload[chunks[j].id] = Mine(chunks[j])
    BY <1>2, <1>3, <2>1
  <2>4. \A c : Mine(c).index = c.index /\ Mine(c).page = c.page
    BY DEF Mine
  <2> QED BY <2>2, <2>3, <2>4 DEF SortsBefore
<1>4. phase = "done" /\ chunks # <<>> /\ marked => Recalled \subseteq {chunks[i].id : i \in Kept}
  BY DEF RecallInv
<1>5. \A i \in Kept : chunks[i].id \in Recalled \/ TakenOver(i)
  BY DEF RecallInv
<1> QED BY <1>3, <1>4, <1>5 DEF RecallKeepsSequence

\* Whatever repeats, is skipped or raised, and whoever stores the same text
\* meanwhile: the recall of a document that was stored misses no chunk but
\* those another document took over and holds nothing of a marked version; it
\* keeps the order of everything but the tables of a PDF among each other and
\* its prose, which get_document_chunks mixes (RecallKeepsSequence).
THEOREM RecallInSequence == FileSpec => []RecallKeepsSequence
<1> DEFINE FileInv == GroupInv /\ PackInv /\ CutInv /\ StoreTypes /\ ChunksInv /\ RecallInv
<1>1. FileInit => FileInv
  BY StagesInit, StoreInit
<1>2. FileInv /\ [FileNext]_fileVars => FileInv'
  BY StagesStep, StoreStep
<1>3. FileInv => RecallKeepsSequence
  BY RecallsInTurn
<1> QED BY <1>1, <1>2, <1>3, PTL DEF FileSpec
=============================================================================

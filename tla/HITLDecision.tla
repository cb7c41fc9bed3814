---------------------------- MODULE HITLDecision ----------------------------
(***************************************************************************)
(* The life of an action proposal of ai-sdlc-assistant: an agent proposes, *)
(* check_hitl stores the proposal, the chat route or the Slack flow hands  *)
(* its id to a human, and any number of Approve / Reject clicks decide it, *)
(* each served by some worker as a coroutine that looks the action up,     *)
(* executes it over MCP and only then removes it from the store.           *)
(***************************************************************************)
EXTENDS HITLManager, Permissions, SessionStore

CONSTANTS Clicks,     \* Approve / Reject requests: web calls and Slack buttons
          Sessions,   \* chat sessions
          Actions,    \* the kinds of action the agents propose
          Roles,      \* the roles of the web users
          None        \* no proposal, no request

ASSUME ConstantsAssumption ==
    /\ Actions \subseteq AllActions
    /\ Roles \subseteq AllRoles
    /\ Placeholder \notin Clicks

VARIABLES backend,     \* the session store's database
          card,        \* the proposal stored under each id
          flow,        \* how far the request that made the proposal got
          turns,       \* session store: the proposal turns of each session
          pc,          \* how far the handler of each click got
          click,       \* what was clicked, where and by whom
          copy,        \* the handler's `action`, as hitl_manager.get returned it
          hit,         \* resolve()'s `action`: its GET found the key
          writes,      \* per id, the clicks whose external write took effect
          settled,     \* clicks whose resolve() returned
          recorded,    \* clicks whose outcome reached the session store
          row,         \* the turn each click's UPDATE has chosen
          raced,       \* sessions in which two UPDATEs overlapped
          posted       \* clicks whose outcome was posted to the Slack thread

flowVars == <<card, flow>>
clickVars == <<pc, click, copy, hit>>
effectVars == <<writes, settled, posted>>
turnVars == <<backend, turns, recorded, row, raced>>
vars == <<storeVars, flowVars, turnVars, clickVars, effectVars>>

\* A release proposal whose verdict is NO_GO and a reviewer proposal without
\* a reviewer are stored like any other and refused at approval.
Gated == {"release_approval", "assign_reviewer"}

Cards == { c \in [ origin : {"web", "slack"}, action : Actions,
                   blocked : BOOLEAN, session : Sessions, worker : Workers ] :
             c.blocked => c.action \in Gated }

ClickData == [ id : Ids, worker : Workers, role : Roles \cup {"developer"},
               decision : {"approve", "reject"} ]

Turn == [id : Ids, outcome : Clicks \cup {Placeholder}]

Running == {"lookup", "found", "resolve", "delete", "record", "update"}
Answered == {"notfound", "refused", "error", "done", "killed"}

TypeOK ==
    /\ StoreTypeOK
    /\ backend \in {"sqlite", "postgres"}
    /\ card \in [Ids -> Cards \cup {None}]
    /\ flow \in [Ids -> {"new", "saved", "amending", "offered", "dead"}]
    /\ turns \in [Sessions -> Seq(Turn)]
    /\ pc \in [Clicks -> {"idle"} \cup Running \cup Answered]
    /\ click \in [Clicks -> ClickData \cup {None}]
    /\ copy \in [Clicks -> Copy]
    /\ hit \in [Clicks -> BOOLEAN]
    /\ writes \in [Ids -> SUBSET Clicks]
    /\ settled \in SUBSET Clicks
    /\ recorded \in SUBSET Clicks
    /\ row \in [Clicks -> Nat]
    /\ raced \in SUBSET Sessions
    /\ posted \in SUBSET Clicks

Init ==
    /\ StoreInit
    /\ backend \in {"sqlite", "postgres"}
    /\ card = [id \in Ids |-> None]
    /\ flow = [id \in Ids |-> "new"]
    /\ turns = [s \in Sessions |-> <<>>]
    /\ pc = [r \in Clicks |-> "idle"]
    /\ click = [r \in Clicks |-> None]
    /\ copy = [r \in Clicks |-> "none"]
    /\ hit = [r \in Clicks |-> FALSE]
    /\ writes = [id \in Ids |-> {}]
    /\ settled = {}
    /\ recorded = {}
    /\ row = [r \in Clicks |-> 0]
    /\ raced = {}
    /\ posted = {}

-----------------------------------------------------------------------------
(* The request that makes the proposal.                                    *)

\* The hitl_gate node: the proposal of some agent is stored under a new id.
Propose(id) ==
    /\ flow[id] = "new"
    /\ \E c \in Cards :
          /\ card' = [card EXCEPT ![id] = c]
          /\ Save(c.worker, id)
    /\ flow' = [flow EXCEPT ![id] = "saved"]
    /\ UNCHANGED <<turnVars, clickVars, effectVars>>

\* chat() after the graph: the turn is saved with the placeholder (a failing
\* session store is logged and ignored), then the response carries the id.
ChatRespond(id) ==
    /\ flow[id] = "saved"
    /\ card[id].origin = "web"
    /\ \/ turns' = [turns EXCEPT ![card[id].session] = SaveTurn(@, id)]
       \/ UNCHANGED turns
    /\ flow' = [flow EXCEPT ![id] = "offered"]
    /\ UNCHANGED <<backend, recorded, row, raced, storeVars, card, clickVars, effectVars>>

\* _run_ticket_from_slack reads the action back and adds the coordinates of
\* its thread.  A dict that came from the fallback is amended in place.  When
\* nothing is found the buttons are posted all the same.
SlackReadBack(id) ==
    LET w == card[id].worker IN
    /\ flow[id] = "saved"
    /\ card[id].origin = "slack"
    /\ flow' = [flow EXCEPT ![id] = IF Get(w, id) = "none" THEN "offered"
                                                           ELSE "amending"]
    /\ fallback' = IF (redisUp /\ redis[id] # "none") \/ fallback[w][id] = "none"
                   THEN fallback
                   ELSE [fallback EXCEPT ![w][id] = "amended"]
    /\ UNCHANGED <<redis, redisUp, outages, restarts, dropped, lost,
                   card, turnVars, clickVars, effectVars>>

\* Wrong on purpose: the amended dict is never written back.
SlackAmendLocally(id) ==
    /\ flow[id] = "amending"
    /\ flow' = [flow EXCEPT ![id] = "offered"]
    /\ UNCHANGED <<storeVars, card, turnVars, clickVars, effectVars>>

\* ... re-persists it under the same key, over its own connection (a failure
\* is logged and ignored), and posts the card with the two buttons.
SlackAmend(id) ==
    /\ flow[id] = "amending"
    /\ redis' = IF redisUp THEN [redis EXCEPT ![id] = "amended"] ELSE redis
    /\ flow' = [flow EXCEPT ![id] = "offered"]
    /\ UNCHANGED <<fallback, redisUp, outages, restarts, dropped, lost,
                   card, turnVars, clickVars, effectVars>>

-----------------------------------------------------------------------------
(* The handler of one click.                                               *)

CardOf(r) == card[click[r].id]
IsSlack(r) == CardOf(r).origin = "slack"
IsApprove(r) == click[r].decision = "approve"
Goto(r, from, to) == pc[r] = from /\ pc' = [pc EXCEPT ![r] = to]

\* Only the chat that made a proposal knows its id, and only the buttons in
\* the Slack thread carry the id of a Slack proposal; a Slack decision runs
\* as "developer" whoever clicked.
Click(r) ==
    /\ Goto(r, "idle", "lookup")
    /\ \E d \in ClickData :
          /\ flow[d.id] = "offered"
          /\ d.role \in IF card[d.id].origin = "slack" THEN {"developer"} ELSE Roles
          /\ click' = [click EXCEPT ![r] = d]
    /\ UNCHANGED <<storeVars, flowVars, turnVars, copy, hit, effectVars>>

\* action = await hitl_manager.get(hitl_id); 404, or nothing at all on Slack.
Lookup(r) ==
    LET found == Get(click[r].worker, click[r].id) IN
    /\ Goto(r, "lookup", IF found = "none" THEN "notfound" ELSE "found")
    /\ copy' = [copy EXCEPT ![r] = found]
    /\ UNCHANGED <<storeVars, flowVars, turnVars, click, hit, effectVars>>

\* Wrong on purpose: the verdict and reviewer gates without require().
RefusedByGate(r) == ~IsSlack(r) /\ IsApprove(r) /\ CardOf(r).blocked

\* require(role, action) raises 403, a NO_GO verdict 409 and a missing
\* reviewer 400; the Slack path has none of these checks.
Refused(r) ==
    /\ ~IsSlack(r)
    /\ IsApprove(r)
    /\ ~Can(click[r].role, CardOf(r).action) \/ CardOf(r).blocked

\* Wrong on purpose: a refused approval takes the action out of the store.
RefuseRemoves(r) ==
    /\ Goto(r, "found", "refused")
    /\ Refused(r)
    /\ Delete(click[r].worker, click[r].id, TRUE)
    /\ UNCHANGED <<flowVars, turnVars, click, copy, hit, effectVars>>

Refuse(r) ==
    /\ Goto(r, "found", "refused")
    /\ Refused(r)
    /\ UNCHANGED <<storeVars, flowVars, turnVars, click, copy, hit, effectVars>>

\* What an approval executes: Slack approvals always create a ticket.
Executes(r) == IF IsSlack(r) THEN "create_ticket" ELSE CardOf(r).action

\* The MCP write takes effect or not; its error, its refusal or a lost answer
\* is turned into a text, so that the route goes on as after a success.
Attempt(r) ==
    \E effect \in BOOLEAN :
        writes' = IF effect THEN [writes EXCEPT ![click[r].id] = @ \cup {r}]
                            ELSE writes

\* The reject_pr branch rebinds `body`, the request, to a string, so the route
\* fails with a 500 where it should call resolve(body.hitl_id).
Execute(r) ==
    /\ Goto(r, "found", IF Executes(r) = "reject_pr" THEN "error" ELSE "resolve")
    /\ IsApprove(r)
    /\ ~Refused(r)
    /\ Attempt(r)
    /\ UNCHANGED <<storeVars, flowVars, turnVars, click, copy, hit,
                   settled, posted>>

\* A reject goes straight to resolve(), without a role check.
Reject(r) ==
    /\ Goto(r, "found", "resolve")
    /\ ~IsApprove(r)
    /\ UNCHANGED <<storeVars, flowVars, turnVars, click, copy, hit, effectVars>>

\* resolve(), its GET; when Redis is away the fallback entry is popped.
ResolveGet(r) ==
    /\ \/ /\ redisUp
          /\ Goto(r, "resolve", "delete")
          /\ hit' = [hit EXCEPT ![r] = redis[click[r].id] # "none"]
          /\ UNCHANGED <<storeVars, settled>>
       \/ /\ ~redisUp
          /\ Goto(r, "resolve", "record")
          /\ Pop(click[r].worker, click[r].id)
          /\ settled' = settled \cup {r}
          /\ UNCHANGED hit
    /\ UNCHANGED <<flowVars, turnVars, click, copy, writes, posted>>

\* resolve(), its DELETE; nobody looks at what resolve() returns.
ResolveDelete(r) ==
    /\ Goto(r, "delete", "record")
    /\ Delete(click[r].worker, click[r].id, hit[r])
    /\ settled' = settled \cup {r}
    /\ UNCHANGED <<flowVars, turnVars, click, copy, hit, writes, posted>>

\* The web routes overwrite the newest placeholder of the session: SQLite in
\* one go.  A failure is logged and ignored.
RecordTurn(r) ==
    \/ /\ backend = "sqlite"
       /\ turns' = [turns EXCEPT ![CardOf(r).session] = UpdateLastHitl(@, r)]
       /\ recorded' = recorded \cup {r}
    \/ UNCHANGED <<turns, recorded>>

\* The Slack path posts to the thread it knows of instead.
RecordOutcome(r) ==
    /\ Goto(r, "record", "done")
    /\ \/ /\ ~IsSlack(r)
          /\ RecordTurn(r)
          /\ UNCHANGED posted
       \/ /\ IsSlack(r)
          /\ posted' = IF copy[r] = "amended" THEN posted \cup {r} ELSE posted
          /\ UNCHANGED <<turns, recorded>>
    /\ UNCHANGED <<backend, row, raced, storeVars, flowVars, click, copy, hit,
                   writes, settled>>

\* PostgreSQL: the subquery of the UPDATE chooses the row ...
ChooseTurn(r) ==
    LET s == CardOf(r).session IN
    /\ Goto(r, "record", "update")
    /\ backend = "postgres" /\ ~IsSlack(r)
    /\ row' = [row EXCEPT ![r] = NewestPending(turns[s])]
    /\ raced' = IF \E q \in Clicks : pc[q] = "update" /\ CardOf(q).session = s
                THEN raced \cup {s} ELSE raced
    /\ UNCHANGED <<backend, turns, recorded, storeVars, flowVars, click, copy, hit,
                   effectVars>>

\* ... and it is written, again if another UPDATE that chose it was faster;
\* or the statement fails, which is logged and ignored.
UpdateRow(r) ==
    /\ Goto(r, "update", "done")
    /\ \/ /\ turns' = [turns EXCEPT ![CardOf(r).session] = UpdateTurn(@, row[r], r)]
          /\ recorded' = recorded \cup {r}
       \/ UNCHANGED <<turns, recorded>>
    /\ UNCHANGED <<backend, row, raced, storeVars, flowVars, click, copy, hit, effectVars>>

Handle(r) ==
    \/ Lookup(r)
    \/ Refuse(r)
    \/ Execute(r)
    \/ Reject(r)
    \/ ResolveGet(r)
    \/ ResolveDelete(r)
    \/ RecordOutcome(r)
    \/ ChooseTurn(r)
    \/ UpdateRow(r)

-----------------------------------------------------------------------------
(* The environment.                                                        *)

StoreEvent ==
    /\ RedisDown \/ RedisBack \/ FlushAll \/ \E id \in Ids : Expire(id)
    /\ UNCHANGED <<flowVars, turnVars, clickVars, effectVars>>

\* admin_clear_all also deletes the turns of the project, those in SQLite.
ClearTurns ==
    /\ backend = "sqlite"
    /\ \E cleared \in SUBSET Sessions :
          /\ \E s \in cleared : turns[s] # <<>>
          /\ turns' = [s \in Sessions |-> IF s \in cleared THEN <<>> ELSE turns[s]]
    /\ UNCHANGED <<backend, recorded, row, raced, storeVars, flowVars, clickVars,
                   effectVars>>

\* A restart kills the coroutines of the worker and empties its fallback.
Restart(w) ==
    /\ ForgetFallback(w)
    /\ pc' = [r \in Clicks |-> IF pc[r] \in Running /\ click[r].worker = w
                               THEN "killed" ELSE pc[r]]
    /\ flow' = [id \in Ids |-> IF /\ flow[id] \in {"saved", "amending"}
                                  /\ card[id].worker = w
                               THEN "dead" ELSE flow[id]]
    /\ UNCHANGED <<card, turnVars, click, copy, hit, effectVars>>

Next ==
    \/ \E id \in Ids : \/ Propose(id)
                       \/ ChatRespond(id)
                       \/ SlackReadBack(id)
                       \/ SlackAmend(id)
    \/ \E r \in Clicks : Click(r) \/ Handle(r)
    \/ StoreEvent
    \/ ClearTurns
    \/ \E w \in Workers : Restart(w)

Spec == Init /\ [][Next]_vars

-----------------------------------------------------------------------------
(* Properties.                                                             *)

NeverOut == outages = 0

SettledIds == {click[r].id : r \in settled}

Findable(id) == redis[id] # "none" \/ \E w \in Workers : fallback[w][id] # "none"

\* While Redis has never been away, an action that one click has settled is in
\* no store, neither under its key nor in the memory of a worker, so no later
\* click can find it and execute it again (resolve() of orchestrator/hitl.py
\* against the Slack flow that writes the key a second time).
SettledNeverFound ==
    NeverOut => \A id \in SettledIds : ~Findable(id)

\* An action stays where some worker can find it until a click settles it,
\* Redis drops its key (its TTL passes, it is evicted, Redis is flushed by
\* admin_clear_all or restarts) or the worker whose memory holds it restarts:
\* neither a 403, 409, 400 or 404 answer, nor a crash in the middle of an
\* approval, nor a Redis outage may lose it ("Leaves the action pending (no resolve) so an
\* authorized user can still approve it").
PendingUntilSettled ==
    \A id \in Ids :
        flow[id] # "new" /\ id \notin dropped \cup lost \cup SettledIds
            => Findable(id)

\* While Redis has never been away, a click is told "not found" only for an
\* action that another click has settled or whose key Redis has dropped (TTL,
\* eviction, flush, restart), whichever worker stored it and whichever worker answers.
NotFoundMeansSettled ==
    NeverOut => \A r \in Clicks :
        pc[r] = "notfound" => click[r].id \in SettledIds \cup dropped

\* Every external write is owed to an Approve click, and a web one has the
\* role its action needs and no gate against it, however clicks of several
\* users on the same action interleave.
WriteIsAuthorised ==
    \A id \in Ids : \A r \in writes[id] :
        /\ click[r].id = id
        /\ IsApprove(r)
        /\ card[id].origin = "web" =>
              Can(click[r].role, card[id].action) /\ ~card[id].blocked

\* Once every proposal of a session that has a turn has had an outcome
\* recorded, no turn of the session still says "pending approval", in
\* whatever order the proposals were decided and although each outcome goes
\* to the newest placeholder (aupdate_last_hitl).  Sessions in which two
\* outcomes were recorded at once on PostgreSQL are exempt: there both may
\* choose the same turn.
PlaceholdersCleared ==
    \A s \in Sessions \ raced :
        (\A i \in DOMAIN turns[s] :
             \E r \in recorded : click[r].id = turns[s][i].id)
        => PendingTurns(turns[s]) = {}

\* While Redis has never been away, a Slack decision ends with its result in the thread: the buttons
\* are not offered before the thread's coordinates are stored.
SlackOutcomePosted ==
    NeverOut => \A r \in Clicks :
        pc[r] = "done" /\ IsSlack(r) => r \in posted

-----------------------------------------------------------------------------
(* Claims of the comments that the code does not keep.                     *)

\* api/routes/hitl.py: both endpoints "Execute (or discard) the action" and
\* "Remove the action from the store".
ExecutedIsRemoved ==
    \A r \in Clicks :
        pc[r] \in {"done", "error"} => r \in settled

=============================================================================

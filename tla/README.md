# Verification of Python-Learning

TLA+ specifications, TLC model checks and TLAPS proofs for the programs of this
repository. The specifications are written from the code; every definition that
models code names its lines in `PROJECT.json` ("map"). Paths below are relative
to `src/`; `B/` stands for `ai-sdlc-assistant/backend/`, `M/` for
`sdlc-mcp-server/`, `P/` for `ai-platform/backend/app/` and `V/` for
`3D-Avatar-Copilot/frontend/src/`.

The repository holds several programs. `ai-sdlc-assistant`, with its tool
server `sdlc-mcp-server`, is by far the richest in behaviour (requests on one
event loop, Redis, two databases, Slack and web clients, streaming) and gets
most of the models; `ai-platform` and the page of `3D-Avatar-Copilot` follow.

## 1. Inventory

| Component | State it keeps | Operations | Interacts with | What is hard | What must hold |
|---|---|---|---|---|---|
| **HITL approval** `B/orchestrator/hitl.py`, `B/api/routes/hitl.py`, `B/api/routes/webhooks.py`, `check_hitl` in `B/orchestrator/nodes.py` | Redis key `hitl:{id}` with a TTL, a fallback dict per worker | save, get, resolve; approve, reject, Slack button | chat route, session store, MCP writes, Slack | racing clicks, Redis outages, restarts, an action executed before it is removed | no action dropped, none found again once settled, every write authorised |
| **Session store** `B/memory/session_store.py` | rows of `conversation_turns`, a connection pool | save turn, overwrite newest placeholder, read window, create the table | chat and HITL routes | turns are matched by a placeholder text; the pool is assigned before its table exists | no placeholder left, no pool without a table nobody creates |
| **Chat streaming** `B/providers/*.py`, `B/api/routes/stream.py`, `frontend-angular` `chat.ts` | Redis list and done key per stream, the page's bubbles | push token, retry, fallback, poll, trim, done, time out; page handlers | the chat graph and the browser, over two connections per message | two requests and a page with no common order, non-atomic drain, retries | tokens in order, streams end, answers stay |
| **MCP client** `B/mcp_client/client.py`, `B/api/routes/admin/mcp_servers.py` | bearer token, clients, tool list (module globals), YAML | fetch tools, call tool, retry once, reload servers, admin edits | `sdlc-mcp-server`, the agents | globals read before and written after an await | the list follows the configuration, a lost token heals |
| **OAuth server** `M/auth` | pending consents and their index, codes, access, refresh and service tokens in Redis | authorize, consent form, both exchanges, service token, expiry | MCP hosts, the user's browser, the MCP client | load and exchange are separate calls; the index names keys that may be gone | one code per consent, tokens only for hosts with consent |
| **Chat graph and agents** `B/orchestrator/graph.py`, `nodes.py`, `classifier.py`, `evaluation.py`, `B/agents/*`, `B/mcp_client/tool_use.py` | the state dict of one request, the session's turns | guard, classify, run one agent, gate, persona, evaluate | RAG, MCP, providers, HITL, session store | every tool, the LLM and the judge may fail or say anything; later nodes rewrite what earlier ones wrote | grounded answers, refusals and cards unchanged, the right ticket, no write without a card |
| **RAG** `B/rag/*` | vector collection, BM25 index in memory | read, split, filter, ingest, mark stale, retrieve, recall | chat graph, admin, sources | chunks replaced one by one in a thread, ids that are hashes of texts, window arithmetic | nothing lost or repeated, an ingest replaces its source, the keyword index follows |
| **Memory** `B/memory/semantic_memory.py`, `episodic_memory.py`, admin clears in `B/api/routes/admin/router.py` | facts in Qdrant, events | learn, deduplicate, supersede, recall, clear | chat graph, HITL | best-effort calls half of which may fail | facts agree, the newest is known, no failure stops a request |
| **Tool approval** `P/api/tool_approval_routes.py`, `P/api/chat_routes.py` | rows of pending tool calls | propose, approve, reject | chat, tools | a status read without a lock; a delete of several statements | what took effect is never offered again; all counted documents are gone or none |
| **Document ingestion** `P/rag/pipeline.py`, `P/api/ingestion_routes.py`, `P/rag/ingestion.py` | rows of documents, chunks, jobs, audit events | upload, advance, complete, fail, delete | tool approval, admin routes | failure and restart between the transactions of a job, deletes while it runs | a document has its chunks, a complete job its document, a job ends |
| **Avatar: scene engine and page** `V/engine/SceneEngine.ts`, `V/providers/*.ts`, `V/App.tsx` | an engine with its busy flag and script, a provider with its client, promise and timer, the page's refs | start, connect, fall back, reconnect, play, speak, end, autoplay, close | the vendor's client, the speech of the browser, keys, microphone | end-of-turn messages that come late, twice or never; engines that were replaced and still run | no play hangs or leaves its mark, the script stays in order |
| **Scheduler, metrics; configuration, prompt safety** `B/core` | counters, cached YAML | periodic jobs, reads | all of the backend | - | - |
| **Connectors and tools** `M/connectors`, `M/tools` | none | one HTTP call each | Jira, GitHub, Slack, Confluence | - | - |
| **Tenants, auth, memory, adapters, admin** `P/` | relational tables | single-statement handlers | - | - | - |
| **Avatar: backend and admin panel** `3D-Avatar-Copilot/backend` | JSON files | read, change, write back | the page | - | - |
| **auto-sdlc** | documents only | - | - | - | - |

How the modelled parts meet in one request: `POST /api/chat` runs the graph. It
reads the session's turns and the facts of the project, one agent retrieves
from the knowledge base and calls tools through the MCP client, and its answer
is generated by a provider that pushes tokens to a Redis list. The page has
opened `GET /api/stream/{id}` beforehand, whose generator polls that list. If
the agent proposed an action, `check_hitl` stores it and the response carries
its id: the page shows an approval card and refuses further messages until the
card is resolved by `POST /api/hitl/approve` or `reject`. These look the action
up, execute it over MCP, remove it, overwrite the placeholder turn and record an
event. Slack does the same through webhooks. Afterwards the turn is saved and
facts are learnt from it.

The hazards found on the way are listed in `PROJECT.json` at their lines, each
with the properties that would catch it going wrong.

## 2. Modules

An arrow reads "is extended by"; `MC...` modules only give constants their
values, `..._proofs` modules hold the theorems.

```
Permissions, HITLManager, SessionStore --> HITLDecision --> MCHITLDecision, HITLDecision_proofs

StreamChannel --> ChatStream --> ChatStream_proofs       ChatStream implements ChatPromise

TokenStore --> OAuthServer, MCPClient --> ToolAccess --> MCToolAccess, ToolAccess_proofs

Permissions --> AgentPayload --> PRReviewAgent, TicketAgent, ToolGathering
ToolGathering --> GeneralistAgent, SprintAgents
all agents --> ChatGraph --> MCChatGraph, ChatGraph_proofs

DocumentChunker --> DocumentIngest --> MCDocumentIngest
RagIndex --> MCRagIndex                                  RagIndex, DocumentIngest --> Rag_proofs

TurnStore, SemanticMemory --> ProjectMemory --> MCProjectMemory, ProjectMemory_proofs

DocumentStore --> IngestionJob, TenantRequests --> DocumentCorpus --> DocumentCorpus_proofs

SpeechProvider --> SceneEngine --> AvatarPage --> MCAvatarPage, AvatarPage_proofs
```

### The approval of actions

* **Permissions** is the role matrix of `B/auth/permissions.py`.
* **HITLManager** is the store: `redis` is the shared key of each action,
  `fallback[w]` the dict `_fallback` of worker `w`. `Save`, `Get`, `Pop` and
  `Delete` are the methods, cut where they await. Its environment takes Redis
  away and back, lets a key expire or be evicted (`Expire`), drops all keys at
  once (`FlushAll`: `POST /admin/clear-all`, or a Redis that restarts without
  persistence), and restarts workers. An action's content
  matters only in whether the Slack thread's coordinates are in it: a copy is
  "none", "saved" or "amended". `outages`, `restarts`, `dropped` and `lost` are
  history: they bound the environment and name the legitimate losses.
* **SessionStore** is the sequence of proposal turns of a session;
  `UpdateLastHitl` is the `UPDATE ... WHERE id = (SELECT ... LIMIT 1)` when
  nobody disturbs it, `NewestPending` and `UpdateTurn` its two halves.
* **HITLDecision** composes them. `Propose`, `ChatRespond`, `SlackReadBack` and
  `SlackAmend` are the request that makes the proposal up to the moment its
  buttons are visible. `Click` starts the handler of one approve or reject
  request on any worker, and `Lookup`, `Refuse`, `Execute`, `Reject`,
  `ResolveGet`, `ResolveDelete`, `RecordOutcome` are the stretches of
  `approve_hitl`, `reject_hitl` and `_handle_slack_decision` between awaits, so
  any two handlers interleave at every await. The external write takes effect
  or not, whatever the handler is told. On SQLite, which runs one write at a
  time, `RecordOutcome` overwrites the placeholder in one step; on PostgreSQL
  under READ COMMITTED `ChooseTurn` is the subquery and `UpdateRow` the write, so
  two handlers may choose the same turn (`raced` remembers the sessions where
  they overlapped). `ClearTurns` is the administrator's delete of turns, which
  only reaches SQLite. `Restart` kills the handlers of a worker.

### The streaming of answers

* **StreamChannel** is the server, for the provider `llm.yaml` names.
  `Generate` .. `GraphEnds` are the chat request: attempts on the primary model,
  back-off, wiping of the list (Groq only), fallback model, done key; the calls
  before and after the answer are hidden ones that must not stream.
  `OpenStream` .. `Cancelled` are the generator, with LRANGE, LTRIM and the look
  at the done key as separate steps because other coroutines run between them.
  Any Redis call of the request may fail silently, any of the generator raises.
  A token is identified by its attempt and number.
* **ChatStream** adds the page: bubbles, cards, `loading` and the handlers of
  the two subscriptions, all of which write to the last bubble. Frames of a
  stream arrive in order; streams and POST answers arrive in any order.
* **ChatPromise** is what a user may rely on: one message at a time, each ends
  in an answer or a failure notice, and what was shown as the answer stays.
  `ChatStream` implements it under the mapping `Shown`.

### Tools: the server's authorization and the assistant's client

* **TokenStore** is the Redis of the tool server, **OAuthServer** its handlers:
  `Authorize` (which reuses an open consent of the same host), the consent form
  with its PIN, and the exchanges of codes and refresh tokens, each cut at every
  store call.
* **MCPClient** is the assistant's side: the service token, the clients and the
  tool list as shared globals. `ListTools` and `Invoke` are the two awaits of a
  call, `Relist` and `Retry` what a refusal leads to, and the admin actions
  rewrite the YAML and reload.
* **ToolAccess** puts both over one Redis, whose keys expire or all vanish, with
  servers that refuse, fail and restart.

### The chat graph and its agents

* **AgentPayload** says what agents are asked and what they return. A message is
  abstracted to what the code reads off it with regular expressions: the ids it
  names in order, the keywords, the names. A reply is a kind, the facts it
  states and where they come from, its confidence, and its card. `live` says that
  data of a service is among it, `told` that at least some tool came back,
  if only with an error text. `Starts` is what the cut of a stored reply to 300
  characters may leave of the ids in it.
* **ToolGathering** is the tool loop, in which a call gives data, an error text
  as a normal result, or an exception; **GeneralistAgent**, **PRReviewAgent**,
  **TicketAgent** and **SprintAgents** are one operator per agent, giving the set
  of replies its branches allow for every answer of Jira, GitHub, Slack, the
  retriever and the LLM.
* **ChatGraph** is a session: `Receive`, `RetrieveMemory`, `Block`,
  `ClassifyIntent`, `RunAgent`, `CheckHitl`, `LeaveText`, `AdaptPersona` (with
  the evaluation and its one revision) and `Reply`, one action per node. A turn
  is read back, as the code reads it, by the next message.

### The knowledge base

* **DocumentChunker** has the three stages of `chunker.py` as functions over any
  input: elements to sections, paragraphs to parents, and the sliding window over
  a text. **DocumentIngest** is the file's whole way as a state machine, one
  action per stage. Each stage takes any input of its kind and forgets the state
  of the one before: the stages look at different things (kinds, lengths,
  characters), so feeding each all of its inputs covers their composition.
* **RagIndex** is the concurrent view: ingests fetch, mark the old chunks stale
  and upsert one by one in a worker thread while retrievals on the event loop
  build keyword indexes, sources are edited, chunks cleared and the process
  restarted. An ingest belongs to the server, whose `Finish` drops the keyword
  index, or to one of the two scripts, whose `FinishScript` cannot, and which
  go on when the server restarts. `writers` remembers which ingests changed what
  an index was built from.

### Memory

* **TurnStore** is the store under concurrent first use (pool before schema),
  **SemanticMemory** the facts with their two thresholds, as two relations
  `Same` and `Close`, and the `Limit` of the lookup for what a fact supersedes,
  and **ProjectMemory** everyone who touches them: chats,
  decisions and the administrator's clears on one event loop.

### The documents of a tenant

* **DocumentStore** is the PostgreSQL side: which documents and chunks are
  committed, which jobs link to a document, and what each deleting transaction
  holds (`dropped` chunks, `removed` documents). A document is named by the job
  or upload that creates it. `Referenced` is the check of the two foreign keys.
* **IngestionJob** is a job's row and its background task: one action per
  transaction of `run_ingestion_job`, `Raise` for an exception anywhere in its
  body, `NoteFailure` and `MarkFailed` for the two transactions of its handler.
  A task is lost when the process ends or the handler itself fails.
* **TenantRequests** are the requests that delete: approve (count, delete
  chunks, delete documents), reject, and the delete of one document. The end of
  each transaction is a step of its own after `Answer`, since the session of
  `get_scoped_session` is closed after the response.
* **DocumentCorpus** composes them with uploads, proposals and faults.

### The avatar page

* **SpeechProvider** is the state of a voice: the vendor's client, the promise
  `speak()` waits for and the safety timer; the browser's voice has neither.
* **SceneEngine** is a play from `Begin` to `End` behind the busy flag, and the
  script that runs itself. `FinishSpeaking` resolves whatever promise there is,
  whichever speech a message of the vendor belongs to, as the code does.
* **AvatarPage** is `App.tsx`: `start()` and `connect()` cut at their awaits,
  the fallback engine, Reconnect, keys and words. An engine that was replaced
  keeps its callbacks, its script and its client, so its actions stay enabled.

Definitions whose comment starts with "Wrong on purpose" belong to no
specification: they are plausible bugs of the definition that follows them. Put
in its place, each makes TLC violate one property of the run that checks it,
which shows that the property depends on that line of the code.

## 3. What the runs show

| Run | Question | States | Result |
|---|---|---|---|
| `HITLDecision` | one proposal, web or Slack, two racing clicks on two workers, one outage, one restart, expiry and a flush at any time; or two proposals of a session and three clicks in any order, on SQLite and on PostgreSQL | 1.8 M | `SettledNeverFound`, `PendingUntilSettled`, `NotFoundMeansSettled`, `WriteIsAuthorised`, `SlackOutcomePosted`, `PlaceholdersCleared` hold |
| `HITLRejectPr` | is every executed or discarded action removed? | | violated: approving `reject_pr` fails after the write |
| `ChatStream` | one message through each provider with retries, fallback, lost pushes, broken connections, a cycle limit | 0.26 M | `TokensInOrder`, `StreamsEnd`, `PromiseKept` hold |
| `ChatPage` | two messages, an approval card between them, late frames of the first stream | 1.4 M | `AnswerOnOwnBubble`, `AnswersStand` hold |
| `ToolAccess` | two consents, two forms, two token requests, two tool calls over two servers, five events of hosts, administrator and environment | 3.3 M | `OneCodePerConsent`, `IndexNamesOpenConsent`, `TokensAreConsented`, `ListFollowsConfig`, `HealsWhenListed` hold |
| `ChatGraph` | two messages out of seven kinds, with or without earlier turns, every intent and every outcome of retrieval, tools, LLM, judge and store | 2.5 M | `AnswersAreGrounded`, `RefusalsStand`, `RevisedOnlyToImprove`, `CardsReachUser`, `CardsNameTheirTicket`, `OnlyReadsRun` hold |
| `Chunker` | every small document, text and sequence of elements, from the reader to the store and back | 2.7 M | `SectionsHoldElements`, `ParentsHoldDocument`, `ChildrenCoverText`, `RecallKeepsSequence`, `IngestEnds` hold |
| `RagIndex` | two ingests of three sources in two projects, by the server or by scripts, an edit, failed marks, skipped chunks, errors, a restart, retrievals at any moment | 10.3 M | `IngestReplacesSource`, `IndexFollowsStore` hold |
| `Memory` | two chats and a decision on either kind of store, three facts, calls that fail, a lookup at its limit, clears, ageing, restarts | 0.42 M | `FactsAgree`, `LatestIsKnown`, `PoolHasSchema`, `RequestsEnd` hold |
| `Corpus` | a job, two uploads, two deleting or deciding requests, one fault | | `DocumentsWhole`, `ExecutedIsResolved`, `ApprovedLeavesNone`, `AuditAgrees`, `JobsEnd` hold |
| `CorpusDelete` | is a document gone when its delete was answered? | | violated for a document made by a completed job |
| `Avatar` | two calls of start() over two scenes, three keys, words, failures or lost sessions at any moment | 2.6 M | `NothingLeftBehind`, `ScriptInOrder` hold |

**Disagreements with the documentation, each with a run.**
(1) `HITLRejectPr`: `B/api/routes/hitl.py:144` rebinds the request `body` to a
string, so `resolve(body.hitl_id)` at :244 raises after GitHub was called: the
action stays pending and can be executed again. (2) `CorpusDelete`:
`delete_document` sends its DELETE in the teardown of the session;
`ingestion_jobs.document_id` refers to the document without ON DELETE, so the
delete of a document that came from a job fails after the client was told it
succeeded. For the same reason an approved `delete_all_documents` fails, and
stays pending, as long as one completed job refers to a document.

**Met while modelling, without a run of their own.** The models contain all of
these behaviours; the properties are stated so that they hold with them.

* *Approvals.* An approval removes the action only after its write, so a reject
  in between answers "No ticket was created". `_update_last_hitl`
  (`session_store.py:151`) picks the newest placeholder of the session; the
  Angular page prevents two pending proposals, other clients do not. The
  lifecycle in `B/orchestrator/hitl.py:38-39` resolves before it executes, the
  routes do it the other way round. A Slack approval always creates a ticket
  (`webhooks.py:376`), whatever was proposed. `POST /admin/clear-all` flushes all
  of Redis, the pending approvals of every project included
  (`B/api/routes/admin/router.py:440-448`): a click then answers "not found".
  On PostgreSQL two outcomes recorded at once may choose the same turn
  (`session_store.py:266-277`); the other one says "pending approval" for ever.
* *Streaming.* The answer of the POST does not close the EventSource, so a late
  token is appended to the final answer (`chat.ts:120-124`). `_clear_stream`
  removes only what was not polled yet, so the tokens of two attempts show up
  until the answer replaces them (`groq_provider.py:78-83, 227`); the Gemini
  provider does not wipe at all. `stream.py:31-32` promises the full answer in
  the fallback's done frame, which is empty.
* *Tools.* Two concurrent exchanges of one code both issue tokens
  (`provider.py:80-110`); `pop_pending_auth` is atomic only where GETDEL exists
  (`store.py:108-114`). A list fetched across a reload is written back stale
  (`client.py:250-251`), which `ListFollowsConfig` exempts by `fresh`. A 401 of
  `tools/list` is not healed, though the docstring at `client.py:341-343` says
  so: `HealsWhenListed` is about calls that began with a cached list.
  `call_mcp_tool` does not look at the disabled tools.
* *Agents.* "Silently reviewing a DIFFERENT PR than the one the user named is the
  worst outcome" (`pr_review_agent.py:422-424`), but the number in the card is
  the one in the LLM's JSON (494-535), which is not compared with the request.
  "Reflection must skip" live data (`evaluation.py:26-30`), which it tells by the
  prefix "mcp:" that only the generalist gives its sources: a revision may lose
  what the release agent or a ticket's status brought. `retrieve_memory` compares
  with the recent window, not with the summary threshold (`nodes.py:238`). It
  keeps 300 characters of a reply (240, 250), so that "it" may mean an older
  ticket than the one the reply named last. A tool result `{"error": ...}` counts
  as live data everywhere but in the notify agent (`tool_use.py:179-182`,
  `notify_agent.py:176-190`), and a sprint board that cannot be read comes back
  empty: an answer may rest on no fact at all. The outage message of the
  generalist "must reach the user verbatim" (`base_agent.py:81-83`,
  `mcp_agent.py:513-514`), but over chunks it is judged like an answer, gets the
  prefix "Based on limited context", loses `skip_persona` and may be revised
  (454-484).
* *Knowledge base.* "The last 20% of the window" (`chunker.py:189-199`) is a
  share of the absolute position, so later windows look back over all of their
  text. Dropping the keyword index "must run after EVERY ingest path"
  (`ingestion_service.py:49-54`), but a failed ingest does not, nor do
  `scripts/ingest.py:72-84` and `scripts/ingest_confluence.py:78-94`, which mark
  and upsert in the same Qdrant from a process of their own. A heading without prose under it is dropped
  (`chunker.py:476`). Page number and element type of a PDF's tables are
  overwritten (`chunker.py:361-372`), and its tables restart the chunk index, so
  a recall mixes them with the prose (`pipeline.py:410-420`), though it is sorted
  "so the section reads top-to-bottom as authored" (`vector_store.py:209`); a
  chunk whose text another document has as well is recalled for one of them only.
  `related_chunk_ids` is read by nobody.
* *Memory.* A fact older than 30 days blocks its own re-learning as a duplicate
  and is filtered from retrieval; the cut to the best matches comes before the
  age filter; a superseded fact is deleted before the upsert of the new one,
  which may fail. The lookup for contradictions sees ten facts
  (`semantic_memory.py:112`), so the store need not "converge to the latest truth"
  (:101). The pool is "created once at startup" (`session_store.py:174`)
  but at the first call, and twice if two race; if the creation of the table
  fails, the pool lacks it until a restart. `admin_clear_all` leaves the turns in
  Postgres, the events and the keyword index (`router.py:393-465`). Its parts are
  steps of the modules whose state they change: `RagIndex!ClearChunks`,
  `SemanticMemory!ClearFacts` with the turns in `ProjectMemory!AdminClearAll`,
  `HITLManager!FlushAll`, and `HITLDecision!ClearTurns` for the proposals' turns.
* *Tenants.* `_get_pending_approval` (`tool_approval_routes.py:47`) reads the
  status without a lock and nothing checks it again, so the later of two
  decisions overwrites the earlier.
* *Avatar.* "The conversation never begins against a black/loading pane"
  (`AnamProvider.ts:46-47`), but keys work from the moment the engine is built.
  "The script runs itself" (`SceneEngine.ts:98`), but a key in the beat makes
  `playScene` refuse the script's own question, and a talk() that raises ends
  the script. Reconnect leaves the old engine, its script, callbacks and client
  running. The end of the session after the closing screen offers Reconnect.

**Limits of the positive results.** `SettledNeverFound`,
`NotFoundMeansSettled` and `SlackOutcomePosted` are stated for executions in
which Redis has never been away: with an outage the code keeps copies in two
places and the statements are false by design. `PendingUntilSettled` and
`WriteIsAuthorised` hold with outages. Where a key of Redis is dropped (TTL,
eviction, flush, restart) the action is lost, which these properties name and
do not deny. `PlaceholdersCleared` exempts sessions in which two outcomes were
recorded at once on PostgreSQL. `WriteIsAuthorised` exempts Slack
decisions from the role matrix, because that path has no check.
`TokensAreConsented` speaks of the tokens of hosts; the assistant's own service
tokens need no consent. `HealsWhenListed` is about calls during which servers
and configuration are steady. `AnswersAreGrounded` promises no more than the
code does: where a tool came back with an error text, or a board that cannot be
read came back empty, the answer has no fact to rest on (`told` without `live`).
`RefusalsStand` says of the generalist's outage message behind a prefix only
that no persona rewrites it and that what replaces it was judged better.
`CardsNameTheirTicket` is about the ids in the messages and in the first 300
characters of the replies. `RevisedOnlyToImprove` protects the data of the
gather loop only. `FactsAgree` exempts facts that were learnt while a lookup
failed or saw fewer contradictions than there were. `IndexFollowsStore` names
every way in which the keyword index may disagree with the store (a running or
failed ingest, one of another project that took over a text, a script, a clear)
and says that there is no other; `IngestReplacesSource` exempts sources whose
mark failed or that had two ingests at once. `RecallKeepsSequence` compares the
order within the prose, within each table and among the images of a PDF, because
between them the code does not keep it, and exempts chunks another document has
taken over. `ApprovedLeavesNone`
says nothing of documents stored after the approval counted them. `AuditAgrees`
ties "completed" to the storing of the document and not to the stage of the job:
a job whose last transaction fails has both events, and its document exists. `JobsEnd` exempts lost tasks:
nothing resumes them after a restart. `ScriptInOrder` is about engines without
key presses.

**Bounds.** For one proposal, every hazard between clicks is one between two of
them (one that looked up early and one that settles), so two clicks and two
workers meet all pairs; the second outage or restart only repeats the first.
The placeholders need two turns and a click to spare, on each database, without
faults and on one worker: the constraint `Scenario` keeps the two cases apart. For the stream,
`MaxRetries = 2` gives a first attempt, a retry and the fallback; two tokens per
attempt distinguish order, loss and duplication; three polls let one poll hit
each phase of a retry, and the limit itself is reached. The page needs two
messages, because handlers of a third would meet only the second's. Consent and
code races are between two requests; five events (`MaxEvents`) are a consent, an
exchange and two calls with an admin change between them. The graph needs two
turns (`MaxTurns`) for what one leaves to the next, and `Window = 2` with three
earlier turns so that one falls out of it. For the chunker, parents of 9 and
windows of 3 with an overlap of 2 keep the order of the real sizes (parent >
child > overlap); texts of up to 7 characters meet every position of a
breakpoint in a window, and the longer ones of 40 let the absolute position
grow; four elements meet every pair of a heading, prose, a table and noise;
three chunks, two tables, two images and two pages order and repeat. RagIndex needs two runs,
three sources and two texts: an overlap of runs, of sources, and of projects;
one edit distinguishes old and new. Memory has three facts of which two are the
same and one of these contradicts the third, the smallest case in which
superseding and deduplication disagree; the limit of the lookup, ten in the code,
is one here, so that a near duplicate can use it up (`Limit` is a constant, and
the theorems are about every value of it). The corpus needs two requests, because
deletes meet in pairs through locks and a decision races one other; one job,
because jobs touch only their own document; one upload with chunks and one
without, because a document without chunks is the one that locks on chunks do
not protect; one fault, which hits every state. The avatar needs two starts (a
replaced engine and its successor, each with a fallback), two plays at a time
and two scenes, one searched for and one that closes. Ids, clicks, workers,
requests and plays are symmetric where a cfg says so (all safety). No deadlock
check: a conversation that has been answered, or whose clicks, messages or
events are used up, may stop.

**Fairness.** Approvals, tools, the graph, RagIndex and the avatar page have
none: their properties are safety. ChatStream assumes weak fairness of each
coroutine (`Request`, `Poll`) and of the page's event loop (`OnFrame` or
`OnReply`): asyncio and the browser schedule what is ready, sleeps end, and calls
to a model or to Redis return or raise (the clients have timeouts); and strong
fairness of `GraphEnds`, because the graph is acyclic: the request cannot go on
with hidden calls for ever. No fairness is assumed of the user, of retries
succeeding or of connections; `Break` and the failing alternatives have none.
DocumentIngest assumes weak fairness of `IngestFile`, the worker thread, which
nothing blocks. ProjectMemory assumes it of each caller that has begun: every
call of a store returns or raises. DocumentCorpus assumes it of each started
background task (`RunJob`) and request (`Serve`): the event loop schedules them,
calls to the database or to an embedding provider return or raise, and a
transaction that waits for a lock gets it when the holder ends. Neither errors
nor arrivals are fair.

## 4. What is proved

TLAPS proves the following for every value of the constants, from the `ASSUME`s
of the modules: bounds are naturals, special values are not among those they
mark the absence of, the configured actions, roles, providers and backends are
among those the code knows, `Same` and `Close` are symmetric, ids of messages
and elements of files come in sequences of the right records, and a text is a
function on 0 .. n-1. Every module with theorems proves initial states, one
lemma per action or group of actions, and combines them. Type invariants
(`TypeCorrect`) are proved and not listed in the runs, where they would cost a
run and say little.

* `HITLDecision_proofs`. `SettledIsGone` is not inductive: a fallback copy could
  be found. `StoreSafe` adds that with no outage so far every fallback is empty
  and the key of every settled action is absent. The interesting step is
  `SlackAmend`, which writes a key a second time: it is harmless because no
  click can have settled an action that is not "offered" yet (`ClickInv`).
  `PendingIsKept`: what a `Delete` or `Pop` removes has just been settled, or
  has a second copy, and what `Expire` or `FlushAll` removes is remembered as
  dropped. `NotFoundIsExact`: only `Lookup` answers "not found", and
  what justified it is history that never shrinks. `WritesAreAuthorised`: the
  refusal before `Execute`, and a click and a card never change once set.
  `SlackAlwaysAnswered`: with no outage so far, a click that has found a Slack
  proposal holds the amended copy (`SlackSafe`), because an offered Slack
  proposal is never stored without its thread, whatever a retry read before.
  `PlaceholdersAreCleared` is a counting argument (`TurnsCounted`): an outcome
  may replace the placeholder of another proposal, but a session never has more
  placeholders than turns without an outcome for their own proposal. On
  PostgreSQL a turn is chosen before it is written; `TurnsReserved` says that in
  a session without overlapping updates at most one click is in between, and that
  the count holds already for what it is about to leave.
* `ChatStream_proofs`. `AnswerKept`: nothing ties a handler to its bubble, so
  `PageInv` says that a message whose POST is outstanding owns the last bubble,
  `loading` is set and no card is open; hence at most one is outstanding. Late
  tokens only append, which keeps the head of a bubble. `TokensStayInOrder`
  compares the places a token passes through: bubble, wire, the batch read and
  not yet trimmed, the list, each in order and before the next (`OrderOf`). The
  list need not begin with the batch any more, since the request may wipe it in
  between; hence everything is also compared with what the request can have
  pushed so far (`AllInReach`). `PageKeepsPromise` is the refinement `Spec =>
  AnswersStand`: under `PageInv` each step of the page is a step of ChatPromise
  or leaves `Shown` alone.
* `ToolAccess_proofs`. `ConsentsGiveOneCode`, `IndexStaysOpen` and
  `TokensNeedConsent` follow from `ServerInv`: a form that took a consent is the
  only one that did (`ConsentInv`), the index names an open consent or one in a
  form's hands (`IndexInv`), and a code or token names a host that was granted
  one (`GrantInv`). `ListsFollow` and `CallsHeal` follow from `ClientInv`: the
  clients, the list and every call in flight, each against the configuration
  that was current when it was last written. Steps of hosts leave the client's
  facts alone and vice versa.
* `ChatGraph_proofs`. One lemma per agent shows its replies in good order
  (`PayloadOK`, `Grounded`) whatever its tools and the LLM answer; the invariant
  then carries that through the nodes: `RanInv`, `ReplyInv`, `CardInv` and
  `TextInv`. Theorems `AlwaysGrounded`, `RefusalsAlwaysStand`,
  `RevisionsImprove`, `CardsAlwaysReach`, `OnlyReadsEverRun`, and
  `CardsAlwaysNameTheirTicket`: the cut of a reply leaves one id at most of one
  (`StartsOne`), the reversed scan of the window returns the last
  mention in it, and `NameInv` ties the window a card was made with to the
  history that is still there when the card is shown.
* `Rag_proofs`, on RagIndex. `IngestsReplace`: a run that is alone on its source
  has at every point stored what it read so far and has left nothing older live
  (`ReplaceInv`, on `RunInv` and `AloneInv`). `IndexFollows`: an index that
  nobody has changed anything under since it was built holds the live texts, and
  no run that did has ended well, because the last step of a run of the server
  drops it; a run that takes over a text of another project is noted there as
  well (`FollowInv`).
* `Rag_proofs`, on DocumentIngest: the four safety properties of the `Chunker`
  run, for documents, texts and sizes without bound. `GroupingLosesNothing`: the
  loop of `group_by_sections` keeps the open section titled by the last heading
  read and every closed one filled, and each element that counts is in exactly
  one (`GroupInv`). `PackingLosesNothing`: pieces packed so far are what of the
  document lies before the current paragraph and sentence, and the next piece
  follows them all (`PackInv`). `CuttingLosesNothing`: each window starts at
  most an overlap before the end of the last one, and what is left out between
  two is blank (`CutInv`). `RecallInSequence`: two chunks of the prose, of one
  table or of images on different pages get indexes in their order however many
  calls number them (`ChunksInv`), and a chunk that was stored is recalled unless
  another document has taken its point, under its own index unless a later chunk
  of the same text or image has stored it again (`RecallInv`). Images of one page
  have no order.
* `ProjectMemory_proofs`. `FactsAlwaysAgree`, `LatestStaysKnown`,
  `PoolGetsSchema`, over `FactInv`, `TurnInv` and `FlowInv`. The loop that
  stores the facts of a turn is shown to keep them in any order of deletes,
  upserts and failures (`StoreKeeps`).
* `DocumentCorpus_proofs`. `AlwaysWhole`, `AlwaysResolved`, `AlwaysLeavesNone`,
  `AlwaysAudited` follow from one inductive invariant. `DocumentsWhole` speaks
  of committed rows only, and a commit keeps it because of what its transaction
  has locked, so `LocksHeld` says that what a transaction holds is still there,
  linked to by no job and held by nobody else, and `Progress` says that an
  executed approval holds exactly what it will remove of what it counted.
* `AvatarPage_proofs`. `NothingIsLeftBehind` and `ScriptStaysInOrder`. `PlayOK`
  says that an engine has exactly one play while it is busy and none otherwise,
  so that the promise of its provider is never replaced while it is waited for;
  `ScriptOK` that the script waits for the play it began and that nothing but it
  can make an engine without keys busy; `StartOK` that the engines of a start()
  that has not come that far are untouched. `LocalStep` reduces every step of a
  play to its engine, `QuietStep` every other one.

**Only model-checked.** Liveness: `StreamsEnd`, `JobsEnd`, `RequestsEnd`,
`IngestEnds`, and the fairness part of `PromiseKept` (its safety part is
`PageKeepsPromise`); fairness rests on ENABLED, which the provers cannot treat.
Every other property of a passing run has a theorem. No proof needs induction
over data: loops of the code are steps of the machines, and greatest and least
elements of sets exist because the naturals are well-founded (`LeastNatural`).
What the model says and the proofs take as given are its abstractions: the
alternatives of an LLM, a tool or a network call are those the actions list.

## 5. What is not modelled

* *Approvals.* A Redis call whose effect is unknown to the caller; a deadlock or
  a serialization error of PostgreSQL beyond a statement that fails; what results
  and notifications say; direct API clients that click on a Slack proposal or on
  one of another session; repeated Slack deliveries; the GitHub webhook.
* *Streaming.* TTLs of the stream keys (300 s, longer than any stream), the
  Chainlit page, several tabs of the same user.
* *Tools.* Revocation (the server never enables the endpoint), the metadata
  endpoints, the wording of results, the rate limiter.
* *Agents.* Prompts, formatting, metrics and the regular expressions themselves;
  `cross_source_agent.py`, which is imported and never run.
* *Knowledge base.* An error of `mark_stale` in a script, which ends it before
  anything of that source has changed. Embeddings and scores: which live chunks
  a search prefers. Parent points in the concurrent view. Confluence attachments
  are read later than its pages, here with them. In `pipeline.py`, the branches
  for PDFs of `_ingest_with_unstructured` are dead, and the prefixes written
  before a text have no control effect. A table that is a child in one document
  and a split parent in another shares an id.
* *Memory.* `redis_cache.py`, unused, and the synchronous aliases of the store
  (`session_store.py:368-402`). One process serves the assistant (its Dockerfile
  starts one uvicorn worker), except where several workers are modelled.
* *Tenants.* A victim chosen among deadlocked transactions beyond the one whose
  foreign key refuses (the other is covered by a fault); a COMMIT whose outcome
  the client does not learn; other tenants, which row level security separates;
  tools other than `delete_all_documents`, which run inline in the chat turn.
* *Avatar.* The mute buttons, the `?auto=N` hook, cards and drawing. `talk()` is
  assumed to return or raise: if it did neither, the safety timer would resolve a
  promise that is not waited for yet.
* The components marked `not_modelled` in `PROJECT.json`, each with its reason:
  the scheduler (each job is one agent run whose errors are swallowed), the
  configuration loader, the connectors, single-statement handlers of
  `ai-platform`, the avatar's backend, documents.

## 6. Plan

*Done*: approval of actions; streaming of answers; tools and authorization; the
chat graph and its agents; the knowledge base as a pipeline and as an index;
memory; documents, ingestion jobs and tool approvals of ai-platform; the avatar
page.

Next, in this order:

1. An abstract specification of the approval (a proposal is open, then decided
   once, or lost) implemented by HITLDecision, and one of the store of a tenant's
   documents implemented by DocumentCorpus.
2. The configuration loader: its watchdog writes the cached YAML without the
   lock the readers hold. Worth a model together with the MCP client's reloads.
3. The store of pending approvals of `ai-platform` under a restart of its
   process, with the tools that run inline.
4. The avatar's mute buttons and the `?auto=N` hook.

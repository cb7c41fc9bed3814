------------------------------ MODULE TurnStore ------------------------------
(***************************************************************************)
(* The database of backend/memory/session_store.py under its concurrent    *)
(* callers.  The PostgreSQL backend creates its connection pool and the    *)
(* table on first use: _get_pool assigns the pool after one await and      *)
(* creates the schema after another, without a lock.  SQLite creates the   *)
(* table when the module is imported.  What the rows of one session mean   *)
(* is SessionStore's; here a row is the caller that wrote it.              *)
(***************************************************************************)
CONSTANTS Callers, Backends  \* those a deployment may have, "sqlite" or "postgres"

ASSUME BackendAssumption == Backends \subseteq {"sqlite", "postgres"}

VARIABLES backend,   \* the one DATABASE_URL selects, for the life of the process
          pool,      \* self._pool is set
          schema,    \* the table exists
          botched,   \* an _init_schema of this process failed
          call,      \* how far each caller's operation is
          rows       \* conversation_turns

turnVars == <<backend, pool, schema, botched, call, rows>>

TurnTypeOK ==
    /\ backend \in Backends
    /\ pool \in BOOLEAN /\ schema \in BOOLEAN /\ botched \in BOOLEAN
    /\ call \in [Callers -> {"none", "connecting", "migrating", "querying"}]
    /\ rows \subseteq Callers

\* SessionStore(): setup() creates the SQLite table; a PostgreSQL database may
\* have the table from an earlier run.
TurnInit ==
    /\ backend \in Backends
    /\ pool = FALSE /\ botched = FALSE
    /\ schema \in (IF backend = "sqlite" THEN {TRUE} ELSE BOOLEAN)
    /\ call = [c \in Callers |-> "none"]
    /\ rows = {}

Step(c, to) == call' = [call EXCEPT ![c] = to]

\* asave, aload, aload_project, aupdate_last_hitl: the pool first.
FirstAwait == IF backend = "postgres" /\ ~pool THEN "connecting" ELSE "querying"

Submit(c) ==
    /\ call[c] = "none"
    /\ Step(c, FirstAwait)
    /\ UNCHANGED <<backend, pool, schema, botched, rows>>

\* create_pool returns: a second first caller replaces the pool of the first.
PoolCreated(c) ==
    /\ call[c] = "connecting"
    /\ pool' = TRUE
    /\ Step(c, "migrating")
    /\ UNCHANGED <<backend, schema, botched, rows>>

\* Wrong on purpose: the pool is handed out, the schema left to others.
SchemaSkipped(c) ==
    /\ call[c] = "migrating"
    /\ Step(c, "querying")
    /\ UNCHANGED <<backend, pool, schema, botched, rows>>

\* _init_schema: CREATE TABLE IF NOT EXISTS and the migration.
SchemaReady(c) ==
    /\ call[c] = "migrating"
    /\ schema' = TRUE
    /\ Step(c, "querying")
    /\ UNCHANGED <<backend, pool, botched, rows>>

\* The statement runs.
Query(c, changed) ==
    /\ call[c] = "querying" /\ schema
    /\ rows' = changed
    /\ Step(c, "none")
    /\ UNCHANGED <<backend, pool, schema, botched>>

\* The database is away, or has no table yet: the facade logs and goes on.  A
\* pool whose schema could not be created stays in self._pool.
QueryFails(c) ==
    /\ call[c] # "none"
    /\ botched' = (botched \/ call[c] = "migrating")
    /\ Step(c, "none")
    /\ UNCHANGED <<backend, pool, schema, rows>>

\* The process starts anew; the table stays.
TurnRestart ==
    /\ pool' = FALSE /\ botched' = FALSE
    /\ call' = [c \in Callers |-> "none"]
    /\ UNCHANGED <<backend, schema, rows>>

\* admin_clear_all deletes from the SQLite file only.
ClearTurns == rows' \in (IF backend = "sqlite" THEN {{}, rows} ELSE {rows})
=============================================================================

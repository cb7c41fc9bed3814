----------------------- MODULE DocumentCorpus_proofs -----------------------
(***************************************************************************)
(* The safety properties of DocumentCorpus, for any jobs, uploads, blank   *)
(* documents, requests, calls and faults.                                  *)
(*                                                                         *)
(* A delete is correct because of what its transaction holds between its   *)
(* statements, so the inductive invariant speaks of `dropped`, `removed`   *)
(* and `counted`, of which DocumentsWhole and ApprovedLeavesNone speak     *)
(* only after the commit.                                                  *)
(***************************************************************************)
EXTENDS DocumentCorpus, TLAPS

\* The rows agree with one another, and an id is used once.
RowsAgree ==
    /\ chunks = documents \ Blank
    /\ linked \subseteq documents
    /\ documents \subseteq stored

\* A transaction holds what is still there, is linked to by no job, and is
\* held by no other transaction.
LocksHeld ==
    \A r \in Requests :
        /\ dropped[r] \subseteq chunks
        /\ removed[r] \subseteq documents \ linked
        /\ \A o \in Requests \ {r} :
              dropped[r] \cap dropped[o] = {} /\ removed[r] \cap removed[o] = {}

\* A request that is under way asks for something.
Asking == \A r \in Requests : pc[r] # "idle" => request[r] \in Asked

\* What the transaction of a request has done before it commits, and what an
\* approval has left when it has.
Progress(r) ==
    /\ counted[r] \subseteq stored
    /\ pc[r] \in {"idle", "loaded", "counted", "dropped"} => removed[r] = {}
    /\ pc[r] \in {"counted", "dropped"} => Kind(r) = "approve"
    /\ pc[r] \in {"executed", "answered"} /\ Kind(r) = "approve" =>
          removed[r] \ Blank = dropped[r] /\ counted[r] \cap documents \subseteq removed[r]
    /\ pc[r] \in {"executed", "answered"} /\ Kind(r) = "delete" =>
          dropped[r] \subseteq {request[r].doc} /\ removed[r] = {}
    /\ pc[r] = "committed" /\ Kind(r) = "approve" => counted[r] \cap documents = {}

\* A call with an approval that took effect is decided for good.
Resolved == \A c \in Calls : executed[c] # {} => status[c] \in {"approved", "rejected"}

\* How far the task is says what the audit log holds.
TaskAudited ==
    \A j \in Jobs :
        /\ task[j] \in {"none", "running"} => audit[j] = {}
        /\ task[j] = "stored" => audit[j] = {"completed"}
        /\ task[j] = "noted" => "failed" \in audit[j]
        /\ stage[j] \in {"complete", "failed"} => task[j] = "over"
        /\ stage[j] = "complete" => j \in linked

StoreInv == RowsAgree /\ LocksHeld /\ Asking /\ \A r \in Requests : Progress(r)

IInv == TypeOK /\ StoreInv /\ Resolved /\ TaskAudited /\ AuditAgrees

-----------------------------------------------------------------------------
(* Types.                                                                  *)

\* What is asked for has the fields of its kind.
LEMMA AskedFields ==
    ASSUME NEW q \in Asked
    PROVE  /\ q.kind \in {"approve", "reject", "delete"}
           /\ q.kind = "delete" => q.doc \in Docs
           /\ q.kind # "delete" => q.call \in Calls
BY DEF Asked

\* The steps of a job, and its creation, keep the variables well typed.
LEMMA JobTypes ==
    ASSUME TypeOK, NEW j \in Jobs, Job(j)
    PROVE  TypeOK'
<1> USE DEF TypeOK, StoreTypeOK, JobTypeOK, storeVars, rowVars, requestVars, RequestTypeOK
<1>1. CASE CreateJob(j)
    BY <1>1 DEF Job, CreateJob, Task, Stages
<1>2. CASE Advance(j)
    <2>1. Following[stage[j]] \in Stages
        BY <1>2 DEF Advance, Following, Stages
    <2> QED
        BY <1>2, <2>1 DEF Job, Advance
<1>3. CASE Store(j)
    BY <1>3 DEF Job, Store, Task, InsertDocument, Docs
<1>4. CASE Complete(j)
    BY <1>4 DEF Job, Complete, Task, Stages
<1>5. CASE CompleteFails(j)
    BY <1>5 DEF Job, CompleteFails, Task
<1>6. CASE NoteFailure(j)
    BY <1>6 DEF Job, NoteFailure, Task
<1>7. CASE MarkFailed(j)
    BY <1>7 DEF Job, MarkFailed, Task, Stages
<1>8. CASE Raise(j)
    BY <1>8 DEF Job, Raise
<1> QED
    BY <1>1, <1>2, <1>3, <1>4, <1>5, <1>6, <1>7, <1>8 DEF Job, RunJob

\* A decision names one of the calls.
LEMMA DecideType ==
    ASSUME TypeOK, Asking, NEW r \in Requests, pc[r] # "idle", Kind(r) # "delete",
           NEW outcome \in {"approved", "rejected"}, Decide(r, outcome)
    PROVE  /\ request[r].call \in Calls
           /\ status' \in [Calls -> {"none", "pending", "approved", "rejected"}]
<1>1. request[r].call \in Calls
    BY AskedFields DEF Asking, Kind
<1> QED
    BY <1>1 DEF TypeOK, RequestTypeOK, Decide

\* The steps of a request keep the variables well typed.
LEMMA RequestTypes ==
    ASSUME TypeOK, Asking, NEW r \in Requests, Request(r)
    PROVE  TypeOK'
<1>a. UNCHANGED <<jobVars, faults>>
    BY DEF Request
<1>b. UNCHANGED jobVars => JobTypeOK'
    BY DEF TypeOK, JobTypeOK, jobVars
<1>c. faults' \in 0..MaxFaults
    BY <1>a DEF TypeOK
<1> USE <1>a, <1>b, <1>c DEF Active, Goto
<1>1. CASE Load(r)
    <2>1. StoreTypeOK'
        BY <1>1 DEF TypeOK, StoreTypeOK, Load, storeVars, rowVars
    <2>2. RequestTypeOK'
        BY <1>1 DEF TypeOK, RequestTypeOK, Load
    <2> QED
        BY <2>1, <2>2 DEF TypeOK
<1>2. CASE CountAll(r)
    BY <1>2 DEF TypeOK, StoreTypeOK, RequestTypeOK, CountAll, storeVars, rowVars
<1>3. CASE DropAll(r)
    BY <1>3 DEF TypeOK, StoreTypeOK, RequestTypeOK, DropAll, DropChunks, rowVars
<1>4. CASE RemoveAll(r)
    BY <1>4 DEF TypeOK, StoreTypeOK, RequestTypeOK, RemoveAll, RemoveDocuments, rowVars
<1>5. CASE RemoveFails(r)
    BY <1>5 DEF TypeOK, StoreTypeOK, RequestTypeOK, RemoveFails, Rollback, rowVars
<1>6. CASE DropOne(r)
    BY <1>6 DEF TypeOK, StoreTypeOK, RequestTypeOK, DropOne, DropChunks, rowVars
<1>7. CASE Answer(r)
    BY <1>7 DEF TypeOK, StoreTypeOK, RequestTypeOK, Answer, storeVars, rowVars
<1>8. CASE CommitApprove(r)
    <2>1. StoreTypeOK'
        BY <1>8 DEF TypeOK, StoreTypeOK, CommitApprove, CommitDeletes
    <2>2. /\ request[r].call \in Calls
          /\ status' \in [Calls -> {"none", "pending", "approved", "rejected"}]
        BY <1>8, DecideType DEF CommitApprove
    <2>3. RequestTypeOK'
        BY <1>8, <2>2 DEF TypeOK, RequestTypeOK, CommitApprove
    <2> QED
        BY <2>1, <2>3 DEF TypeOK
<1>9. CASE CommitReject(r)
    <2>1. StoreTypeOK'
        BY <1>9 DEF TypeOK, StoreTypeOK, CommitReject, storeVars, rowVars
    <2>2. status' \in [Calls -> {"none", "pending", "approved", "rejected"}]
        BY <1>9, DecideType DEF CommitReject
    <2>3. RequestTypeOK'
        BY <1>9, <2>2 DEF TypeOK, RequestTypeOK, CommitReject
    <2> QED
        BY <2>1, <2>3 DEF TypeOK
<1>10. CASE CommitDelete(r)
    BY <1>10 DEF TypeOK, StoreTypeOK, RequestTypeOK, CommitDelete, CommitDeletes
<1>11. CASE CommitDeleteFails(r)
    BY <1>11 DEF TypeOK, StoreTypeOK, RequestTypeOK, CommitDeleteFails, Rollback, rowVars
<1> QED
    BY <1>1, <1>2, <1>3, <1>4, <1>5, <1>6, <1>7, <1>8, <1>9, <1>10, <1>11 DEF Request, Serve

\* Aborted requests roll back.
LEMMA AbortTypes ==
    ASSUME TypeOK, NEW rs \in SUBSET Requests, AbortAll(rs)
    PROVE  StoreTypeOK' /\ RequestTypeOK'
BY DEF TypeOK, StoreTypeOK, RequestTypeOK, AbortAll, Rollback, rowVars, Active

\* Every step keeps the variables well typed.
LEMMA NextTypes ==
    ASSUME TypeOK, Asking, [Next]_vars
    PROVE  TypeOK'
<1>1. ASSUME NEW u \in Uploads, Upload(u)
      PROVE  TypeOK'
    BY <1>1 DEF TypeOK, StoreTypeOK, JobTypeOK, RequestTypeOK, Upload, InsertDocument, Docs,
                jobVars, requestVars
<1>2. ASSUME NEW c \in Calls, Propose(c)
      PROVE  TypeOK'
    BY <1>2 DEF TypeOK, StoreTypeOK, JobTypeOK, RequestTypeOK, Propose, ProposeCall, jobVars,
                storeVars, rowVars
<1>3. CASE Fault
    <2>1. faults' \in 0..MaxFaults
        BY <1>3, CorpusAssumption DEF Fault, TypeOK
    <2>2. ASSUME NEW j \in Jobs, HandlerFails(j), UNCHANGED requestVars
          PROVE  StoreTypeOK' /\ JobTypeOK' /\ RequestTypeOK'
        BY <2>2 DEF TypeOK, StoreTypeOK, JobTypeOK, RequestTypeOK, HandlerFails, storeVars,
                    rowVars, requestVars
    <2>3. UNCHANGED jobVars => JobTypeOK'
        BY DEF TypeOK, JobTypeOK, jobVars
    <2>4. ASSUME NEW r \in Requests, AbortAll({r}), UNCHANGED jobVars
          PROVE  StoreTypeOK' /\ JobTypeOK' /\ RequestTypeOK'
        BY <2>3, <2>4, AbortTypes
    <2>5. LoseTasks => JobTypeOK'
        BY DEF TypeOK, JobTypeOK, LoseTasks
    <2>6. AbortAll(Requests) => StoreTypeOK' /\ RequestTypeOK'
        BY AbortTypes
    <2> QED
        BY <1>3, <2>1, <2>2, <2>4, <2>5, <2>6 DEF Fault, TypeOK
<1>4. CASE UNCHANGED vars
    BY <1>4 DEF TypeOK, StoreTypeOK, JobTypeOK, RequestTypeOK, vars, storeVars, rowVars, jobVars,
                requestVars
<1> QED
    BY <1>1, <1>2, <1>3, <1>4, JobTypes, RequestTypes DEF Next

-----------------------------------------------------------------------------
(* Transactions: what the steps of one do to the rows and to the others.   *)

\* A new document has all its chunks, and nobody holds it.
LEMMA InsertKeeps ==
    ASSUME RowsAgree, LocksHeld, NEW d \in Docs, InsertDocument(d)
    PROVE  RowsAgree' /\ LocksHeld'
BY DEF RowsAgree, LocksHeld, InsertDocument

\* A request that deletes chunks holds some that are there and free.
LEMMA DropKeeps ==
    ASSUME StoreTypeOK, RowsAgree, LocksHeld, NEW r \in Requests, NEW ds \in SUBSET Docs,
           DropChunks(r, ds)
    PROVE  RowsAgree' /\ LocksHeld'
<1>1. RowsAgree'
    BY DEF RowsAgree, DropChunks, rowVars
<1>2. \A o \in Requests \ {r} : ds \cap dropped[o] = {}
    BY DEF DropChunks, LockedByOthers
<1> QED
    BY <1>1, <1>2 DEF StoreTypeOK, LocksHeld, DropChunks, rowVars

\* A request that deletes documents holds some that are there, free, and
\* linked to by no job.
LEMMA RemoveKeeps ==
    ASSUME StoreTypeOK, RowsAgree, LocksHeld, NEW r \in Requests, NEW ds \in SUBSET Docs,
           RemoveDocuments(r, ds)
    PROVE  RowsAgree' /\ LocksHeld'
<1>1. RowsAgree'
    BY DEF RowsAgree, RemoveDocuments, rowVars
<1>2. \A o \in Requests \ {r} : ds \cap documents \cap removed[o] = {}
    BY DEF RemoveDocuments, LockedByOthers
<1>3. ds \cap documents \cap linked = {}
    BY DEF RemoveDocuments, Referenced
<1> QED
    BY <1>1, <1>2, <1>3 DEF StoreTypeOK, LocksHeld, RemoveDocuments, rowVars

\* A commit deletes the chunks of the documents it deletes and no other, so
\* the rows agree again and the others hold what they held.
LEMMA CommitKeeps ==
    ASSUME StoreTypeOK, RowsAgree, LocksHeld, NEW r \in Requests, NEW ds \in SUBSET Docs,
           (ds \cap documents) \ Blank = dropped[r],
           ds \cap linked = {},
           \A o \in Requests \ {r} : ds \cap removed[o] = {},
           CommitDeletes(r, ds)
    PROVE  RowsAgree' /\ LocksHeld'
<1>1. RowsAgree'
    BY DEF RowsAgree, CommitDeletes
<1>2. dropped' = [dropped EXCEPT ![r] = {}] /\ removed' = [removed EXCEPT ![r] = {}]
    BY DEF CommitDeletes
<1>3. dropped'[r] = {} /\ removed'[r] = {}
    BY <1>2 DEF StoreTypeOK
<1>4. ASSUME NEW o \in Requests \ {r}
      PROVE  /\ dropped'[o] = dropped[o] /\ removed'[o] = removed[o]
             /\ dropped[o] \subseteq chunks'
             /\ removed[o] \subseteq documents' \ linked'
    BY <1>2 DEF StoreTypeOK, LocksHeld, CommitDeletes
<1> QED
    BY <1>1, <1>3, <1>4 DEF LocksHeld

\* A rollback gives up what was held.
LEMMA RollbackKeeps ==
    ASSUME StoreTypeOK, RowsAgree, LocksHeld, NEW rs \in SUBSET Requests, Rollback(rs)
    PROVE  RowsAgree' /\ LocksHeld'
BY DEF StoreTypeOK, RowsAgree, LocksHeld, Rollback, rowVars

\* A step of somebody else leaves the progress of a request as it was: it may
\* insert new documents, under new ids, and delete old ones.
LEMMA ProgressKept ==
    ASSUME NEW r \in Requests, Progress(r),
           pc'[r] = pc[r], request'[r] = request[r], counted'[r] = counted[r],
           dropped'[r] = dropped[r], removed'[r] = removed[r],
           stored \subseteq stored', documents' \cap stored \subseteq documents
    PROVE  Progress(r)'
BY DEF Progress, Kind

-----------------------------------------------------------------------------
(* The invariant of the store.                                             *)

\* A job inserts and links under the rules of the store.
LEMMA JobStore ==
    ASSUME TypeOK, StoreInv, NEW j \in Jobs, Job(j)
    PROVE  StoreInv'
<1>a. UNCHANGED requestVars
    BY DEF Job
<1>b. Asking'
    BY <1>a DEF StoreInv, Asking, requestVars
<1>c. ASSUME dropped' = dropped, removed' = removed, stored \subseteq stored',
             documents' \cap stored \subseteq documents
      PROVE  \A r \in Requests : Progress(r)'
    BY <1>a, <1>c, ProgressKept DEF StoreInv, requestVars
<1>1. CASE UNCHANGED storeVars
    BY <1>1, <1>a, <1>b, <1>c DEF StoreInv, RowsAgree, LocksHeld, storeVars, rowVars
<1>2. CASE Store(j)
    <2>1. InsertDocument(j) /\ j \in Docs
        BY <1>2 DEF Store, Docs
    <2>2. RowsAgree' /\ LocksHeld'
        BY <2>1, InsertKeeps DEF StoreInv
    <2>3. \A r \in Requests : Progress(r)'
        BY <2>1, <1>c DEF InsertDocument
    <2> QED
        BY <2>2, <2>3, <1>b DEF StoreInv
<1>3. CASE Complete(j)
    <2>1. /\ j \in documents
          /\ \A r \in Requests : j \notin removed[r]
          /\ linked' = linked \cup {j}
          /\ UNCHANGED <<stored, documents, chunks, dropped, removed>>
        BY <1>3 DEF Complete
    <2>2. RowsAgree' /\ LocksHeld'
        BY <2>1 DEF StoreInv, RowsAgree, LocksHeld
    <2>3. \A r \in Requests : Progress(r)'
        BY <2>1, <1>c
    <2> QED
        BY <2>2, <2>3, <1>b DEF StoreInv
<1> QED
    BY <1>1, <1>2, <1>3 DEF Job, RunJob, CreateJob, Advance, CompleteFails, NoteFailure, MarkFailed,
                            Raise

\* A request that is aborted forgets what it held, the others nothing.
LEMMA AbortStore ==
    ASSUME TypeOK, StoreInv, NEW rs \in SUBSET Requests, AbortAll(rs)
    PROVE  StoreInv'
<1>1. StoreTypeOK /\ Rollback(rs)
    BY DEF TypeOK, AbortAll
<1>2. RowsAgree' /\ LocksHeld'
    BY <1>1, RollbackKeeps DEF StoreInv
<1>3. UNCHANGED <<request, counted, stored, documents>>
    BY <1>1 DEF AbortAll, Rollback, rowVars
<1>4. ASSUME NEW r \in Requests
      PROVE  Progress(r)' /\ (pc'[r] # "idle" => request'[r] \in Asked)
    <2>1. pc[r] # "idle" => request[r] \in Asked
        BY DEF StoreInv, Asking
    <2>2. CASE r \notin rs
        <3>1. pc'[r] = pc[r] /\ dropped'[r] = dropped[r] /\ removed'[r] = removed[r]
            BY <2>2, <1>1 DEF AbortAll, Rollback
        <3> QED
            BY <3>1, <1>3, <2>1, ProgressKept DEF StoreInv
    <2>3. CASE r \in rs
        <3>1. dropped'[r] = {} /\ removed'[r] = {}
            BY <2>3, <1>1 DEF Rollback
        <3>2. \/ pc'[r] = pc[r] /\ pc[r] \notin Active
              \/ pc'[r] \in {"lost", "failed"} /\ pc[r] # "idle"
            BY <2>3 DEF AbortAll, Active
        <3> QED
            BY <3>1, <3>2, <1>3, <2>1 DEF StoreInv, Progress, Active, Kind
    <2> QED
        BY <2>2, <2>3
<1> QED
    BY <1>2, <1>4 DEF StoreInv, Asking

\* A request writes its own entries only; of the rows it inserts none.
LEMMA OthersUntouched ==
    ASSUME TypeOK, NEW r \in Requests, Request(r)
    PROVE  /\ \A o \in Requests \ {r} :
                 /\ pc'[o] = pc[o] /\ request'[o] = request[o] /\ counted'[o] = counted[o]
                 /\ dropped'[o] = dropped[o] /\ removed'[o] = removed[o]
           /\ stored' = stored
           /\ documents' \subseteq documents
<1> USE DEF TypeOK, StoreTypeOK, RequestTypeOK, Goto, storeVars, rowVars
<1>1. CASE Load(r)
    BY <1>1 DEF Load
<1>2. CASE CountAll(r) \/ Answer(r) \/ CommitReject(r)
    BY <1>2 DEF CountAll, Answer, CommitReject
<1>3. CASE DropAll(r) \/ DropOne(r)
    BY <1>3 DEF DropAll, DropOne, DropChunks
<1>4. CASE RemoveAll(r)
    BY <1>4 DEF RemoveAll, RemoveDocuments
<1>5. CASE RemoveFails(r) \/ CommitDeleteFails(r)
    BY <1>5 DEF RemoveFails, CommitDeleteFails, Rollback
<1>6. CASE CommitApprove(r) \/ CommitDelete(r)
    BY <1>6 DEF CommitApprove, CommitDelete, CommitDeletes
<1> QED
    BY <1>1, <1>2, <1>3, <1>4, <1>5, <1>6 DEF Request, Serve

\* What a request does to its own progress, to the rows and to its locks.
LEMMA RequestStore ==
    ASSUME TypeOK, StoreInv, NEW r \in Requests, Request(r)
    PROVE  StoreInv'
<1>a. StoreTypeOK /\ RowsAgree /\ LocksHeld /\ Progress(r)
    BY DEF TypeOK, StoreInv
<1>b. \A o \in Requests \ {r} : Progress(o)'
    BY OthersUntouched, ProgressKept DEF StoreInv
<1>c. pc[r] # "idle" => request[r] \in Asked
    BY DEF StoreInv, Asking
<1>d. SUFFICES RowsAgree' /\ LocksHeld' /\ Progress(r)' /\ request'[r] \in Asked
    BY <1>b, OthersUntouched DEF StoreInv, Asking
<1>e. UNCHANGED storeVars => RowsAgree' /\ LocksHeld'
    BY <1>a DEF RowsAgree, LocksHeld, storeVars, rowVars
<1>f. /\ pc \in [Requests -> {"idle", "refused", "failed", "lost", "committed"} \cup Active]
      /\ counted \in [Requests -> SUBSET Docs]
    BY DEF TypeOK, RequestTypeOK
<1>g. dropped \in [Requests -> SUBSET Docs] /\ removed \in [Requests -> SUBSET Docs]
    BY DEF TypeOK, StoreTypeOK
<1> USE <1>a, <1>c, <1>f, <1>g DEF Goto
<1>1. CASE Load(r)
    <2>1. pc[r] = "idle" /\ pc'[r] \in {"loaded", "refused"} /\ request'[r] \in Asked
        BY <1>1 DEF Load, TypeOK, RequestTypeOK
    <2>2. Progress(r)'
        BY <1>1, <2>1 DEF Load, Progress, storeVars, rowVars
    <2> QED
        BY <1>1, <1>e, <2>1, <2>2 DEF Load
<1>2. CASE CountAll(r)
    <2>1. Progress(r)'
        BY <1>2 DEF CountAll, Progress, Kind, RowsAgree, storeVars, rowVars
    <2> QED
        BY <1>2, <1>e, <2>1 DEF CountAll
<1>3. CASE DropAll(r)
    <2>1. RowsAgree' /\ LocksHeld'
        BY <1>3, DropKeeps DEF DropAll
    <2>2. Progress(r)'
        BY <1>3 DEF DropAll, DropChunks, Progress, Kind, rowVars
    <2> QED
        BY <1>3, <2>1, <2>2 DEF DropAll
<1>4. CASE RemoveAll(r)
    <2>1. RowsAgree' /\ LocksHeld'
        BY <1>4, RemoveKeeps DEF RemoveAll
    <2>2. documents \subseteq Docs /\ removed'[r] = documents /\ dropped' = dropped
        BY <1>4 DEF RemoveAll, RemoveDocuments, StoreTypeOK
    <2>3. chunks \subseteq dropped[r]
        BY <1>4, <2>2 DEF RemoveAll, RemoveDocuments, Referenced, RowsAgree
    <2>4. dropped[r] = documents \ Blank
        BY <2>3 DEF LocksHeld, RowsAgree
    <2>5. Kind(r) = "approve"
        BY <1>4 DEF RemoveAll, Progress
    <2>6. Progress(r)'
        BY <1>4, <2>2, <2>4, <2>5 DEF RemoveAll, RemoveDocuments, Progress, Kind, rowVars
    <2> QED
        BY <1>4, <2>1, <2>6 DEF RemoveAll
<1>5. CASE RemoveFails(r)
    <2>1. RowsAgree' /\ LocksHeld'
        BY <1>5, RollbackKeeps DEF RemoveFails
    <2>2. Progress(r)'
        BY <1>5 DEF RemoveFails, Rollback, Progress, Kind, rowVars
    <2> QED
        BY <1>5, <2>1, <2>2 DEF RemoveFails
<1>6. CASE DropOne(r)
    <2>1. request[r].doc \in Docs
        BY <1>6, AskedFields DEF DropOne, Kind
    <2>2. RowsAgree' /\ LocksHeld'
        BY <1>6, <2>1, DropKeeps DEF DropOne
    <2>3. Progress(r)'
        BY <1>6 DEF DropOne, DropChunks, Progress, Kind, rowVars
    <2> QED
        BY <1>6, <2>2, <2>3 DEF DropOne
<1>7. CASE Answer(r)
    <2>1. Progress(r)'
        BY <1>7 DEF Answer, Progress, Kind, storeVars, rowVars
    <2> QED
        BY <1>7, <1>e, <2>1 DEF Answer
<1>8. CASE CommitApprove(r)
    <2>1. removed[r] \ Blank = dropped[r] /\ counted[r] \cap documents \subseteq removed[r]
        BY <1>8 DEF CommitApprove, Progress
    <2>2. removed[r] \in SUBSET Docs /\ removed[r] \subseteq documents \ linked
        BY DEF LocksHeld
    <2>3. (removed[r] \cap documents) \ Blank = dropped[r] /\ removed[r] \cap linked = {}
        BY <2>1, <2>2
    <2>4. \A o \in Requests \ {r} : removed[r] \cap removed[o] = {}
        BY DEF LocksHeld
    <2>5. CommitDeletes(r, removed[r])
        BY <1>8 DEF CommitApprove
    <2>6. RowsAgree' /\ LocksHeld'
        BY <2>2, <2>3, <2>4, <2>5, CommitKeeps
    <2>7. Progress(r)'
        BY <1>8, <2>1, <2>5 DEF CommitApprove, CommitDeletes, Progress, Kind
    <2> QED
        BY <1>8, <2>6, <2>7 DEF CommitApprove
<1>9. CASE CommitReject(r)
    <2>1. Progress(r)'
        BY <1>9 DEF CommitReject, Progress, Kind, storeVars, rowVars
    <2> QED
        BY <1>9, <1>e, <2>1 DEF CommitReject
<1>10. CASE CommitDelete(r)
    <2> DEFINE doc == request[r].doc
    <2>1. doc \in Docs /\ CommitDeletes(r, {doc})
        BY <1>10, AskedFields DEF CommitDelete, Kind
    <2>2. dropped[r] \subseteq {doc} /\ dropped[r] \subseteq chunks
        BY <1>10 DEF CommitDelete, Progress, LocksHeld
    <2>3. {doc} \cap documents \cap ((chunks \ dropped[r]) \cup linked) = {}
        BY <1>10 DEF CommitDelete, Referenced
    <2>4. ({doc} \cap documents) \ Blank = dropped[r]
        BY <2>2, <2>3 DEF RowsAgree
    <2>5. {doc} \cap linked = {}
        BY <2>3 DEF RowsAgree
    <2>6. \A o \in Requests \ {r} : {doc} \cap removed[o] = {}
        BY <1>10 DEF CommitDelete, LockedByOthers
    <2>7. RowsAgree' /\ LocksHeld'
        <3> HIDE DEF doc
        <3> QED
            BY <2>1, <2>4, <2>5, <2>6, CommitKeeps
    <2>8. Progress(r)'
        BY <1>10 DEF CommitDelete, CommitDeletes, Progress, Kind
    <2> QED
        BY <1>10, <2>7, <2>8 DEF CommitDelete
<1>11. CASE CommitDeleteFails(r)
    <2>1. RowsAgree' /\ LocksHeld'
        BY <1>11, RollbackKeeps DEF CommitDeleteFails
    <2>2. Progress(r)'
        BY <1>11 DEF CommitDeleteFails, Rollback, Progress, Kind, rowVars
    <2> QED
        BY <1>11, <2>1, <2>2 DEF CommitDeleteFails
<1> QED
    BY <1>1, <1>2, <1>3, <1>4, <1>5, <1>6, <1>7, <1>8, <1>9, <1>10, <1>11 DEF Request, Serve

\* Every step keeps the invariant of the store.
LEMMA NextStore ==
    ASSUME TypeOK, StoreInv, [Next]_vars
    PROVE  StoreInv'
<1>a. UNCHANGED <<storeVars, pc, request, counted>> => StoreInv'
    BY DEF StoreInv, RowsAgree, LocksHeld, Asking, Progress, Kind, storeVars, rowVars
<1>1. ASSUME NEW u \in Uploads, Upload(u)
      PROVE  StoreInv'
    <2>1. InsertDocument(u) /\ u \in Docs /\ UNCHANGED requestVars
        BY <1>1 DEF Upload, Docs
    <2>2. RowsAgree' /\ LocksHeld'
        BY <2>1, InsertKeeps DEF StoreInv
    <2>3. \A r \in Requests : Progress(r)'
        BY <2>1, ProgressKept DEF StoreInv, InsertDocument, requestVars
    <2>4. Asking'
        BY <2>1 DEF StoreInv, Asking, requestVars
    <2> QED
        BY <2>2, <2>3, <2>4 DEF StoreInv
<1>2. ASSUME NEW c \in Calls, Propose(c)
      PROVE  StoreInv'
    BY <1>2, <1>a DEF Propose, ProposeCall
<1>3. CASE Fault
    <2>1. ASSUME NEW j \in Jobs, HandlerFails(j), UNCHANGED requestVars
          PROVE  StoreInv'
        BY <2>1, <1>a DEF HandlerFails, requestVars
    <2> QED
        BY <1>3, <2>1, AbortStore DEF Fault
<1>4. CASE UNCHANGED vars
    BY <1>4, <1>a DEF vars, requestVars
<1> QED
    BY <1>1, <1>2, <1>3, <1>4, JobStore, RequestStore DEF Next

-----------------------------------------------------------------------------
(* Decided calls and audited jobs.                                         *)

\* An approval commits what it deleted together with its outcome, and no
\* decision is taken back to "pending".
LEMMA NextResolved ==
    ASSUME TypeOK, Asking, Resolved, [Next]_vars
    PROVE  Resolved'
<1>a. UNCHANGED <<status, executed>> => Resolved'
    BY DEF Resolved
<1>1. ASSUME NEW c \in Calls, Propose(c)
      PROVE  Resolved'
    BY <1>1 DEF Propose, ProposeCall, Resolved, TypeOK, RequestTypeOK
<1>2. ASSUME NEW r \in Requests, Request(r)
      PROVE  Resolved'
    <2>1. CASE CommitApprove(r)
        <3>1. request[r].call \in Calls
            BY <2>1, DecideType DEF CommitApprove, Goto
        <3> QED
            BY <2>1, <3>1 DEF CommitApprove, Decide, Resolved, TypeOK, RequestTypeOK
    <2>2. CASE CommitReject(r)
        <3>1. request[r].call \in Calls
            BY <2>2, DecideType DEF CommitReject, Goto
        <3> QED
            BY <2>2, <3>1 DEF CommitReject, Decide, Resolved, TypeOK, RequestTypeOK
    <2> QED
        BY <1>2, <2>1, <2>2, <1>a
           DEF Request, Load, Serve, CountAll, DropAll, RemoveAll, RemoveFails, DropOne, Answer,
               CommitDelete, CommitDeleteFails
<1> QED
    BY <1>1, <1>2, <1>a DEF Next, Upload, Job, Fault, AbortAll, requestVars, vars

\* The event and the stage of a job are written in the order of its task.
LEMMA NextAudited ==
    ASSUME TypeOK, TaskAudited, AuditAgrees, [Next]_vars
    PROVE  TaskAudited' /\ AuditAgrees'
<1>a. UNCHANGED jobVars /\ linked \subseteq linked' /\ (\A j \in Jobs : j \in stored' <=> j \in stored)
        => TaskAudited' /\ AuditAgrees'
    BY DEF TaskAudited, AuditAgrees, jobVars
<1> USE DEF TypeOK, JobTypeOK, TaskAudited, AuditAgrees, storeVars, rowVars
<1>1. ASSUME NEW j \in Jobs, Job(j)
      PROVE  TaskAudited' /\ AuditAgrees'
    <2>1. CASE CreateJob(j)
        BY <2>1 DEF CreateJob, Task
    <2>2. CASE Advance(j)
        <3>1. Following[stage[j]] \notin {"complete", "failed"}
            BY <2>2 DEF Advance, Following
        <3> QED
            BY <2>2, <3>1 DEF Advance
    <2>3. CASE Store(j)
        BY <2>3 DEF Store, Task, InsertDocument
    <2>4. CASE Complete(j)
        BY <2>4 DEF Complete, Task
    <2>5. CASE CompleteFails(j)
        BY <2>5 DEF CompleteFails, Task
    <2>6. CASE NoteFailure(j)
        BY <2>6 DEF NoteFailure, Task
    <2>7. CASE MarkFailed(j)
        BY <2>7 DEF MarkFailed, Task
    <2>8. CASE Raise(j)
        BY <2>8 DEF Raise
    <2> QED
        BY <1>1, <2>1, <2>2, <2>3, <2>4, <2>5, <2>6, <2>7, <2>8 DEF Job, RunJob
<1>2. ASSUME NEW r \in Requests, Request(r)
      PROVE  UNCHANGED <<jobVars, linked, stored>>
    BY <1>2 DEF Request, Load, Serve, CountAll, DropAll, RemoveAll, RemoveFails, DropOne, Answer,
                CommitApprove, CommitReject, CommitDelete, CommitDeleteFails, DropChunks,
                RemoveDocuments, CommitDeletes, Rollback
<1>3. CASE Fault
    <2>1. ASSUME NEW j \in Jobs, HandlerFails(j)
          PROVE  TaskAudited' /\ AuditAgrees'
        BY <2>1 DEF HandlerFails
    <2>2. AbortAll(Requests) /\ LoseTasks => TaskAudited' /\ AuditAgrees'
        BY DEF LoseTasks, AbortAll, Rollback
    <2> QED
        BY <1>3, <2>1, <2>2, <1>a DEF Fault, AbortAll, Rollback
<1>4. CASE (\E u \in Uploads : Upload(u)) \/ (\E c \in Calls : Propose(c)) \/ UNCHANGED vars
    BY <1>4, <1>a, StoreAssumption DEF Upload, InsertDocument, Propose, ProposeCall, vars
<1> QED
    BY <1>1, <1>2, <1>3, <1>4, <1>a DEF Next

-----------------------------------------------------------------------------
(* The theorems.                                                           *)

\* The invariant holds at the start,
LEMMA InitIInv == Init => IInv
<1> SUFFICES ASSUME Init
             PROVE  IInv
    OBVIOUS
<1> USE DEF Init, StoreInit, JobInit, RequestInit
<1>1. TypeOK
    BY CorpusAssumption DEF TypeOK, StoreTypeOK, JobTypeOK, RequestTypeOK, Stages, Active
<1>2. StoreInv
    BY DEF StoreInv, RowsAgree, LocksHeld, Asking, Progress, Kind
<1>3. Resolved /\ TaskAudited /\ AuditAgrees
    BY DEF Resolved, TaskAudited, AuditAgrees
<1> QED
    BY <1>1, <1>2, <1>3 DEF IInv

\* ... and is kept by every step.
LEMMA InvariantHolds == Spec => []IInv
<1>1. IInv /\ [Next]_vars => IInv'
    BY NextTypes, NextStore, NextResolved, NextAudited DEF IInv, StoreInv
<1> QED
    BY <1>1, InitIInv, PTL DEF Spec

\* Type correctness.
THEOREM TypeCorrect == Spec => []TypeOK
<1>1. IInv => TypeOK
    BY DEF IInv
<1> QED
    BY <1>1, InvariantHolds, PTL

\* Documents, chunks and complete jobs fit together after every commit: two
\* statements that delete under locks, the rollback of either, and racing
\* jobs never leave a document without its chunks.
THEOREM AlwaysWhole == Spec => []DocumentsWhole
<1>1. IInv => DocumentsWhole
    BY DEF IInv, StoreInv, RowsAgree, TaskAudited, DocumentsWhole
<1> QED
    BY <1>1, InvariantHolds, PTL

\* A tool call that took effect is never offered again.
THEOREM AlwaysResolved == Spec => []ExecutedIsResolved
<1>1. IInv => ExecutedIsResolved
    BY DEF IInv, Resolved, ExecutedIsResolved
<1> QED
    BY <1>1, InvariantHolds, PTL

\* An approved deletion leaves none of the documents it reported.
THEOREM AlwaysLeavesNone == Spec => []ApprovedLeavesNone
<1>1. IInv => ApprovedLeavesNone
    BY DEF IInv, StoreInv, Progress, ApprovedLeavesNone
<1> QED
    BY <1>1, InvariantHolds, PTL

\* The audit log says "completed" of exactly the jobs whose document was stored,
\* also of those that failed afterwards, and "failed" of every job that failed.
THEOREM AlwaysAudited == Spec => []AuditAgrees
<1>1. IInv => AuditAgrees
    BY DEF IInv
<1> QED
    BY <1>1, InvariantHolds, PTL

=============================================================================

---------------------------- MODULE OutcomeQueue -----------------------------
(***************************************************************************)
(* The durable handoff of rated answers to the experience index:           *)
(* swarm/outcomes.py (the task_outcome_queue table), _outcome_drain_loop    *)
(* of api/server.py and record_success of swarm/feedback.py, with LightRAG  *)
(* reduced to a set of documents.                                          *)
(*                                                                         *)
(* /feedback handlers publish concurrently, one transaction each.  The     *)
(* server process has one drain loop; it claims a batch of rows and works  *)
(* on the COPIES it read, so a publish that lands meanwhile changes the     *)
(* row under it.  The process may die and be restarted at any step.        *)
(***************************************************************************)
EXTENDS Naturals, Sequences, SequencesExt, FiniteSets

CONSTANTS
    Tasks,          \* (project_id, task_hash) pairs: the unique key of a row
    Answers,        \* results
    Short,          \* those under _MIN_RESULT_LENGTH: never indexed
    Publishers,     \* concurrent /feedback handlers
    NoAnswer,
    DrainBatch,     \* DRAIN_BATCH
    MaxAttempts,    \* MAX_ATTEMPTS
    MaxPublishes,   \* bound: publishes
    MaxCrashes,     \* bound: deaths of the server process
    MaxIndexFaults, \* bound: failures inside LightRAG
    MaxDbFaults     \* bound: drain-loop transactions that raise

ASSUME BatchAssumption == DrainBatch \in Nat \ {0}
ASSUME AttemptsAssumption == MaxAttempts \in Nat \ {0}
ASSUME AnswersAssumption == NoAnswer \notin Answers /\ Short \subseteq Answers

VARIABLES
    queue,          \* task -> its row of task_outcome_queue
    order,          \* the rows by created_at
    docs,           \* the documents of the experience namespace
    lastPath,       \* file paths handed out so far, each unique
    publisher,      \* a publish between its SELECT and its commit
    loop,           \* where the drain loop is; "dead" once it raised, "down" with the process
    batch,          \* the row copies still to be worked on, the first one in progress
    path,           \* what record_success is to return for it, 0 for None
    published, crashes, indexFaults, dbFaults,      \* spent so far, against the bounds
    loss            \* history: how a task's present answer came to miss the index

table == <<queue, order>>
index == <<docs, lastPath>>
drainer == <<loop, batch, path>>
spent == <<published, crashes, indexFaults, dbFaults>>
queueVars == <<table, index, publisher, drainer, spent, loss>>

Statuses == {"none", "pending", "processing", "done", "failed"}
NoRow == [status |-> "none", answer |-> NoAnswer, attempts |-> 0, doc |-> 0, stuck |-> FALSE]
NoPublish == [task |-> "none", answer |-> NoAnswer, exists |-> FALSE]

Exists(t) == queue[t].status # "none"
Pending(t) == queue[t].status = "pending"
HeldTasks == {batch[i].task : i \in DOMAIN batch}
Indexed(t, a) == \E d \in docs : d.task = t /\ d.answer = a

QueueInit ==
    /\ queue = [t \in Tasks |-> NoRow]
    /\ order = <<>>
    /\ docs = {} /\ lastPath = 0
    /\ publisher = [p \in Publishers |-> NoPublish]
    /\ loop = "sleep" /\ batch = <<>> /\ path = 0
    /\ published = 0 /\ crashes = 0 /\ indexFaults = 0 /\ dbFaults = 0
    /\ loss = [t \in Tasks |-> {}]

-----------------------------------------------------------------------------
(* PostgresOutcomeSink.publish: SELECT by (project, task hash), then UPDATE   *)
(* or INSERT, in one READ COMMITTED transaction                               *)

PublishSelect(p) ==
    /\ publisher[p] = NoPublish
    /\ published < MaxPublishes
    /\ \E t \in Tasks, a \in Answers :
         publisher' = [publisher EXCEPT ![p] = [task |-> t, answer |-> a, exists |-> Exists(t)]]
    /\ published' = published + 1
    /\ UNCHANGED <<table, index, drainer, crashes, indexFaults, dbFaults, loss>>

\* The unique index rejects the INSERT of a second publisher that also saw no
\* row: publish reports and drops the answer.
BugAccepted(p) == TRUE
Accepted(p) == publisher[p].exists \/ ~Exists(publisher[p].task)

PublishCommit(p) ==
    LET t == publisher[p].task
        a == publisher[p].answer
        replaces == publisher[p].exists
        accepted == Accepted(p)
    IN
    /\ publisher[p] # NoPublish
    /\ publisher' = [publisher EXCEPT ![p] = NoPublish]
    /\ queue' = IF accepted
                THEN [queue EXCEPT ![t] = [status |-> "pending", answer |-> a,
                         attempts |-> 0, doc |-> queue[t].doc, stuck |-> FALSE]]
                ELSE queue
    /\ order' = IF accepted /\ ~replaces THEN Append(order, t) ELSE order
    /\ loss' = IF accepted
               THEN [loss EXCEPT ![t] = IF t \in HeldTasks THEN {"overtaken"} ELSE {}]
               ELSE loss
    /\ UNCHANGED <<index, drainer, spent>>

\* The handler's process dies or its transaction fails: nothing is queued.
PublishFails(p) ==
    /\ publisher[p] # NoPublish
    /\ publisher' = [publisher EXCEPT ![p] = NoPublish]
    /\ UNCHANGED <<table, index, drainer, spent, loss>>

-----------------------------------------------------------------------------
(* _outcome_drain_loop *)

\* requeue_stuck: rows left in processing for older_than_seconds
BugRequeueStuck ==
    /\ loop = "sleep"
    /\ loop' = "select"
    /\ UNCHANGED <<table, index, publisher, batch, path, spent, loss>>
RequeueStuck ==
    /\ loop = "sleep"
    /\ loop' = "select"
    /\ queue' = [t \in Tasks |->
                   IF queue[t].status = "processing" /\ queue[t].stuck
                   THEN [queue[t] EXCEPT !.status = "pending", !.stuck = FALSE]
                   ELSE queue[t]]
    /\ UNCHANGED <<order, index, publisher, batch, path, spent, loss>>

\* claim_pending, the SELECT: copies of the oldest pending rows, which are in order
\* and of which none is left out but for older ones
Older(t, u) == \E i, j \in DOMAIN order : i < j /\ order[i] = t /\ order[j] = u
OldestPending ==
    {s \in UNION {[1..n -> {t \in Tasks : Pending(t)}] : n \in 0..DrainBatch} :
        /\ \A i, j \in DOMAIN s : i < j => Older(s[i], s[j])
        /\ \A t \in Tasks : Pending(t) =>
             \/ t \in Range(s)
             \/ Len(s) = DrainBatch /\ \A i \in DOMAIN s : Older(s[i], t)}

ClaimSelect ==
    /\ loop = "select"
    /\ \E claimed \in OldestPending :
         /\ batch' = [i \in DOMAIN claimed |->
                        [task |-> claimed[i], answer |-> queue[claimed[i]].answer,
                         attempts |-> queue[claimed[i]].attempts, doc |-> queue[claimed[i]].doc]]
         /\ loop' = IF claimed = <<>> THEN "sleep" ELSE "claim"
         /\ loss' = [t \in Tasks |-> IF t \in Range(claimed) THEN {} ELSE loss[t]]
    /\ UNCHANGED <<table, index, publisher, path, spent>>

\* claim_pending, the UPDATE by id, whatever the rows have become since
BugClaimedStatus == "done"
ClaimedStatus == "processing"

ClaimUpdate ==
    /\ loop = "claim"
    /\ loop' = "record"
    /\ queue' = [t \in Tasks |->
                   IF t \in HeldTasks
                   THEN [queue[t] EXCEPT !.status = ClaimedStatus, !.stuck = FALSE]
                   ELSE queue[t]]
    /\ UNCHANGED <<order, index, publisher, batch, path, spent, loss>>

\* Either query raises: the pass is given up and the loop sleeps again.
DrainQueryFails ==
    /\ loop \in {"sleep", "select", "claim"}
    /\ dbFaults < MaxDbFaults
    /\ dbFaults' = dbFaults + 1
    /\ loop' = "sleep" /\ batch' = <<>>
    /\ UNCHANGED <<table, index, publisher, path, published, crashes, indexFaults, loss>>

-----------------------------------------------------------------------------
(* record_success for the row copy in progress *)

\* A short answer is skipped before anything is touched; otherwise the document
\* this row produced before is deleted.  That deletion may fail, which is
\* reported and ignored.
DeleteSuperseded ==
    /\ loop = "record"
    /\ loop' = IF Head(batch).answer \in Short THEN "mark" ELSE "insert"
    /\ path' = 0
    /\ \/ /\ docs' = IF Head(batch).answer \in Short THEN docs
                     ELSE {d \in docs : d.path # Head(batch).doc}
          /\ UNCHANGED indexFaults
       \/ /\ Head(batch).answer \notin Short /\ Head(batch).doc # 0
          /\ indexFaults < MaxIndexFaults
          /\ indexFaults' = indexFaults + 1
          /\ UNCHANGED docs
    /\ UNCHANGED <<table, lastPath, publisher, batch, published, crashes, dbFaults, loss>>

\* rag.ainsert: LightRAG keeps one document per content, and returns normally
\* when it rejects a duplicate.
InsertDoc ==
    LET t == Head(batch).task
        a == Head(batch).answer
    IN
    /\ loop = "insert"
    /\ loop' = "mark"
    /\ lastPath' = lastPath + 1
    /\ path' = lastPath'
    /\ docs' = IF Indexed(t, a) THEN docs
               ELSE docs \union {[path |-> lastPath', task |-> t, answer |-> a]}
    /\ UNCHANGED <<table, publisher, batch, spent, loss>>

\* Initialising, extracting or inserting fails.  record_success catches what is
\* raised and returns None; a rejection LightRAG only records returns the path.
InsertFails ==
    /\ loop = "insert"
    /\ indexFaults < MaxIndexFaults
    /\ indexFaults' = indexFaults + 1
    /\ loop' = "mark"
    /\ \/ path' = 0 /\ UNCHANGED lastPath
       \/ path' = lastPath + 1 /\ lastPath' = lastPath + 1
    /\ loss' = [loss EXCEPT ![Head(batch).task] = @ \union {"swallowed"}]
    /\ UNCHANGED <<table, docs, publisher, batch, published, crashes, dbFaults>>

-----------------------------------------------------------------------------
(* The row's outcome *)

NextRow == IF Len(batch) = 1 THEN "sleep" ELSE "record"

\* mark_done, by row id: whatever the row has become since it was claimed
BugMarkDone ==
    /\ loop = "mark"
    /\ loop' = NextRow
    /\ batch' = Tail(batch) /\ path' = 0
    /\ queue' = [queue EXCEPT ![Head(batch).task] = [@ EXCEPT !.status = "done", !.stuck = FALSE]]
    /\ UNCHANGED <<order, index, publisher, spent, loss>>
MarkDone ==
    /\ loop = "mark"
    /\ loop' = NextRow
    /\ batch' = Tail(batch) /\ path' = 0
    /\ LET t == Head(batch).task IN
       queue' = [queue EXCEPT ![t] =
                   [@ EXCEPT !.status = "done", !.stuck = FALSE,
                             !.doc = IF path = 0 THEN queue[t].doc ELSE path]]
    /\ UNCHANGED <<order, index, publisher, spent, loss>>

\* mark_done raises: the handler goes on to mark_failed.
MarkDoneFails ==
    /\ loop = "mark"
    /\ dbFaults < MaxDbFaults
    /\ dbFaults' = dbFaults + 1
    /\ loop' = "fail" /\ path' = 0
    /\ UNCHANGED <<table, index, publisher, batch, published, crashes, indexFaults, loss>>

\* mark_failed, with the attempts the copy had when it was claimed
MarkFailed ==
    LET attempts == Head(batch).attempts + 1 IN
    /\ loop = "fail"
    /\ loop' = NextRow
    /\ batch' = Tail(batch)
    /\ queue' = [queue EXCEPT ![Head(batch).task] =
                   [@ EXCEPT !.status = IF attempts < MaxAttempts THEN "pending" ELSE "failed",
                             !.attempts = attempts, !.stuck = FALSE]]
    /\ UNCHANGED <<order, index, publisher, path, spent, loss>>

\* mark_failed raises inside the except clause: the loop's task is over, the
\* process goes on serving.
LoopDies ==
    /\ loop = "fail"
    /\ dbFaults < MaxDbFaults
    /\ dbFaults' = dbFaults + 1
    /\ loop' = "dead" /\ batch' = <<>>
    /\ UNCHANGED <<table, index, publisher, path, published, crashes, indexFaults, loss>>

-----------------------------------------------------------------------------
(* The process and the clock *)

Crash ==
    /\ loop # "down"
    /\ crashes < MaxCrashes
    /\ crashes' = crashes + 1
    /\ loop' = "down" /\ batch' = <<>> /\ path' = 0
    /\ publisher' = [p \in Publishers |-> NoPublish]
    /\ UNCHANGED <<table, index, published, indexFaults, dbFaults, loss>>

Restart ==
    /\ loop = "down"
    /\ loop' = "sleep"
    /\ UNCHANGED <<table, index, publisher, batch, path, spent, loss>>

\* older_than_seconds have passed since the row was last updated.
AgeOut(t) ==
    /\ queue[t].status = "processing" /\ ~queue[t].stuck
    /\ queue' = [queue EXCEPT ![t].stuck = TRUE]
    /\ UNCHANGED <<order, index, publisher, drainer, spent, loss>>

Drain ==
    \/ RequeueStuck
    \/ ClaimSelect
    \/ ClaimUpdate
    \/ DeleteSuperseded
    \/ InsertDoc
    \/ MarkDone
    \/ MarkFailed

QueueNext ==
    \/ \E p \in Publishers : PublishSelect(p)
    \/ \E p \in Publishers : PublishCommit(p)
    \/ \E p \in Publishers : PublishFails(p)
    \/ Drain
    \/ DrainQueryFails
    \/ InsertFails
    \/ MarkDoneFails
    \/ LoopDies
    \/ Crash
    \/ Restart
    \/ \E t \in Tasks : AgeOut(t)

\* The loop's own steps are always scheduled, a dead process is restarted (the
\* service runs under a supervisor), and time passes.  Nothing else is promised.
Fairness ==
    /\ WF_queueVars(Drain)
    /\ WF_queueVars(Restart)
    /\ \A t \in Tasks : WF_queueVars(AgeOut(t))

QueueSpec == QueueInit /\ [][QueueNext]_queueVars /\ Fairness

-----------------------------------------------------------------------------
(* Properties *)

Row == [status : Statuses, answer : Answers \union {NoAnswer}, attempts : 0 .. MaxAttempts,
        doc : 0 .. lastPath, stuck : BOOLEAN]
Copy == [task : Tasks, answer : Answers, attempts : 0 .. MaxAttempts, doc : 0 .. lastPath]

\* Every variable stays in its type: one row per task, a document path recorded
\* or copied was handed out, and the loop holds copies exactly while it works.
QueueTypeOK ==
    /\ queue \in [Tasks -> Row]
    /\ order \in Seq(Tasks) /\ IsInjective(order)
    /\ Range(order) = {t \in Tasks : Exists(t)}
    /\ \A d \in docs : d.path \in 1 .. lastPath /\ d.task \in Tasks /\ d.answer \in Answers \ Short
    /\ lastPath \in Nat
    /\ \A p \in Publishers :
         publisher[p] # NoPublish => publisher[p].task \in Tasks /\ publisher[p].answer \in Answers
    /\ loop \in {"sleep", "select", "claim", "record", "insert", "mark", "fail", "dead", "down"}
    /\ batch \in Seq(Copy) /\ Len(batch) <= DrainBatch
    /\ (batch # <<>>) <=> loop \in {"claim", "record", "insert", "mark", "fail"}
    /\ path \in 0 .. lastPath
    /\ loss \in [Tasks -> SUBSET {"overtaken", "swallowed"}]

\* A row that says done is in the index, unless its answer was published while
\* the loop held the row's older copy, or LightRAG failed and the failure was
\* swallowed: crashes, requeues, retries and duplicate inserts lose nothing else.
OnlyKnownLosses ==
    \A t \in Tasks :
        queue[t].status = "done" /\ queue[t].answer \notin Short /\ loss[t] = {}
            => Indexed(t, queue[t].answer)

\* "The namespace holds exactly one doc per task", up to what was left behind: each
\* crash, raised transaction or index failure leaves at most one stale document.
StaleDocsBounded ==
    \A t \in Tasks :
        Cardinality({d \in docs : d.task = t}) <= 1 + crashes + dbFaults + indexFaults

\* A queued answer is eventually indexed or parked in failed; only the death of
\* the drain loop's task can leave it in pending or processing for good.
Settled(t) == queue[t].status \in {"done", "failed"}
PendingSettles ==
    \A t \in Tasks : Pending(t) ~> Settled(t) \/ loop = "dead"

\* What mark_failed and requeue_stuck are documented to ensure, without that
\* exception: a drain that fails is retried until the budget is spent.
EveryPendingSettles == \A t \in Tasks : Pending(t) ~> Settled(t)

\* What the documentation says of a done row, without the exceptions above: the
\* row's answer is the one the index holds.
DoneIsIndexed ==
    \A t \in Tasks :
        queue[t].status = "done" /\ queue[t].answer \notin Short => Indexed(t, queue[t].answer)
=============================================================================

---------------------------- MODULE ExecutionStore ----------------------------
(***************************************************************************)
(* The durable record of one agent run: swarm/execution_store.py, the      *)
(* in-memory identities of swarm/execution_context.py that feed it, the    *)
(* places of swarm/team.py that write both, and the session sweep of       *)
(* swarm/sessions.py that may delete the whole tree.                       *)
(*                                                                         *)
(* A run is a worker process.  It keeps a RunContext in memory (executions,*)
(* a stack of the open ones, tool calls) and mirrors each change into a    *)
(* database row.  Every write is one transaction and is fail-open: a write *)
(* that fails is logged and the run goes on.  The worker may be SIGKILLed  *)
(* between any two steps; the memory is then gone and the rows are all     *)
(* that rehydrate_run has to judge the run by.                             *)
(*                                                                         *)
(* A tool call of a delegation, of a member or of the coordinator runs in  *)
(* its own asyncio task (agno gathers the calls of one model reply), so    *)
(* the steps of several calls of one run interleave at every await.        *)
(***************************************************************************)
EXTENDS Naturals, Sequences, FiniteSets

CONSTANTS
    Sessions,       \* rows of chat_sessions
    Runs,           \* run ids, one worker process each
    Execs,          \* ids RunContext.start_execution may mint
    Calls,          \* ids RunContext.start_tool_call may mint
    NoSession,      \* a run started without a session (the bare CLI path)
    NoExec,         \* no current execution: the stack is empty
    NoRun,          \* the run of an id not minted yet
    MaxLost         \* bound on the writes that fail

ASSUME NoValuesAssumption ==
    /\ NoSession \notin Sessions
    /\ NoExec \notin Execs
    /\ NoRun \notin Runs

ASSUME MaxLostAssumption == MaxLost \in Nat

VARIABLES
    session,        \* chat_sessions: "live", "expired", "kept" or how it went
    runSession,     \* the session a run was started for
    pc,             \* where the worker is in run_task_async
    alive,          \* FALSE once the worker process has been killed
    outcome,        \* the run's terminal status, computed in the outer finally
    stack,          \* RunContext._stack
    attempt,        \* the coordinator execution in progress: the root or a retry
    exec,           \* RunContext.executions
    call,           \* RunContext.tool_calls and where its hook has got to
    runRow,         \* runs.status, "none" when there is no row
    execRow,        \* executions.status
    callRow,        \* tool_calls.status
    evidence,       \* the tool calls that have an evidence row
    checkpoints,    \* checkpoints.run_status in order of sequence
    claimRow,       \* a claims row: "linked" or "unlinked" to an evidence row
    lost            \* how many writes have failed

durable == <<runRow, execRow, callRow, evidence, checkpoints, claimRow>>
memory == <<runSession, pc, alive, outcome, stack, attempt, exec, call>>
vars == <<session, memory, durable, lost>>

Deleted == {"swept", "deleted"}
\* "ok" stands for "ok_truncated" too: nothing here tells them apart.
RunStatus == {"running", "ok", "failed"}
CallStatus == {"running", "ok", "error"}
\* The stages of _tool_interception_hook around one call.
Stage == {"unborn", "creating", "created", "opening", "running", "returned",
          "finishing", "closing", "closed", "reconciled", "abandoned"}
\* No code of the hook is left to run.
Ended == {"closed", "reconciled", "abandoned"}
\* From the moment the function may have run until its end is durable.
Unsettled == {"created", "opening", "running", "returned"}
ExecutionRecord ==
    [run : Runs \union {NoRun}, parent : Execs \union {NoExec},
     kind : {"coordinator", "delegation"}, status : RunStatus \union {"unborn"}]
ToolCallRecord ==
    [run : Runs \union {NoRun}, exec : Execs \union {NoExec}, child : Execs \union {NoExec},
     kind : {"tool", "delegation", "comparison"}, stage : Stage, status : CallStatus]
\* The verdicts team.py hands to persist_claim, and those it accepts.
Verdict == {"supported", "contradicted",
            "supported_with_consistency_defect", "unresolved"}
VALID_CLAIM_STATUSES == {"supported", "contradicted"}

-----------------------------------------------------------------------------
Init ==
    /\ session = [s \in Sessions |-> "live"]
    /\ runSession = [r \in Runs |-> NoSession]
    /\ pc = [r \in Runs |-> "unborn"]
    /\ alive = [r \in Runs |-> TRUE]
    /\ outcome = [r \in Runs |-> "running"]
    /\ stack = [r \in Runs |-> <<>>]
    /\ attempt = [r \in Runs |-> NoExec]
    /\ exec = [e \in Execs |-> [run |-> NoRun, parent |-> NoExec,
                                kind |-> "coordinator", status |-> "unborn"]]
    /\ call = [c \in Calls |-> [run |-> NoRun, exec |-> NoExec, child |-> NoExec,
                                kind |-> "tool", stage |-> "unborn",
                                status |-> "running"]]
    /\ runRow = [r \in Runs |-> "none"]
    /\ execRow = [e \in Execs |-> "none"]
    /\ callRow = [c \in Calls |-> "none"]
    /\ evidence = {}
    /\ checkpoints = [r \in Runs |-> <<>>]
    /\ claimRow = [r \in Runs |-> "none"]
    /\ lost = 0

\* One transaction of a persist_* function: it commits, or it raises and the
\* function (and guard around it) swallows the exception.
Write(landed) ==
    \/ landed /\ UNCHANGED lost
    \/ ~landed /\ lost < MaxLost /\ lost' = lost + 1

\* RunContext.current_execution_id
Current(r) == IF stack[r] = <<>> THEN NoExec ELSE stack[r][Len(stack[r])]

\* RunContext.start_execution: a new record on top of the stack
BugPush(r, e) == stack' = [stack EXCEPT ![r] = Append(@, Current(r))]
Push(r, e) == stack' = [stack EXCEPT ![r] = Append(@, e)]

\* RunContext.finish_execution: popped only when it is the top of the stack
Pop(r, e) ==
    stack' = [stack EXCEPT ![r] =
        IF Current(r) = e THEN SubSeq(@, 1, Len(@) - 1) ELSE @]

Mint(r, e, parent, kind) ==
    /\ exec[e].status = "unborn"
    /\ exec' = [exec EXCEPT ![e] = [run |-> r, parent |-> parent,
                                    kind |-> kind, status |-> "running"]]

At(r, point) == alive[r] /\ pc[r] = point
Goto(r, point) == pc' = [pc EXCEPT ![r] = point]
OpenCalls(r) ==
    {c \in Calls : call[c].run = r /\ call[c].stage \notin Ended}

-----------------------------------------------------------------------------
(* The worker: run_task_async from the RunContext to the terminal checkpoint. *)

\* RunContext(session_id, run_id) and start_execution of the root.  The server
\* authorised the session before it spawned the worker.
BeginRun(r, s, e) ==
    /\ At(r, "unborn")
    /\ s # NoSession => session[s] \notin Deleted
    /\ Mint(r, e, NoExec, "coordinator")
    /\ Push(r, e)
    /\ runSession' = [runSession EXCEPT ![r] = s]
    /\ attempt' = [attempt EXCEPT ![r] = e]
    /\ Goto(r, "starting")
    /\ UNCHANGED <<session, alive, outcome, call, durable, lost>>

\* persist_run_started: the run and its root execution in one transaction,
\* skipped without a session, refused by the foreign key without its row.
PersistRunStarted(r) ==
    /\ At(r, "starting")
    /\ \E landed \in BOOLEAN :
        LET done == landed /\ runSession[r] # NoSession
                           /\ session[runSession[r]] \notin Deleted
        IN  /\ Write(landed)
            /\ runRow' = [runRow EXCEPT ![r] = IF done THEN "running" ELSE @]
            /\ execRow' = [execRow EXCEPT ![attempt[r]] = IF done THEN "running" ELSE @]
    /\ Goto(r, "started")
    /\ UNCHANGED <<session, runSession, alive, outcome, stack, attempt, exec, call,
                   callRow, evidence, checkpoints, claimRow>>

\* persist_checkpoint: the next sequence number of a run that has a row
Checkpoint(r, status) ==
    \E landed \in BOOLEAN :
        /\ Write(landed)
        /\ checkpoints' = [checkpoints EXCEPT ![r] =
              IF landed /\ runRow[r] # "none" THEN Append(@, status) ELSE @]

\* The baseline checkpoint; the first pass begins after it.
PersistBaselineCheckpoint(r) ==
    /\ At(r, "started")
    /\ Checkpoint(r, "running")
    /\ Goto(r, "active")
    /\ UNCHANGED <<session, runSession, alive, outcome, stack, attempt, exec, call,
                   runRow, execRow, callRow, evidence, claimRow>>

\* An attempt (first pass or retry) ends: finish_execution, no call open.
FinishAttempt(r, status) ==
    /\ At(r, "active")
    /\ OpenCalls(r) = {}
    /\ exec' = [exec EXCEPT ![attempt[r]].status = status]
    /\ Pop(r, attempt[r])
    /\ Goto(r, "attempt_closing")
    /\ UNCHANGED <<session, runSession, alive, outcome, attempt, call, durable, lost>>

\* persist_execution_completed: an UPDATE, no effect without a row
ExecCompleted(e) ==
    \E landed \in BOOLEAN :
        /\ Write(landed)
        /\ execRow' = [execRow EXCEPT ![e] =
              IF landed /\ @ # "none" THEN exec[e].status ELSE @]

PersistAttemptCompleted(r) ==
    /\ At(r, "attempt_closing")
    /\ ExecCompleted(attempt[r])
    /\ Goto(r, "answered")
    /\ UNCHANGED <<session, runSession, alive, outcome, stack, attempt, exec, call,
                   runRow, callRow, evidence, checkpoints, claimRow>>

\* _stream_team_run: a retry is a sibling of the root's children, pushed now
StartRetry(r, e) ==
    /\ At(r, "answered")
    /\ OpenCalls(r) = {}
    /\ \E root \in Execs :
        /\ exec[root].run = r /\ exec[root].parent = NoExec
        /\ Mint(r, e, root, "coordinator")
    /\ Push(r, e)
    /\ attempt' = [attempt EXCEPT ![r] = e]
    /\ Goto(r, "retry_opening")
    /\ UNCHANGED <<session, runSession, alive, outcome, call, durable, lost>>

\* persist_execution_created: the run and the parent execution must have rows
ExecCreated(e) ==
    \E landed \in BOOLEAN :
        /\ Write(landed)
        /\ execRow' = [execRow EXCEPT ![e] =
              IF /\ landed
                 /\ runRow[exec[e].run] # "none"
                 /\ exec[e].parent # NoExec => execRow[exec[e].parent] # "none"
              THEN "running" ELSE @]

PersistRetryCreated(r) ==
    /\ At(r, "retry_opening")
    /\ ExecCreated(attempt[r])
    /\ Goto(r, "active")
    /\ UNCHANGED <<session, runSession, alive, outcome, stack, attempt, exec, call,
                   runRow, callRow, evidence, checkpoints, claimRow>>

\* The outermost finally: the outcome, then the runs row
PersistRunCompleted(r, status) ==
    /\ At(r, "answered")
    /\ OpenCalls(r) = {}
    /\ outcome' = [outcome EXCEPT ![r] = status]
    /\ \E landed \in BOOLEAN :
        /\ Write(landed)
        /\ runRow' = [runRow EXCEPT ![r] = IF landed /\ @ # "none" THEN status ELSE @]
    /\ Goto(r, "completing")
    /\ UNCHANGED <<session, runSession, alive, stack, attempt, exec, call,
                   execRow, callRow, evidence, checkpoints, claimRow>>

PersistTerminalCheckpoint(r) ==
    /\ At(r, "completing")
    /\ Checkpoint(r, outcome[r])
    /\ Goto(r, "done")
    /\ UNCHANGED <<session, runSession, alive, outcome, stack, attempt, exec, call,
                   runRow, execRow, callRow, evidence, claimRow>>

\* SIGKILL by the server, or the machine going down: no in-process code sees it.
Kill(r) ==
    /\ alive[r]
    /\ pc[r] \notin {"unborn", "done"}
    /\ alive' = [alive EXCEPT ![r] = FALSE]
    /\ UNCHANGED <<session, runSession, pc, outcome, stack, attempt, exec, call,
                   durable, lost>>

-----------------------------------------------------------------------------
(* _tool_interception_hook around one call, and the bracketed comparison    *)
(* that _verified_answer makes itself once the first pass is over.          *)

SetStage(c, stage) == call' = [call EXCEPT ![c].stage = stage]
Hook(c, stage) == /\ call[c].stage = stage
                  /\ call[c].run # NoRun
                  /\ alive[call[c].run]

\* start_tool_call: attributed to whatever execution is current now
StartCall(r, c, kind) ==
    /\ \/ At(r, "active") /\ kind \in {"tool", "delegation"}
       \/ At(r, "answered") /\ kind = "comparison" /\ OpenCalls(r) = {}
    /\ call[c].stage = "unborn"
    /\ call' = [call EXCEPT ![c] = [run |-> r, exec |-> Current(r), child |-> NoExec,
                                    kind |-> kind, stage |-> "creating",
                                    status |-> "running"]]
    /\ UNCHANGED <<session, runSession, pc, alive, outcome, stack, attempt, exec,
                   durable, lost>>

\* The INSERT of a tool call is skipped without a current execution, and
\* refused by the foreign key without that execution's row.
BugRecordable(c) == call[c].exec # NoExec
Recordable(c) == call[c].exec # NoExec /\ execRow[call[c].exec] # "none"

\* persist_tool_call_created, awaited before the function is.  A cancellation
\* (the stream's inactivity timeout) that arrives during the write leaves the
\* hook here, before its try block.
PersistCallCreated(c) ==
    /\ Hook(c, "creating")
    /\ \E landed \in BOOLEAN :
        /\ Write(landed)
        /\ callRow' = [callRow EXCEPT ![c] =
              IF landed /\ Recordable(c) THEN "running" ELSE @]
    /\ \E stage \in {IF call[c].kind = "delegation" THEN "created" ELSE "running",
                     "abandoned"} : SetStage(c, stage)
    /\ UNCHANGED <<session, runSession, pc, alive, outcome, stack, attempt, exec,
                   runRow, execRow, evidence, checkpoints, claimRow>>

\* A delegation's child execution: its parent is read only now, after the await
StartDelegation(c, e) ==
    /\ Hook(c, "created")
    /\ Mint(call[c].run, e, Current(call[c].run), "delegation")
    /\ Push(call[c].run, e)
    /\ call' = [call EXCEPT ![c].child = e, ![c].stage = "opening"]
    /\ UNCHANGED <<session, runSession, pc, alive, outcome, attempt, durable, lost>>

\* Cancelled here, the child stays open and on the stack.
PersistDelegationCreated(c) ==
    /\ Hook(c, "opening")
    /\ ExecCreated(call[c].child)
    /\ \E stage \in {"running", "abandoned"} : SetStage(c, stage)
    /\ UNCHANGED <<session, runSession, pc, alive, outcome, stack, attempt, exec,
                   runRow, callRow, evidence, checkpoints, claimRow>>

\* The function returns, raises or is cancelled: finish_tool_call
ReturnCall(c, status) ==
    /\ Hook(c, "running")
    /\ call' = [call EXCEPT ![c].status = status, ![c].stage = "returned"]
    /\ UNCHANGED <<session, runSession, pc, alive, outcome, stack, attempt, exec,
                   durable, lost>>

\* persist_tool_call_completed: the status and the evidence row in one
\* transaction, nothing without the durable id of a call that was recorded
BugEvidenceApart(c, landed) ==
    /\ callRow' = [callRow EXCEPT ![c] = IF @ # "none" THEN call[c].status ELSE @]
    /\ evidence' = IF landed /\ callRow[c] # "none" THEN evidence \union {c} ELSE evidence

CallCompleted(c, landed) ==
    LET done == landed /\ callRow[c] # "none"
    IN  /\ callRow' = [callRow EXCEPT ![c] = IF done THEN call[c].status ELSE @]
        /\ evidence' = IF done THEN evidence \union {c} ELSE evidence

PersistCallCompleted(c) ==
    /\ Hook(c, "returned")
    /\ \E landed \in BOOLEAN : Write(landed) /\ CallCompleted(c, landed)
    /\ SetStage(c, IF call[c].kind = "delegation" THEN "finishing" ELSE "closed")
    /\ UNCHANGED <<session, runSession, pc, alive, outcome, stack, attempt, exec,
                   runRow, execRow, checkpoints, claimRow>>

\* finish_execution of the child, "failed" when the call raised
FinishDelegation(c) ==
    /\ Hook(c, "finishing")
    /\ exec' = [exec EXCEPT ![call[c].child].status =
                   IF call[c].status = "ok" THEN "ok" ELSE "failed"]
    /\ Pop(call[c].run, call[c].child)
    /\ SetStage(c, "closing")
    /\ UNCHANGED <<session, runSession, pc, alive, outcome, attempt, durable, lost>>

PersistDelegationCompleted(c) ==
    /\ Hook(c, "closing")
    /\ ExecCompleted(call[c].child)
    /\ SetStage(c, "closed")
    /\ UNCHANGED <<session, runSession, pc, alive, outcome, stack, attempt, exec,
                   runRow, callRow, evidence, checkpoints, claimRow>>

\* _persist_completeness_claim -> persist_claim, once per run: the claim and
\* its link to the comparison's evidence in one transaction.  A verdict outside
\* VALID_CLAIM_STATUSES raises ValueError, which guard swallows.
ReconcileClaim(c, verdict) ==
    /\ Hook(c, "closed")
    /\ call[c].kind = "comparison" /\ call[c].status = "ok"
    /\ At(call[c].run, "answered")
    /\ \A d \in Calls : call[d].run = call[c].run => call[d].stage # "reconciled"
    /\ \E landed \in BOOLEAN :
        /\ Write(landed)
        /\ claimRow' = [claimRow EXCEPT ![call[c].run] =
              IF landed /\ verdict \in VALID_CLAIM_STATUSES /\ runRow[call[c].run] # "none"
              THEN IF c \in evidence THEN "linked" ELSE "unlinked"
              ELSE @]
    /\ SetStage(c, "reconciled")
    /\ UNCHANGED <<session, runSession, pc, alive, outcome, stack, attempt, exec,
                   runRow, execRow, callRow, evidence, checkpoints>>

-----------------------------------------------------------------------------
(* Sessions: expiry, the sweep of _session_cleanup_loop, /persist, DELETE.   *)

\* ON DELETE CASCADE: runs, then executions, checkpoints and claims, then
\* tool calls, then evidence
Cascade(s) ==
    LET gone == {r \in Runs : runSession[r] = s}
    IN  /\ runRow' = [r \in Runs |-> IF r \in gone THEN "none" ELSE runRow[r]]
        /\ execRow' = [e \in Execs |-> IF exec[e].run \in gone THEN "none" ELSE execRow[e]]
        /\ callRow' = [c \in Calls |-> IF call[c].run \in gone THEN "none" ELSE callRow[c]]
        /\ evidence' = {c \in evidence : call[c].run \notin gone}
        /\ checkpoints' = [r \in Runs |-> IF r \in gone THEN <<>> ELSE checkpoints[r]]
        /\ claimRow' = [r \in Runs |-> IF r \in gone THEN "none" ELSE claimRow[r]]

\* expires_at passes
Expire(s) ==
    /\ session[s] = "live"
    /\ session' = [session EXCEPT ![s] = "expired"]
    /\ UNCHANGED <<memory, durable, lost>>

\* persist_session: works on an expired session that is still there
PersistSession(s) ==
    /\ session[s] \in {"live", "expired"}
    /\ session' = [session EXCEPT ![s] = "kept"]
    /\ UNCHANGED <<memory, durable, lost>>

BugSweepable(s) == session[s] = "expired"

\* _cleanup_expired's WHERE: expired, not kept, and no run still "running"
Sweepable(s) ==
    /\ session[s] = "expired"
    /\ \A r \in Runs : runSession[r] = s => runRow[r] # "running"

CleanupExpired(s) ==
    /\ Sweepable(s)
    /\ session' = [session EXCEPT ![s] = "swept"]
    /\ Cascade(s)
    /\ UNCHANGED <<memory, lost>>

DeleteSession(s) ==
    /\ session[s] \notin Deleted
    /\ session' = [session EXCEPT ![s] = "deleted"]
    /\ Cascade(s)
    /\ UNCHANGED <<memory, lost>>

-----------------------------------------------------------------------------
\* rehydrate_run's verdict, over the rows alone
RecordedCalls(r) ==
    {c \in Calls : callRow[c] # "none" /\ exec[call[c].exec].run = r}

BugResumableIgnoresCalls(r) ==
    /\ runRow[r] = "running"
    /\ checkpoints[r] # <<>>
    /\ \A e \in Execs : exec[e].run = r => execRow[e] # "failed"

BugResumableIgnoresStatus(r) ==
    /\ checkpoints[r] # <<>>
    /\ \A c \in RecordedCalls(r) : callRow[c] # "running"

Resumable(r) ==
    /\ runRow[r] = "running"
    /\ checkpoints[r] # <<>>
    /\ \A e \in Execs : ~ /\ exec[e].run = r /\ exec[e].kind = "delegation"
                          /\ execRow[e] = "running"
    /\ \A c \in RecordedCalls(r) : callRow[c] # "running"

Next ==
    \/ \E r \in Runs, s \in Sessions \union {NoSession}, e \in Execs : BeginRun(r, s, e)
    \/ \E r \in Runs : PersistRunStarted(r)
    \/ \E r \in Runs : PersistBaselineCheckpoint(r)
    \/ \E r \in Runs, status \in {"ok", "failed"} : FinishAttempt(r, status)
    \/ \E r \in Runs : PersistAttemptCompleted(r)
    \/ \E r \in Runs, e \in Execs : StartRetry(r, e)
    \/ \E r \in Runs : PersistRetryCreated(r)
    \/ \E r \in Runs, status \in {"ok", "failed"} : PersistRunCompleted(r, status)
    \/ \E r \in Runs : PersistTerminalCheckpoint(r)
    \/ \E r \in Runs : Kill(r)
    \/ \E r \in Runs, c \in Calls, kind \in {"tool", "delegation", "comparison"} :
          StartCall(r, c, kind)
    \/ \E c \in Calls : PersistCallCreated(c)
    \/ \E c \in Calls, e \in Execs : StartDelegation(c, e)
    \/ \E c \in Calls : PersistDelegationCreated(c)
    \/ \E c \in Calls, status \in {"ok", "error"} : ReturnCall(c, status)
    \/ \E c \in Calls : PersistCallCompleted(c)
    \/ \E c \in Calls : FinishDelegation(c)
    \/ \E c \in Calls : PersistDelegationCompleted(c)
    \/ \E c \in Calls, verdict \in Verdict : ReconcileClaim(c, verdict)
    \/ \E s \in Sessions : Expire(s)
    \/ \E s \in Sessions : PersistSession(s)
    \/ \E s \in Sessions : CleanupExpired(s)
    \/ \E s \in Sessions : DeleteSession(s)

Spec == Init /\ [][Next]_vars

-----------------------------------------------------------------------------
(* Properties *)

\* The ids that a step is about to follow have been minted.
Minted == {e \in Execs : exec[e].status # "unborn"}
IdsMinted ==
    /\ \A r \in Runs : pc[r] # "unborn" => attempt[r] \in Minted
    /\ \A c \in Calls :
        /\ call[c].stage # "unborn" => call[c].run \in Runs
        /\ call[c].stage \in {"created", "opening", "finishing", "closing"}
              => call[c].kind = "delegation"
        /\ /\ call[c].kind = "delegation"
           /\ call[c].stage \notin {"unborn", "creating", "created", "abandoned"}
           => call[c].child \in Minted

\* Every variable stays in its type, and no step follows an id of nothing.
TypeOK ==
    /\ session \in [Sessions -> {"live", "expired", "kept"} \union Deleted]
    /\ runSession \in [Runs -> Sessions \union {NoSession}]
    /\ pc \in [Runs -> {"unborn", "starting", "started", "active", "attempt_closing",
                        "answered", "retry_opening", "completing", "done"}]
    /\ alive \in [Runs -> BOOLEAN]
    /\ outcome \in [Runs -> RunStatus]
    /\ stack \in [Runs -> Seq(Execs)]
    /\ attempt \in [Runs -> Execs \union {NoExec}]
    /\ exec \in [Execs -> ExecutionRecord]
    /\ call \in [Calls -> ToolCallRecord]
    /\ runRow \in [Runs -> RunStatus \union {"none"}]
    /\ execRow \in [Execs -> RunStatus \union {"none"}]
    /\ callRow \in [Calls -> CallStatus \union {"none"}]
    /\ evidence \subseteq Calls
    /\ checkpoints \in [Runs -> Seq(RunStatus)]
    /\ claimRow \in [Runs -> {"none", "linked", "unlinked"}]
    /\ lost \in 0 .. MaxLost
    /\ IdsMinted

\* A run that rehydrate_run calls resumable has no recorded tool call whose
\* function may have taken effect without its end being known: whatever order
\* the hooks, the lost writes and the kill came in, a row that was written
\* before the function ran blocks the verdict until the call has settled.
RecordedCallBlocksResume ==
    \A r \in Runs : Resumable(r) =>
        \A c \in Calls : call[c].run = r /\ callRow[c] # "none"
                         => call[c].stage \notin Unsettled

\* With no write lost, a run that came to its end is never judged resumable,
\* neither after its worker returned nor when it was killed between the runs
\* row and the terminal checkpoint.
FinishedRunNotResumable ==
    \A r \in Runs : lost = 0 /\ pc[r] \in {"completing", "done"} => ~Resumable(r)

\* A row never claims an end the process has not reached: a terminal status is
\* the one in memory, and a tool call is terminal exactly when it has evidence
\* ("a completed-but-evidence-less ToolCall ... can never happen").
DurableNeverAhead ==
    /\ \A r \in Runs : runRow[r] \in {"ok", "failed"} => runRow[r] = outcome[r]
    /\ \A e \in Execs : execRow[e] \in {"ok", "failed"} => execRow[e] = exec[e].status
    /\ \A c \in Calls : callRow[c] \in {"ok", "error"} => callRow[c] = call[c].status
    /\ evidence = {c \in Calls : callRow[c] \in {"ok", "error"}}

\* Nothing is left or comes back under a session that is gone: late writes of
\* a worker that outlives its session leave no row.
NoRowsUnderDeletedSession ==
    \A r \in Runs : runSession[r] # NoSession /\ session[runSession[r]] \in Deleted =>
        /\ runRow[r] = "none" /\ checkpoints[r] = <<>> /\ claimRow[r] = "none"
        /\ \A e \in Execs : exec[e].run = r => execRow[e] = "none"
        /\ \A c \in Calls : call[c].run = r => callRow[c] = "none"

\* The sweep takes a session only when every run started for it had either not
\* begun to be recorded or completed its runs row, dead or alive; a run can
\* lose its tree to the sweep in mid-flight only after a lost write.
SweepSparesUnfinishedRuns ==
    [][\A s \in Sessions, r \in Runs :
         /\ session[s] # "swept" /\ session'[s] = "swept"
         /\ runSession[r] = s /\ lost = 0
         => pc[r] \in {"unborn", "starting", "completing", "done"}]_vars

\* rehydrate_run's rule 4 as its docstring states it, for the calls a model
\* makes: any one whose effect is unknown makes the run non-resumable, here
\* with no write lost.  The code keeps it only for calls that have a row.
EveryCallBlocksResume ==
    \A r \in Runs : Resumable(r) /\ lost = 0 =>
        \A c \in Calls : call[c].run = r /\ call[c].kind # "comparison"
                         => call[c].stage \notin Unsettled

\* The comparison is bracketed with a durable call so that the claim reconciled
\* with it links to real evidence; with no write lost every claim should.
ReconciledClaimHasEvidence ==
    lost = 0 => \A r \in Runs : claimRow[r] # "unlinked"
=============================================================================

# A verification development for agno-hive

agno-hive runs teams of language-model agents against a code base. Most of its
text is prompts and heuristics; what can be specified is the machinery around
them: what a run records and what may be concluded from the record, who may
advance a run, how an answer is guarded on its way out, how the coordinator's
delegations and the members' reads are counted and answered, how sessions, worker
processes, staged edits, external actions and shell jobs are kept and dropped. The
modules here model that machinery from the source, TLC checks them on small
instances, and TLAPS proves the most important results for all instances.

## 1. Inventory

| part | state | operations | hard because of | correct when |
|---|---|---|---|---|
| durable execution record: `swarm/execution_store.py`, `swarm/execution_context.py`, the hook and the outer `finally` of `swarm/team.py` | `RunContext` in memory (executions, a stack of the open ones, tool calls); rows of `runs`, `executions`, `tool_calls`, `evidence`, `claims`, `checkpoints` | start/finish of executions and calls, one `persist_*` after each; `rehydrate_run` | calls interleave at every await and share the stack; every write is fail-open; SIGKILL at any step; foreign keys | rows are never ahead of the run; an unknown effect blocks resumption; a finished run is not resumed |
| run ownership: the same file, 1325-1516 | `owner_worker_id`, `owner_lease_expires_at` | acquire/renew, release | late execution, lost answers, death of the owner, an expiry computed by the caller | one worker at a time is entitled |
| chat sessions: `swarm/sessions.py`, its endpoints in `api/server.py` | `chat_sessions`, `session_messages` as a tree | append, branch, fork, compact, handoff, delete | every call is several transactions; concurrent appends, failed appends, a compaction that takes two minutes | history stays linear, forks in order, digests cover what they say, nothing crosses projects |
| outcome handoff: `swarm/outcomes.py`, drain loop of `api/server.py`, `record_success` of `swarm/feedback.py` | `task_outcome_queue`, documents of LightRAG | publish, claim, record, mark, requeue | copies of rows go stale, crashes between index and row, swallowed failures | what is lost is known and bounded; what is queued settles |
| run supervision: `api/server.py`, the snapshot of the heartbeat | `_ACTIVE_WORKERS`, liveness files, the worker process | spawn, poll, kill, salvage, retry once, cancel, disconnect | the death of a process races its answer; process ids are used again | no worker outlives its request, drafts on disk reach their caller, a stalled worker is ended |
| guards on the answer: `_verified_answer` and what follows it in `swarm/team.py` | the text and what is known of it, flags on the team | two dozen guards that may rerun the team, notices, corrections, a last check | a verdict is of one text and the text is replaced; flags outlive the pass that set them; any guard may raise | what is delivered has been verified or says that it has not; cut texts are marked |
| delegations: the gate and the chunk hooks of `swarm/team.py` | the log of delegations, queues of pending entries, generations | serve, stop, redirect, run, capture, forward | the calls of one reply run at once; entries of calls that never ran stay pending | a run's text is filed under its own entry; what is forwarded is not stale |
| reads of the members: `_read_cache_tool_hook` and the count guard of `swarm/team.py` | cache, serve counts per generation, budgets, streaks | serve, stub, refuse, read and charge | checked before an await and charged after it; counters of several scopes | a stub stands for what the run has; reads stay bounded; refusals end |
| verification swap and edit tools: `hive-mcp/tools/verification.py`, `files.py`, `cli/hive` confirm/reject | three directory entries per file, `_target_locks` | materialise and restore, `apply_diff`, `write_file`, confirm, reject | threads of a pool, renames that fail, a crash in the middle, a human | the original and the staged edits survive; every verification ends |
| staged external actions: `hive-mcp/tools/integrations`, routes of `hive-mcp/main.py`, the prompt of `cli/hive` | one JSON file per action, a page of blocks | stage, confirm, reject, `replace_section` in several requests | confirm executes before it unlinks; a request fails half way | one prompt executes an action; the section is never lost |
| shell sessions: `hive-mcp/tools/bash.py` | `_sessions`, `_jobs`, one thread per job, the reaper | start, run, poll, kill, close, reap, `cleanup_all` | objects used after they left the table, several threads settle one job | limits hold; nothing runs out of reach; slots come back |
| claim promotion: `execution_store.py` 530-700 | `project_memory_promotions` | promote, after `/feedback` | two concurrent ratings | decided by the unique constraint of the table; not modelled |
| everything else (routing, team configuration, read-only tools, indexer, LightRAG wrapper, telemetry, training, migrations, deployment) | caches, files | | | not modelled, see section 7 |

The parts meet as follows. The server spawns a worker per run and may SIGKILL it;
the worker writes the execution record and runs the team; the coordinator delegates
through the gate, members read through the cache, and the text that comes out goes
through the guards. A session owns runs, and deleting it cascades over the record. A
rating of an answer publishes to the outcome queue, which the server's drain loop
empties into LightRAG. Tool calls reach hive-mcp, a separate process that owns the
shell tables, the staged edits and the staged actions; the human's `cli/hive` acts on
the staged files directly and asks hive-mcp to execute the actions.

`PROJECT.json` lists the hazards of this code at their lines, with the properties
that would catch them.

## 2. Modules

| module | models | abstract specification or proofs |
|---|---|---|
| `ExecutionStore` | the run of a worker, its record, the session sweep | `ExecutionStoreProofs` |
| `RunOwnership` | the lease on a run | implements `ExclusiveHolder`, something at most one process holds; `DatabaseProofs` |
| `OutcomeQueue` | publishers, queue, drain loop, index | `DatabaseProofs` |
| `VerifySwap` | verifications, edits, the human, over the directory entries | `VerifySwapProofs` |
| `BashSessions` | pool threads, reapers, pumps, tables, shutdown | `BashSessionsProofs` |
| `SessionTree` | the tree of messages under the calls of several clients | `SessionTreeProofs` |
| `WorkerSupervisor` | handlers, worker processes, snapshot files | `WorkerSupervisorProofs` |
| `AnswerGuards` | the way of one answer through the guards | `TeamProofs` |
| `DelegationGate` | the calls of a coordinator, runs of members, what comes back | `TeamProofs` |
| `ReadCache` | the reads of members, cache, budgets, the count guard | `TeamProofs` |
| `StagedActions` | prompts, tools, the routes, a page that is edited | `StagedActionsProofs` |
| `MC...` | instances of the above, with their `.cfg` files | |

An operator whose name begins with `Bug` is a plausible slip in the definition it
stands before. No specification uses one; they say what each property would catch.
Modules whose theorems share a module carry the name of their component in `QueueSpec`,
`ReadSpec` and `AnswerSpec` and in what those are made of; elsewhere it is `Spec`.

### ExecutionStore

`exec`, `call` and `stack` are `RunContext`; `runRow`, `execRow`, `callRow`,
`evidence`, `checkpoints` and `claimRow` are the tables, reduced to the columns a
verdict depends on. `pc` is the place of the worker in `run_task_async`; the
`stage` of a call is the place of its hook. One action stands for the code between
two awaits, so that every order of the hooks of concurrent calls is a behaviour.
`Write` is `guard` plus the `try` of each `persist_*`: the transaction lands, or it
does not and the worker goes on. Foreign keys are the conditions on the rows of the
parents. `Kill` may come at any step and leaves the rows. `Resumable` is the verdict
of `rehydrate_run`, read from the rows alone.

A hook may end without its completion being recorded (`"abandoned"`): a
cancellation that arrives during the first write leaves the hook before its `try`.
`CleanupExpired` deletes in one step what its EXISTS selects; under READ COMMITTED a
run inserted between the two would be swept, which is not modelled.

### RunOwnership

A call has three moments: the expiry is computed (`RequestAcquire`), the UPDATE is
executed (`ExecuteAcquire`, with `func.now()` anywhere since the request), and the
answer arrives or does not. `told` is what a worker may act on. One clock is assumed
for workers and database, as the code does.

### OutcomeQueue

`batch` holds the copies the loop works on; a publish changes the row under it.
`docs` is what LightRAG holds; a duplicate insert returns normally and adds nothing.
`loss` is a history that names the two known ways an answer misses the index; the
invariant says there is no third. `OldestPending` is what `claim_pending` may select: up
to a batch of pending rows, in order, none left out but for older ones.

### VerifySwap

A directory entry holds a set of edits, or nothing; each rename, read and write is a
step. `apply_diff` reads the staged file or the target and writes the staged file;
`write_file` builds on nothing and may begin a file that does not exist (`MayBeNew`).
`disturbed` names the files for which a rename failed, the process died with
the original set aside, or the human acted while the file was locked: no lock
protects against those. An edit is `crossed` when anything else worked on its file
between its read and its write: two `apply_diff` on one file, one and a swap, or one
and the two steps of the human's decision. What `write_file` replaces as a whole is
rewritten, and the edits it drops are no longer owed.
`OriginalKept` and `StagedEditsKept` are about everything else.

### BashSessions

Each step is one hold of one lock by one thread. A thread keeps the session or job
it has looked up after the entry has gone. `stray` is the history of the jobs that
are allowed to outlive their session: those started after it had been closed, and
those of sessions the reaper or `cleanup_all` removed, which the code leaves to
their own timeout. Blocking commands leave nothing in the tables and are left out,
with the cwd they may change. `Users` bounds which threads close, run and kill, so that
the liveness run can have two reapers; the safety run lets all of them.

### SessionTree

A message is its position in `messages`, with its parent, its session and whose text it
is. Each transaction of `sessions.py` is a step: an append reads the leaf in one and
inserts and moves the leaf in another, a fork copies one message at a time, a compaction
reads the session, then the messages, then waits for a model, then overwrites the column.
Ids, creation times and commits are taken as one order (section 6 says where the code's
may differ). `BranchOf` is the recursive walk of the two recursive CTEs, as a function;
what is to be compacted is a set of positions. What lies between is open to every other
call, to a deletion and to compactions that run in the background. `raced` and `branched`
name the sessions in which a message was hung under a leaf another append had moved, or
`/branch` was used: the promise of a linear history excludes them.

### WorkerSupervisor

A handler is at a place of `_run_worker_subprocess` (the drain of the payload, its poll
loop, the look at the snapshot, a repair, a retry inside the frame of the first attempt)
or of `_stream_worker_subprocess`; a worker reads its payload, drafts, ticks, and ends or
hangs. The drain stands before the `try`: it may return once the pipe has room, it raises
when the worker dies unfed (`FeedFails`), and a handler cancelled in it leaves the worker
to itself (`FeedCancelled`, `Abandoned`). `active` and
`snap` are keyed by process id, as in the code, and an id is used again as soon as
its process has been waited for. `SnapshotAges` is the passing of more time than a
tier allows. At the start every id has a file that an earlier server left.

### AnswerGuards

One action per guard, in the order of the code; `at` is the guard the run has come
to. A pass of the team is one of a few outcomes: an answer, the sentinel of an empty
one, the canned apology, an exception; cut short or not, with a file written or not,
naming things that exist or not. Whether a guard finds its fault in a text is left
open, so every combination of guards that fire is a behaviour; what is kept exactly
is what each adopts, flags, resets and appends. `Dispose` verifies a replaced text again;
`Unlisted` is its branch for a bad report of which it recognises no line, which returns
the text with the notice of the verdict up front, if there was one. `GuardRaises` may come
anywhere.

### DelegationGate

The calls of one reply come to the gate in any order, and between the gate and the
run lies an await. `entry`, `log`, `member.queue` and `table` are the records the
result of a run is filed by; `generation` and `captured` are what
`forward_member_answer` compares. A text is the set of calls whose runs wrote it, so
that a mixture is visible. `mixed` and `crowded` name calls and members that were not
alone: the chunk buffer of a member is shared by its runs, and the properties
exclude those. `BrokenOff` is a stream that is closed before its end (a stall guard, a
failed run, no event for too long): every call under way is cut off, its entry stays
pending, and the chunks of its member stay where they are. Tasks are records of what the
gate compares.

### ReadCache

The part of the hook before the tool is awaited is one step, the part after it
another. `serves` is the count per member, generation and key; `agent` holds what is
counted per member; `run` holds what agno counts anew per run, and what the run has
been given, which the code does not know and the properties need. `Collapsed` and
`Redirected` are the calls that are answered before the guard could count them: one that
has failed `MaxFailures` times with the same arguments, and a browse of a member of
`SearchFirst` that has not searched. `floor` is the content a
failed edit of this run demands; `nth` tells two identical reads of one reply
apart. Counters stop where one more would make no difference. The bound on the budget is
stated per size of a read; that counted runs are not refused needs a reserve that a reply
fits into and that is below the limit.

### StagedActions

A page is a sequence of blocks with ids, each a piece of the text of one caller, and each
request of `replace_section` is a step: read, insert, delete the old blocks one by one.
The next batch goes after the last object the answer to a request names; `Chained` says
which that may be: the block just inserted, or, as the code's own comment has it, another
one, or none, so that it stays what it was. `strayed` names the executions to which that
happened. A text is whole when all its pieces are on the page, and in its place when they
are in order and before what follows the section. A request may fail with or without
effect, and the server may die. The two routes never await while they execute, so they
take turns (`LoopFree`); tools run on threads and do not. `cut` names executions that did
not come to the end of `confirm_action`.

## 3. Runs

The listed runs, each of which passes:

| run | instance | properties |
|---|---|---|
| `execution_store` | 1 run, 3 executions, 2 calls, 1 session, 1 lost write, symmetric | `RecordedCallBlocksResume`, `FinishedRunNotResumable`, `DurableNeverAhead`, `NoRowsUnderDeletedSession`, `SweepSparesUnfinishedRuns` |
| `run_ownership` | 2 workers of the project, 1 of another, a clock of two leases and more | `EntitledIsOwner`; `ExclusiveLease`: the lease implements `ExclusiveHolder` |
| `outcome_queue` | 2 tasks, 3 answers, 2 publishers, 1 crash, 1 index fault, 2 database faults | `OnlyKnownLosses`, `StaleDocsBounded`, `PendingSettles` |
| `verify_swap` | 2 files, 2 verifications, 2 edits, a decision, a fault | `OriginalKept`, `StagedEditsKept`, `VerificationsFinish` |
| `bash_sessions` | 2 threads, 2 reapers, 2 sessions and 2 jobs against limits of 1, symmetric | `NoProcessForgotten`, `ClosedSessionJobsEnd`, `FirstOutcomeWins` |
| `bash_slots` | 2 threads, one of which closes, runs and kills, 2 reapers, 2 sessions, 1 job, limits of 2 and 1, any number of polls | `SlotsComeBack` |
| `session_tree` | 2 calls, one of them streamed, 3 sessions of 2 projects, 2 of them with a turn, window 1, threshold 3, 1 failing transaction | `LinearHistory`, `ForkKeepsOrder`, `NoContentCrossesProjects`, `DigestCoversThrough` |
| `worker_supervisor` | 2 requests over 2 process ids, 1 retry, cancelled anywhere | `NoWorkerLeftBehind`, `DraftsReachTheirCaller`, `Listed`, `StalledWorkersEnd` |
| `answer_guards` | no constants: every way of one answer | `NothingUnverifiedGoesUntold`, `InventedNeverShipsClean`, `CutTextIsMarked`, `WritesAreReported` |
| `delegation_gate` | 1 member, 4 tasks, 3 calls, limits of 2, 2 and 1, streams that break off | `OwnTextInOwnEntry`, `ForwardedIsNotStale` |
| `read_cache` | 1 member, 2 keys, 2 delegations, to it or to everybody, replies of up to 2 calls, 4 tool calls per run, 2 failures before a collapse | `StubsStandForWhatTheRunHas`, `ReadsStayBounded`, `RefusalsEnd`, `CountedRunsAreNotRefused` |
| `staged_actions` | 2 prompts, 1 tool call, 2 actions, one of them headed, texts of 2 requests, 1 request that fails or is answered oddly, 1 death, with and without review, symmetric | `SomeTextIsThere`, `ReplacedIsThere`, `ConfirmedOnce` |

Every module has one type invariant (`TypeOK`, `QueueTypeOK`, `ReadTypeOK`,
`AnswerTypeOK`). Two runs list it, because there it says more than types: that of
`ExecutionStore` that an execution nobody started has no trace, that of `BashSessions`
that the limits on sessions and jobs hold. The others hold on the same instances: put it
under `INVARIANTS`.

More configurations, to be run by hand with `tlc -config X.cfg M`. Each of the
first group violates its property and shows a disagreement of section 6:

| configuration | violated | shows |
|---|---|---|
| `MCExecutionStore_resume` | `EveryCallBlocksResume` | a call without a row, and a run called resumable |
| `MCExecutionStore_claim` | `ReconciledClaimHasEvidence` | a claim without evidence |
| `MCOutcomeQueue_swallowed` | `DoneIsIndexed` | a row marked done and nothing indexed |
| `MCOutcomeQueue_stranded` | `EveryPendingSettles` | the drain task over for good |
| `MCVerifySwap_alias` | `VerificationsFinish` | a call that waits for itself |
| `MCVerifySwap_leftover` | `StaleBackupStopsChecks` | checks over a leftover backup |
| `MCVerifySwap_newfile` | `StagedIsVerifiable` | a new staged file that cannot be verified |
| `MCAnswerGuards_lost` | `DraftIsNeverLost` | an answer replaced by the sentinel of an empty one |
| `MCDelegationGate_forward` | `NotYetMeansRunning` | an answer that can no longer be forwarded though nothing runs |
| `MCDelegationGate_served` | `ServedIsTheAnswer` | the text of another task served |
| `MCReadCache_twowords` | `NewDelegationsGetTheText` | a stub for a text the run never had |
| `MCStagedActions_told` | `RejectedIsNotDone` | "no action taken" about an action that is executed |

The second group passes, on other instances: `MCVerifySwap_new` (one of the files
does not exist yet), `MCReadCache_pair` (2 members and the cap on recalls),
`MCStagedActions_tools` (1 prompt and 2 tool calls, symmetric, about four minutes).

Why these bounds are enough for what the runs ask.

  - Three executions are a root, a retry or a delegation, and one more delegation;
    two calls are what an interleaving of hooks needs, and what the parent of a row
    can go wrong with. Runs share nothing but the session, so one run suffices; the
    theorems cover any number.
  - Two tasks make rows queue behind each other, two publishers collide on one key.
  - Two verifications and two files are the smallest instance of lock order; two
    edits the smallest in which one may lose the other.
  - Two reapers and two threads are the most that meet over one job in any two-step
    race; a session is closed and another opened in the freed slot. For the slots, two
    sessions let one be closed while a reaper has it on its list and the other's job is
    to be removed: the `KeyError` that stops a sweep comes up, and both reapers are in
    one sweep. One thread starts sessions (and so the second reaper), the other does
    everything; one job is enough, since the claim is about each job.
  - Two calls are what a race over the leaf, the column or a deletion takes. The third
    session is what a fork makes, the second project what an id must not lead to.
  - Two requests over two process ids: an id is freed by one and taken by the other,
    while the first is still inside the frame of its dead first attempt, or while a worker
    that was abandoned in its drain still holds the other.
  - One member, since members share no entry, queue or buffer; three calls are one
    that leaves its entry pending, one that repeats it and one that comes between.
    Four tasks differ in each thing the gate compares. A break-off costs no bound: it ends
    a reply, and the calls are bounded.
  - In `read_cache` the limits are the smallest that leave room on both sides of each,
    and the guard, with a reserve of 1, must act within replies of 2. Overlapping runs
    of one member are left out of this instance (`Overlaps`), because each property
    excepts them. Of the calls that fail, one per member is followed (`failing`).
  - Two prompts and a tool call are the three ways two executions of an action can
    meet; two requests per text make a text that is half there, and one answer that names
    another block is enough to send the second half astray.

Symmetry is used in safety runs only. Deadlock is not checked where the system may
stop: a run that is over, an answer that is delivered, a queue with no more publishes,
requests, calls or verifications whose bound is spent, a server that has exited.

## 4. Fairness

`OutcomeQueue`: the loop's own steps (an asyncio task that is never cancelled), the
restart of a dead server (it runs under a supervisor) and the passing of time. No
fairness for publishes, faults or crashes. `VerifySwap`: each thread in a
verification; a check ends because `run_command` has a timeout. No fairness for the
human, edits or faults. `BashSessions`: each pool thread in a call, each reaper, and
time for jobs; none for the end of a command, which may hang, nor for polls or
shutdown. A poll puts the expiry of a settled job off, so that `SlotsComeBack` says of
each job that its slot comes back or it is polled without end.
`WorkerSupervisor`: the handlers, which the event loop of the server runs
on; none for workers, which may hang, for clients or for cancellations. A drain is sure to
return only when the worker has read its payload or has died: before that the pipe may be
full, and `Fed` has no fairness.
`StalledWorkersEnd` speaks of a snapshot that has aged for good, so that the passing
of time needs none. The other modules state safety only, and no fairness.

## 5. Proofs

All proofs are checked by TLAPS for any sessions, runs, executions, calls, workers,
tasks, publishers, members, keys, prompts and bounds that satisfy the assumptions in the
modules (the "no value" constants lie outside their sets, bounds are naturals). There are
eight proof modules; `DatabaseProofs` is about `RunOwnership` and `OutcomeQueue`,
`TeamProofs` about `DelegationGate`, `ReadCache` and `AnswerGuards`.

`ExecutionStoreProofs`. `TypeOK` is inductive by itself, with `IdsMinted`: no step
follows the id of an execution that was not minted. None of the other properties
is inductive: a row could claim anything if it were not tied to the object it
mirrors and to how far the run or the hook has got. `IInv` adds those ties, one
named part each:

  - `Ownership`: whatever is on a run's stack, its current attempt, the execution
    and the child of each of its calls are executions of that run; an attempt is
    never a delegation, and no two calls share a child. (Without it a hook could
    settle the execution of another.)
  - `RunProgress`: the runs row is not terminal before `persist_run_completed`, and
    with no write lost it is there and running until then, and terminal after.
  - `ExecProgress`: an open attempt and an open delegation are running in memory, a
    terminal row repeats the status in memory.
  - `CallProgress`: what a hook's stage says of its row; a row has an execution;
    evidence is exactly the terminal rows.
  - `NoRowsUnderDeletedSession`: inductive with the rest.

`Inductive` proves `Spec => []IInv`, one step per action and under it one per
conjunct the action can disturb. From it:

  - `UnsettledCallsBlockResume`: a recorded call whose function may have run and is
    not settled makes the run non-resumable.
  - `FinishedRunsStayFinished`, `SweepIsSafe`: with no write lost.
  - `DurableRowsNeverAhead`, `DeletedSessionsStayEmpty`: without exception.

`DatabaseProofs`, of the lease. `TypeOK` includes that no claim, stored or in flight, reaches
further than one lease from now. `OwnershipInv` adds that a worker that asked to
release no longer counts as told: without it, a release in flight could empty the
row under a worker that still acts. `ExclusiveEntitlement` (`OneEntitled` and
`EntitledIsOwner`) follows, and `LeaseImplementsLock`: every step of the row maps to a
grant, a relinquishment or a stutter of `ExclusiveHolder`. That a lease was told to
at most the owner of the row holds although the expiry is computed before the
statement is executed, because a late expiry only shortens the lease.

`DatabaseProofs`, of the outcomes. `OnlyKnownLosses` speaks of a row that says done, and a
row is marked done from a copy; so `QueueInv` says what a copy is worth. `Rows`: a row
that is to be drained has attempts left, and an update is of a row that is there, since
none is ever removed. `Copies`: the copies are of different rows, and a row still says
what its copy says unless it was overtaken. `Paths`: no two documents share a path, and
what a row or the loop has noted as a path is of no other task. `Marked`: what is about to
be marked as done is in the index, or its loss is recorded. That `claim_pending` selects
different rows is what makes the copies different. `LossesAreKnown` follows.
`StaleDocsAreFew` (`StaleDocsBounded`) needs `FewStale`: of the documents of a task all
but the one its row names, or is about to name, were left there by a fault, and there are
no more of them than faults; during an insertion that holds of all documents of the task,
because the old one has just been deleted, or its deletion failed and is counted.

`TeamProofs`, of the gate. `Shape` is what the steps are computed from.
`ForwardedNotStale` needs `StaleInv`: the generation an answer was captured in is never
ahead of the member's, and a member that is not crowded has at most one call under way,
whose generation began after that capture; it says nothing of the text. `OwnTextFiled`
needs `OwnInv`: an entry claimed for a run is the entry of that run (`Attributed`), and a
call that is not mixed shares the member's buffer with nothing but runs that were cut off
(`Alone`). That those stay cut off is what keeps an entry that has been filed as it should
be (`FiledStays`, `NothingFiled`). The queues of pending entries are not part of the
invariant: a run whose run id the gate has made never looks there, which is what the proof
shows.

`TeamProofs`, of the reads. Each step of a run writes its own record, the agent of its
member and its own calls, and each invariant is about one run and its member, so that one
record of what a step may write (`OneRun`) and one frame lemma per invariant settle what it
leaves to the others. `Core` is the types with the bounds they need: `Sound` (what a
run has under way is not more than it has asked for) and `Single` (runs of one member that
overlap are not `plain`). On it rest four:

  - `Charging`, for `ReadsStayBounded`: a member is within its budget and waits for nothing,
    or there is one key, no smaller than any it waits for, whose reads all fit into
    a reply. The largest key must be chosen anew when a larger one is asked for, which
    is why the bound names a size and not a key.
  - `Turned`, for `RefusalsEnd`: the stubs and refusals in a row are no more than the two
    counters of the member have seen, unless it has lost its tools already.
  - `Counting`, for `CountedRunsAreNotRefused`: the guard has counted each call of a first
    run of which none was answered before it (`unseen`), and the call that reached the
    threshold has fired it or is on its way. That the reserve holds a whole reply and is
    below the limit is a hypothesis of the property; the code's reserve of 4 does for
    replies of up to 5 calls.
  - `Serving`, for `StubsStandForWhatTheRunHas`: what has been counted as served in the
    generation a run began, the run has, unless an edit of it has failed; what is kept
    and what is on its way is no older than that edit; a generation that has not begun
    has served nothing (`Later`).

The theorems: `ReadsTypeCorrect`, `ReadsAreBounded`, `RefusalsComeToAnEnd`,
`CountedRunsGoOn`, `StubsAreHonest`. They hold with overlapping runs as well,
which the listed run leaves out.

`TeamProofs`, of the answer. `GuardsInv` is what the way through the guards must carry so
that its end is as it should be. `Marks`: once the completion has been at it, a cut text
is marked. `Vouched`: what `verify_claims` is remembered to have said of a text, it said
of the text there is now, although retries have replaced the draft since it was asked;
this is what a guard would break that changed the text and left the verdict. The return by
`Unlisted` has an alternative of its own in `GuardReturns`. `Unasked`: nothing is
remembered before it was asked, nor after `_verified_answer` has returned. `Accounts`:
what leaves has the report of the writes. `Drafts`: while a guard may raise, the caller
still has a text to go on with. A guard that stays needs `GuardsGoOn`, one that returns
`GuardReturns`, a correction after the return `BeyondKeeps`; the theorems are
`AnswersTypeCorrect`, `UnverifiedIsTold`, `CutIsMarked`, `WritesReported`, and
`InventedIsHeaded`, for which it is enough that nothing but the last enforcement of the
invariant hands a text over. This module has no constants, and its run visits every state
there is: what the proof adds is why.

`VerifySwapProofs`. `VerifyInv` ties the three directory entries of a file to the call
that is in the middle of swapping it. `LocksOK`: a call swaps each file once, only files
it has locked, and a lock has the holder that lists it, so that a file is in at most one
swap. `FilesInv`: a file that has left its place has a backup (`BackedUp`); unless it is
`disturbed`, what waits for the swap is still staged, what is shown is at the target
(`StagedIsThere`), and the source is at the backup of a file that is being swapped, at
the target of any other (`SourceInPlace`). `AllCarried`: an edit that nothing crossed is
in everything that may become the content of its file, which is what is staged, the
target that will be put back as staged, what another edit starts from, and what the user
is about to confirm. `UserWrote` is the state between the two steps of a confirmation.
From it follow `LocksAndTypes`, `SourceIsRestored` (`OriginalKept`) and `EditsAreKept`
(`StagedEditsKept`). A first attempt at the last failed for a reason: the model did
not say which edits a whole write replaces, nor count the steps of the human as work on
the file. It does now, and `StagedEditsKept` says more than before.

`BashSessionsProofs`. `TypesHold` is `TypeOK`, with the limits on sessions and jobs; its
induction needs that the tables are finite, though ids without end may be minted.
`FirstOutcomeStands` is the action property `FirstOutcomeWins`: whoever settles a job
first decides its outcome. `ReachInv` says where a process may be found: a job whose
process lives is in the table, or somebody who has taken it out is about to kill it
(`RunningInReach`, `CloseKills`, `CleanupIdle`), a settled job's process is about to be
killed by the thread that settled it (`KilledSoon`), what is being removed is settled
(`RemoveSettled`), and a closed session has no running job outside `stray`
(`ClosedEnd`). `ProcessesInReach` and `ClosedSessionsEnd` follow.

`SessionTreeProofs`. `SessionInv` = `TypeOK`, `Homes` (a message is of the project of its
session, the leaf of a session is its own), `CallsOK` (what a call holds between two
transactions), `LinearHistory`, `CopiesOK` (a fork under way has copied a beginning of its
source) and `DigestOK`. Each of the last three is shown to be kept from `Grows`, that
the messages there are and the project of a session never change. What would
ordinarily be an induction over data is obtained otherwise: a set of naturals has a
least element (`LeastNumber`), by the library's theorem that inclusion of finite sets
is well-founded; that the recursive `BranchOf` exists (`WalkStep`), stays in its session,
and is the same walk before and after a step, each by the least position where it would
fail. The theorems: `SessionsHold`, `HistoryIsLinear`, `ForksAreInOrder`,
`ProjectsAreApart`, `DigestsAreComplete`.

`WorkerSupervisorProofs`. `SupervisorInv` has, for each request, `InTurn` (of its workers
only the current one holds a process, and only while the handler feeds it or waits, or has
abandoned it), `OwnFile` (what
a waiting handler finds under the id of its worker was written by that worker),
`MetDraft` (after a draft was seen there is no retry, and the file goes on showing one),
`OwnDraft` and `ListedOwn`; and in common that two processes do not share an id
(`OwnPids`) and that a file with a draft does not say nothing was produced
(`DraftIsNotBarren`). The excepted case, `SharesPid`, is carried in those parts that it
disturbs and no other. `NoneLeftBehind`, `DraftsArrive` and `WorkersAreListed` follow.

`StagedActionsProofs`. `ActionConfirmedOnce`: no two prompts bring an execution of one
action to its end. `Turns` says that a prompt that has executed is at it or is over,
and that one at a time is at it, because the routes hold the event loop; `Removed`
that a prompt whose execution came to its end has left no file, and that none comes
back. The file a prompt finds when it has its turn is therefore of an action that no
other has executed.

The texts on the page are held by `TextInv`. `PageInOrder`, `Stages`, `Pieces` and `Sights`
say what an execution at each of its stages has read, inserted and deleted, and where its
pieces stand unless it has strayed. The two
that matter are `OneIsLast`, that of any executions that have read the page there is one
whose text none of them has seen, and `TextsKept`, that an inserted piece is on the page
unless an execution whose own text is in has read it. Neither speaks of
time, and they are inductive because nobody has seen the text of an execution at the
moment it reads. `TextSurvives` (`SomeTextIsThere`): take the executions that are through
with inserting; the one that is last among them has its text on the page.
`ToldTextIsThere` (`ReplacedIsThere`): an execution alone is the last of itself, so it has
not seen its own text, and if no other has either, `TextsKept` leaves it on the page.

Every invariant and every action property of the runs is a theorem, and so is the
refinement of the lease. Only model-checked:

  - Liveness (`PendingSettles`, `VerificationsFinish`, `SlotsComeBack`,
    `StalledWorkersEnd`), which like ENABLED is out of the prover's reach.

No module has a RECURSIVE operator, and no proof is by induction over data: `BranchOf`,
the one recursive definition a theorem is about, is dealt with as said above.

## 6. Disagreements with the documentation

The quotes, with their lines, are in `PROJECT.json`. Those with a configuration of
section 3 are shown by it, a few more by a property that is violated when checked as an
invariant (named in brackets); the rest were met in translating the code.

Execution record, queue, verification:

  - `rehydrate_run` promises to refuse any run with a non-terminal tool call. A call
    attributed to a delegation that is still being recorded has no row, and the run
    is called resumable while the call's effect is unknown.
  - The claim of the completeness comparison should never be without evidence. The
    comparison is made after the root execution was closed, so it has no row.
  - The drain loop's failures are said to be logged and counted. Those inside
    `record_success` end as rows marked done. A failed row goes back to pending or to
    failed; when recording the failure fails too, the drain task is over.
  - Verifications lock in the order of resolved paths. They sort the spellings, and
    two spellings of one file make one call wait for itself. A leftover backup stops a
    verification only for targets with a staged edit.
  - A new file staged by `write_file` has no target to rename, and its verification
    is aborted. An edit staged while its file is swapped in is written to the name the
    restore renames the target to, and is gone.

Run supervision:

  - A client that leaves is said to have its worker killed, whatever becomes of the
    handler. The payload is drained before the `try`: a handler or a stream cancelled
    there leaves its worker running [`EveryWorkerIsKilled`].

Chat sessions:

  - Messages are said to be in the order of their ids, the times of their creation being
    arbitrary. A compaction sorts by the time of creation and compares ids. When two
    transactions overlap the two orders may differ; the model takes them as one, so no
    configuration shows this.

Swarm runtime:

  - An empty completion is said to keep the original answer. It reaches the adoption
    as the sentinel "(no response)", which is adopted.
  - The notice that no write "actually succeeded" looks at the writes of the pass the
    text comes from, not at those of the run [`NotAppliedIsTrue`].
  - The list of report lines the last guard recognises "should never decide whether to
    TELL". A text that was adopted after the first verdict and is found bad for a fault
    not on the list is delivered without a notice [`TheListNeverDecidesToTell`].
  - The second answer of a member is said never to be appended to its first. The chunks
    of a run on which the stream was closed stay, and are filed with the text of the
    next [`NothingOfTheFirstAnswer`].
  - A newer generation of a member is said to mean that a delegation has not finished.
    It also begins for calls the gate serves, stops or redirects.
  - The text served to a repeated task is said to be its answer. Without a result of its
    own the last text of the member is served.
  - The task is rewritten with carried findings before it is logged, and a repeat of it
    then looks novel, which the comment at that place warns of. The counter of repeats
    is shared by all tasks of a member and never reset.
  - A new delegation is said to begin a fresh bucket of serves. For a member whose name
    has two words it never does; a broadcast does only while it has the largest count.
  - The read budget is said to leave room for one read on top of itself. It is checked
    before an await and charged after it, for all the calls of a reply. The count
    guard is said to count every tool call. It is the innermost hook: cached reads, stubs,
    refusals, collapsed failures and redirected browses do not come to it.
  - `apply_diff` fails in three more ways than the cache knows, and a staged text is
    never served for the path it is staged for.

Staged actions:

  - The batches of a replacement are said to be chained after the last inserted block,
    which keeps their place. What is taken for that block is the last object of the
    answer, which by the comment next to it need not be one, or nothing when the answer
    has none [`TextIsInPlace`].
  - "No action taken" is printed for an action that was confirmed elsewhere.
  - "Confirm failed" is printed after 30 seconds, while the action is being executed
    [`FailedIsNotDone`].
  - A comment says that the file of a rejection stays, and the caller removes it. The
    file of an action that failed is removed as well, so it cannot be confirmed again.

What the properties except is behaviour of the code too, and worth a look: a cancelled
first attempt's process id removes the entry and the file of whoever has it by then
(`SharesPid`); two confirmations by an agent's tool and a prompt execute twice; an edit
that crosses another is lost (`crossed`); a member that is delegated to twice at once
mixes the texts of its runs (`mixed`, `crowded`); two appends at once fork the history
(`raced`); a text that is adopted by the repair of a term, a reconstruction or an
exception is not asked whether it was cut short (`via`); a worker that is being fed when
its handler is cancelled runs on (`Abandoned`); a text with a report the last guard does not
recognise goes out as it is (`unlisted`); what a cut-off run wrote is filed with the next
text (`CutOff`); and a replacement whose chaining went astray stands where it was put
(`strayed`).

## 7. Not modelled

Text: prompts, matching of diffs, what a guard looks for, rendering of reports.
Read-only tools. External services: language models, LightRAG beyond a set of
documents, notion beyond a page of blocks, the web. Configuration caches, telemetry,
training, migrations, deployment. Claim promotion: the unique constraint of its table
decides, and there is no protocol beyond it. More than one server process.

Within the modelled parts:

  - `ExecutionStore`: error messages, token counts, the content of evidence, resume
    preparation and validation. The code between the record of a call's result and the
    end of its hook (`team.py:24140-24214`) swallows its own exceptions, so
    that the except branch does not settle a call again.
  - `OutcomeQueue`: retrieval, rating, tuning candidates.
  - `VerifySwap`: the content of a check, the counters of failed edits, which choose the
    words of a refusal, and `run_command`.
  - `BashSessions`: output buffers, the cwd a blocking command leaves, the processes a
    killed shell leaves behind.
  - `SessionTree`: listing, titles, expiry (which is in `ExecutionStore`).
  - `WorkerSupervisor`: the thresholds of the tiers, the repair of a salvaged draft, the
    endpoints without a worker.
  - `AnswerGuards`: the streaming loop and its stall detection, the premise banner, count
    markers, notices of forwarded evidence.
  - `DelegationGate`: broadcasts, the stop on the token budget, redirects for
    clarification, the gate on decomposition.
  - `ReadCache`: ranges of a file, missing files, the streak of literal probes, the
    threshold on all stubs together, the coordinator's own reads; which searches count as
    having found something, on which the redirection of a browse depends, is left open.
  - `StagedActions`: the other writes of notion, each a single request or an append, the
    migration runner, an empty replacement.

## 8. Plan

Written so far, in this order: `ExecutionStore`, `RunOwnership`, `OutcomeQueue`,
`VerifySwap`, `BashSessions`, `SessionTree`, `WorkerSupervisor`, `AnswerGuards`,
`DelegationGate`, `ReadCache`, `StagedActions`. What could come next:

1. A refinement of the queue to an abstract at-least-once handoff, and of `SessionTree`
   to a log that only grows.
2. The composition of `WorkerSupervisor` with `ExecutionStore` through the kill; the cwd
   of `BashSessions`; broadcasts in `DelegationGate`.

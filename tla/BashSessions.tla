---------------------------- MODULE BashSessions -----------------------------
(***************************************************************************)
(* Shell sessions and background jobs of hive-mcp/tools/bash.py.           *)
(*                                                                         *)
(* Tool calls run on threads of a pool, next to one pump thread per job,   *)
(* the reaper (two of them when two first sessions start at once) and, at  *)
(* the end, cleanup_all.  They share the tables _sessions and _jobs under  *)
(* _state_lock and each job's status under the job's own lock; every step  *)
(* below is what one thread does under one hold of one lock, or a kill     *)
(* between two holds.  A thread goes on using a session or a job it has    *)
(* looked up after the entry has left the table.                           *)
(***************************************************************************)
EXTENDS Naturals, FiniteSets

CONSTANTS
    Sids, Jids,     \* ids bash_session_start and _start_background_job may mint
    Callers,        \* pool threads
    Users,          \* bound: those of them that do more than start sessions
    Reapers,        \* reaper threads that may come to exist
    NoSid, NoJid,
    MaxSessions,    \* HIVE_BASH_MAX_SESSIONS
    MaxJobs         \* HIVE_BASH_MAX_BACKGROUND_JOBS

ASSUME UsersAssumption == Users \subseteq Callers
ASSUME IdsAssumption == NoSid \notin Sids /\ NoJid \notin Jids
ASSUME LimitsAssumption == {MaxSessions, MaxJobs} \subseteq Nat

VARIABLES
    session,        \* of _sessions: "fresh" or, a TTL after its last use, "idle"
    jobs,           \* the keys of _jobs
    unpolled,       \* those started, or last polled, a TTL ago
    job,            \* every _Job ever made, in the table or not
    caller,         \* the tool call a pool thread is in
    reaper,         \* the reaper threads
    reaperStarted,  \* _REAPER_STARTED
    server,         \* "up", inside cleanup_all, between its runs, or "gone"
    cleanup,        \* cleanup_all's jobs_snapshot, what is left of it
    stray           \* history: jobs started after their session had left the table,
                    \* and those of sessions the reaper or cleanup_all removed

tables == <<session, jobs, unpolled>>
threads == <<caller, reaper, reaperStarted>>
process == <<server, cleanup>>
vars == <<tables, job, threads, process, stray>>

NoJob == [status |-> "unborn", alive |-> FALSE, sid |-> NoSid, overdue |-> FALSE]
NoCall == [pc |-> "free", sid |-> NoSid, jid |-> NoJid, todo |-> {}]
Asleep == [pc |-> "sleep", expired |-> {}, todo |-> {}, remove |-> {}]
Unstarted == [Asleep EXCEPT !.pc = "unstarted"]

Running(j) == job[j].status = "running"
\* A job that is settled can no longer time out.
SetStatus(j, status) == job' = [job EXCEPT ![j].status = status, ![j].overdue = FALSE]
\* proc.kill() followed by the death of the child
KillProcess(j) == job' = [job EXCEPT ![j].alive = FALSE]
Up == server # "gone"
Sessions == {s \in Sids : session[s] \in {"fresh", "idle"}}
Unregister(gone) == jobs' = jobs \ gone /\ unpolled' = unpolled \ gone
\* A session's jobs set, those of them that are still in the table
JobsOf(s) == {j \in jobs : job[j].sid = s}

Init ==
    /\ session = [s \in Sids |-> "unborn"] /\ jobs = {} /\ unpolled = {}
    /\ job = [j \in Jids |-> NoJob]
    /\ caller = [c \in Callers |-> NoCall]
    /\ reaper = [r \in Reapers |-> Unstarted]
    /\ reaperStarted = FALSE
    /\ server = "up" /\ cleanup = {}
    /\ stray = {}

At(c, point) == Up /\ caller[c].pc = point
Goto(c, point) == caller' = [caller EXCEPT ![c].pc = point]
Return(c) == caller' = [caller EXCEPT ![c] = NoCall]

-----------------------------------------------------------------------------
(* bash_session_start, and _ensure_reaper_started's unlocked test-and-set      *)

BugHasRoom(table, limit) == Cardinality(table) <= limit
HasRoom(table, limit) == Cardinality(table) < limit

StartSession(c, s) ==
    /\ At(c, "free") /\ server = "up"
    /\ session[s] = "unborn"
    /\ HasRoom(Sessions, MaxSessions)
    /\ session' = [session EXCEPT ![s] = "fresh"]
    /\ Goto(c, "ensure")
    /\ UNCHANGED <<jobs, unpolled, job, reaper, reaperStarted, process, stray>>

EnsureTest(c) ==
    /\ At(c, "ensure")
    /\ IF reaperStarted THEN Return(c) ELSE Goto(c, "spawn")
    /\ UNCHANGED <<tables, job, reaper, reaperStarted, process, stray>>

EnsureSpawn(c) ==
    /\ At(c, "spawn")
    /\ reaperStarted' = TRUE
    /\ \E r \in Reapers :
        /\ reaper[r].pc = "unstarted"
        /\ reaper' = [reaper EXCEPT ![r] = Asleep]
    /\ Return(c)
    /\ UNCHANGED <<tables, job, process, stray>>

-----------------------------------------------------------------------------
(* bash_run: a lookup, the touch of last_used_at, and for background=True the  *)
(* job.  Without it the command is run to its end and leaves nothing here.     *)

RunLookup(c, s) ==
    /\ At(c, "free") /\ server = "up"
    /\ s \in Sessions
    /\ caller' = [caller EXCEPT ![c] = [NoCall EXCEPT !.pc = "touch", !.sid = s]]
    /\ UNCHANGED <<tables, job, reaper, reaperStarted, process, stray>>

Touch(c) ==
    /\ At(c, "touch")
    /\ session' = [session EXCEPT ![caller[c].sid] = IF @ = "idle" THEN "fresh" ELSE @]
    /\ \/ Goto(c, "start")
       \/ Return(c)
    /\ UNCHANGED <<jobs, unpolled, job, reaper, reaperStarted, process, stray>>

\* _start_background_job: the cap, Popen and the registration under one hold
StartJob(c, j) ==
    LET s == caller[c].sid IN
    /\ At(c, "start")
    /\ job[j] = NoJob
    /\ HasRoom(jobs, MaxJobs)
    /\ jobs' = jobs \union {j}
    /\ job' = [job EXCEPT ![j] = [NoJob EXCEPT !.status = "running", !.alive = TRUE, !.sid = s]]
    /\ stray' = IF s \in Sessions THEN stray ELSE stray \union {j}
    /\ Return(c)
    /\ UNCHANGED <<session, unpolled, reaper, reaperStarted, process>>

\* At the cap, or Popen raises.
StartRefused(c) ==
    /\ At(c, "start")
    /\ Return(c)
    /\ UNCHANGED <<tables, job, reaper, reaperStarted, process, stray>>

\* The command ends by itself.
Exit(j) ==
    /\ job[j].alive
    /\ KillProcess(j)
    /\ UNCHANGED <<tables, threads, process, stray>>

\* _pump_job_output at the end of the output: the first outcome wins
BugPumpRecords(j) == ~job[j].alive
PumpRecords(j) == ~job[j].alive /\ Running(j)

Pump(j) ==
    /\ Up /\ job[j].status # "unborn"
    /\ PumpRecords(j)
    /\ SetStatus(j, "exited")
    /\ UNCHANGED <<tables, threads, process, stray>>

-----------------------------------------------------------------------------
(* bash_job_status, bash_job_kill                                            *)

Poll(j) ==
    /\ server = "up" /\ j \in jobs
    /\ unpolled' = unpolled \ {j}
    /\ UNCHANGED <<session, jobs, job, threads, process, stray>>

KillLookup(c, j) ==
    /\ At(c, "free") /\ server = "up"
    /\ j \in jobs
    /\ caller' = [caller EXCEPT ![c] = [NoCall EXCEPT !.pc = "mark", !.jid = j]]
    /\ UNCHANGED <<tables, job, reaper, reaperStarted, process, stray>>

KillMark(c) ==
    LET j == caller[c].jid IN
    /\ At(c, "mark")
    /\ IF Running(j)
       THEN SetStatus(j, "killed") /\ Goto(c, "kill")
       ELSE UNCHANGED job /\ Return(c)
    /\ UNCHANGED <<tables, reaper, reaperStarted, process, stray>>

Kill(c) ==
    /\ At(c, "kill")
    /\ KillProcess(caller[c].jid)
    /\ Return(c)
    /\ UNCHANGED <<tables, reaper, reaperStarted, process, stray>>

-----------------------------------------------------------------------------
(* bash_session_close: the session and its jobs leave the tables under one     *)
(* hold; then each job is marked and killed in turn.                          *)

BugPopped(s) == {j \in JobsOf(s) : ~Running(j)}
Popped(s) == JobsOf(s)

ClosePop(c, s) ==
    /\ At(c, "free") /\ server = "up"
    /\ s \in Sessions
    /\ session' = [session EXCEPT ![s] = "gone"]
    /\ Unregister(Popped(s))
    /\ caller' = [caller EXCEPT ![c] = [NoCall EXCEPT !.pc = "close", !.todo = Popped(s)]]
    /\ UNCHANGED <<job, reaper, reaperStarted, process, stray>>

CloseMark(c, j) ==
    /\ At(c, "close")
    /\ j \in caller[c].todo
    /\ IF Running(j)
       THEN /\ SetStatus(j, "killed")
            /\ caller' = [caller EXCEPT ![c].pc = "close_kill", ![c].jid = j]
       ELSE /\ UNCHANGED job
            /\ caller' = [caller EXCEPT ![c].todo = @ \ {j}]
    /\ UNCHANGED <<tables, reaper, reaperStarted, process, stray>>

CloseKill(c) ==
    LET j == caller[c].jid IN
    /\ At(c, "close_kill")
    /\ KillProcess(j)
    /\ caller' = [caller EXCEPT ![c].pc = "close", ![c].jid = NoJid, ![c].todo = @ \ {j}]
    /\ UNCHANGED <<tables, reaper, reaperStarted, process, stray>>

CloseReturn(c) ==
    /\ At(c, "close") /\ caller[c].todo = {}
    /\ Return(c)
    /\ UNCHANGED <<tables, job, reaper, reaperStarted, process, stray>>

-----------------------------------------------------------------------------
(* _reap_once: what is expired and what there is, under one hold; each job of  *)
(* that snapshot under its own lock; the removals under another hold          *)

ReapSnapshot(r) ==
    /\ Up /\ reaper[r].pc = "sleep"
    /\ reaper' = [reaper EXCEPT ![r] = [pc |-> "sweep", todo |-> jobs, remove |-> {},
                                        expired |-> {s \in Sids : session[s] = "idle"}]]
    /\ UNCHANGED <<tables, job, caller, reaperStarted, process, stray>>

BugRemovable(j) == j \in unpolled
BugRemovableExited(j) == job[j].status = "exited" /\ j \in unpolled
Removable(j) == ~Running(j) /\ j \in unpolled

ReapJob(r, j) ==
    /\ Up /\ reaper[r].pc = "sweep"
    /\ j \in reaper[r].todo
    /\ IF Running(j) /\ job[j].overdue
       THEN job' = [job EXCEPT ![j].status = "timed_out", ![j].alive = FALSE, ![j].overdue = FALSE]
       ELSE UNCHANGED job
    /\ reaper' = [reaper EXCEPT ![r].todo = @ \ {j},
                                ![r].remove = IF Removable(j) THEN @ \union {j} ELSE @]
    /\ UNCHANGED <<tables, caller, reaperStarted, process, stray>>

\* Sessions leave the table by another way than bash_session_close.
Detach(gone) ==
    /\ session' = [s \in Sids |-> IF s \in gone THEN "gone" ELSE session[s]]
    /\ stray' = stray \union {j \in Jids : Running(j) /\ job[j].sid \in gone}

\* del _sessions[sid] raises KeyError for one that has been closed meanwhile:
\* those before it in the dict are gone, and this sweep removes no job.
ReapRemove(r) ==
    LET missing == reaper[r].expired \ Sessions IN
    /\ Up /\ reaper[r].pc = "sweep" /\ reaper[r].todo = {}
    /\ \E gone \in SUBSET (reaper[r].expired \intersect Sessions) :
        /\ missing = {} => gone = reaper[r].expired
        /\ Detach(gone)
    /\ Unregister(IF missing = {} THEN reaper[r].remove ELSE {})
    /\ reaper' = [reaper EXCEPT ![r] = Asleep]
    /\ UNCHANGED <<job, caller, reaperStarted, process>>

-----------------------------------------------------------------------------
(* cleanup_all, from the SIGTERM handler or atexit, and the end of the process *)

CleanupClear ==
    /\ server \in {"up", "cleaned"}
    /\ server' = "cleaning"
    /\ cleanup' = jobs
    /\ Unregister(jobs)
    /\ Detach(Sessions)
    /\ UNCHANGED <<job, threads>>

CleanupKill(j) ==
    /\ server = "cleaning"
    /\ j \in cleanup
    /\ cleanup' = cleanup \ {j}
    /\ IF Running(j) THEN KillProcess(j) ELSE UNCHANGED job
    /\ UNCHANGED <<tables, threads, server, stray>>

CleanupReturn ==
    /\ server = "cleaning" /\ cleanup = {}
    /\ server' = "cleaned"
    /\ UNCHANGED <<tables, job, threads, cleanup, stray>>

ServerExit ==
    /\ server = "cleaned"
    /\ server' = "gone"
    /\ session' = [s \in Sids |-> "gone"] /\ jobs' = {} /\ unpolled' = {}
    /\ caller' = [c \in Callers |-> NoCall]
    /\ reaper' = [r \in Reapers |-> Unstarted] /\ reaperStarted' = FALSE
    /\ UNCHANGED <<job, cleanup, stray>>

-----------------------------------------------------------------------------
(* Time *)

SessionIdles(s) ==
    /\ Up /\ session[s] = "fresh"
    /\ session' = [session EXCEPT ![s] = "idle"]
    /\ UNCHANGED <<jobs, unpolled, job, threads, process, stray>>

\* A TTL since the last poll, or since the start; the maximum run time
JobIdles(j) ==
    /\ Up /\ j \in jobs \ unpolled
    /\ unpolled' = unpolled \union {j}
    /\ UNCHANGED <<session, jobs, job, threads, process, stray>>

JobOverdue(j) ==
    /\ Up /\ Running(j) /\ ~job[j].overdue
    /\ j \in jobs \/ \E r \in Reapers : j \in reaper[r].todo
    /\ job' = [job EXCEPT ![j].overdue = TRUE]
    /\ UNCHANGED <<tables, threads, process, stray>>

JobAges(j) == JobIdles(j) \/ JobOverdue(j)

\* The rest of a tool call that has begun
Continue(c) ==
    \/ EnsureTest(c)
    \/ EnsureSpawn(c)
    \/ Touch(c)
    \/ \E j \in Jids : StartJob(c, j)
    \/ StartRefused(c)
    \/ KillMark(c)
    \/ Kill(c)
    \/ \E j \in Jids : CloseMark(c, j)
    \/ CloseKill(c)
    \/ CloseReturn(c)

Reap(r) ==
    \/ ReapSnapshot(r)
    \/ \E j \in Jids : ReapJob(r, j)
    \/ ReapRemove(r)

Next ==
    \/ \E c \in Callers, s \in Sids : StartSession(c, s)
    \/ \E c \in Users, s \in Sids : RunLookup(c, s)
    \/ \E c \in Users, s \in Sids : ClosePop(c, s)
    \/ \E c \in Users, j \in Jids : KillLookup(c, j)
    \/ \E c \in Callers : Continue(c)
    \/ \E j \in Jids : Poll(j)
    \/ \E j \in Jids : Exit(j)
    \/ \E j \in Jids : Pump(j)
    \/ \E r \in Reapers : Reap(r)
    \/ CleanupClear
    \/ \E j \in Jids : CleanupKill(j)
    \/ CleanupReturn
    \/ ServerExit
    \/ \E s \in Sids : SessionIdles(s)
    \/ \E j \in Jids : JobAges(j)

\* Threads that can run do, and time passes; commands may run forever.
Fairness ==
    /\ \A c \in Callers : WF_vars(Continue(c))
    /\ \A r \in Reapers : WF_vars(Reap(r))
    /\ WF_vars(\E j \in Jids : JobAges(j))

Safety == Init /\ [][Next]_vars
Spec == Safety /\ Fairness

-----------------------------------------------------------------------------
(* Properties *)

Statuses == {"unborn", "running", "exited", "timed_out", "killed"}
Job == [status : Statuses, alive : BOOLEAN, sid : Sids \union {NoSid},
        overdue : BOOLEAN]
Call == [pc : {"free", "ensure", "spawn", "touch", "start", "mark", "kill", "close", "close_kill"},
         sid : Sids \union {NoSid}, jid : Jids \union {NoJid}, todo : SUBSET Jids]
Sweep == [pc : {"unstarted", "sleep", "sweep"}, expired : SUBSET Sids,
          todo : SUBSET Jids, remove : SUBSET Jids]

\* Every variable stays in its type and the tables within their limits; a job of
\* the table has been started, and only a running job is not known to have ended.
TypeOK ==
    /\ session \in [Sids -> {"unborn", "fresh", "idle", "gone"}]
    /\ Cardinality(Sessions) <= MaxSessions
    /\ jobs \subseteq {j \in Jids : job[j].status # "unborn"}
    /\ Cardinality(jobs) <= MaxJobs /\ unpolled \subseteq jobs
    /\ job \in [Jids -> Job]
    /\ caller \in [Callers -> Call]
    /\ reaper \in [Reapers -> Sweep] /\ reaperStarted \in BOOLEAN
    /\ server \in {"up", "cleaning", "cleaned", "gone"} /\ cleanup \subseteq Jids
    /\ stray \subseteq Jids

\* "That status wins": of the pump, the kill, the close and the reaper, whichever
\* settles a job first decides what is reported of it for good.
FirstOutcomeWins ==
    [][\A j \in Jids : job[j].status \notin {"unborn", "running"}
         => job'[j].status = job[j].status]_vars

\* About to be killed by a thread that has taken it on
Doomed(j) ==
    \/ \E c \in Callers : caller[c].pc \in {"close", "close_kill"} /\ j \in caller[c].todo
    \/ \E c \in Callers : caller[c].pc = "kill" /\ caller[c].jid = j
    \/ j \in cleanup

\* As long as the server runs, no child process is out of everybody's reach: it can
\* be polled and killed through the table, or some thread is about to kill it.
NoProcessForgotten ==
    Up => \A j \in Jids : job[j].alive => j \in jobs \/ Doomed(j)

\* "A session's jobs shouldn't outlive the session itself": after
\* bash_session_close the jobs left running are those a bash_run under way at the
\* time started later, in a session that no longer existed.
ClosedSessionJobsEnd ==
    Up => \A j \in Jids : Running(j) /\ job[j].sid \notin Sessions
            => j \in stray \/ Doomed(j)

\* A job's slot comes back unless the job is polled for ever: hanging commands are
\* timed out, results nobody collects expire, and neither a second reaper nor a
\* sweep that stops at a closed session keeps the table full.
SlotsComeBack ==
    \A j \in Jids :
        \/ j \in jobs ~> j \notin jobs \/ server = "gone"
        \/ []<><<Poll(j)>>_vars
=============================================================================

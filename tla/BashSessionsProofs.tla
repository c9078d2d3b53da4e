------------------------- MODULE BashSessionsProofs -------------------------
(***************************************************************************)
(* Sessions, jobs, pool threads and reapers, as many as there are: the     *)
(* tables stay within their limits, no child process is out of reach, a    *)
(* closed session leaves no job behind, and the first outcome of a job is  *)
(* the one that is kept.                                                   *)
(***************************************************************************)
EXTENDS BashSessions, FiniteSetTheorems, TLAPS

(* Ids without end may be minted; those in a table are finitely many.      *)
Finite == IsFiniteSet(Sessions) /\ IsFiniteSet(jobs)

TypeInv == TypeOK /\ Finite

(* At first the tables are empty.                                          *)
LEMMA InitTypes == Init => TypeInv
<1>. SUFFICES ASSUME Init PROVE TypeInv
  OBVIOUS
<1>1. Sessions = {} /\ jobs = {}
  BY DEF Init, Sessions
<1>2. Finite /\ Cardinality(Sessions) = 0 /\ Cardinality(jobs) = 0
  BY <1>1, FS_EmptySet DEF Finite
<1>3. job \in [Jids -> Job] /\ caller \in [Callers -> Call] /\ reaper \in [Reapers -> Sweep]
  BY DEF Init, NoJob, NoCall, Asleep, Unstarted, Job, Call, Sweep, Statuses
<1>4. /\ Cardinality(Sessions) <= MaxSessions
      /\ Cardinality(jobs) <= MaxJobs
  BY <1>2, LimitsAssumption DEF Init
<1>5. jobs \subseteq {j \in Jids : job[j].status # "unborn"}
  BY <1>1
<1>. QED
  BY <1>1, <1>2, <1>3, <1>4, <1>5 DEF Init, TypeInv, TypeOK

-----------------------------------------------------------------------------
(* The tables stay within their limits                                     *)

(* A table that does not grow.                                             *)
LEMMA TableKept ==
  ASSUME NEW table, NEW after, NEW limit \in Nat, after \subseteq table,
         IsFiniteSet(table), Cardinality(table) <= limit
  PROVE  IsFiniteSet(after) /\ Cardinality(after) <= limit
<1>1. IsFiniteSet(after) /\ Cardinality(after) <= Cardinality(table)
  BY FS_Subset
<1>2. Cardinality(after) \in Nat /\ Cardinality(table) \in Nat
  BY <1>1, FS_CardinalityType
<1>. QED
  BY <1>1, <1>2

(* A table with room for one more.                                         *)
LEMMA TableGrows ==
  ASSUME NEW table, NEW x, NEW limit \in Nat,
         IsFiniteSet(table), HasRoom(table, limit)
  PROVE  IsFiniteSet(table \cup {x}) /\ Cardinality(table \cup {x}) <= limit
<1>1. Cardinality(table) \in Nat
  BY FS_CardinalityType
<1>2. /\ IsFiniteSet(table \cup {x})
      /\ Cardinality(table \cup {x}) <= Cardinality(table) + 1
  <2>1. /\ IsFiniteSet(table \cup {x})
        /\ Cardinality(table \cup {x}) =
             IF x \in table THEN Cardinality(table) ELSE Cardinality(table) + 1
    BY FS_AddElement
  <2>. QED
    BY <1>1, <2>1
<1>3. Cardinality(table \cup {x}) \in Nat
  BY <1>2, FS_CardinalityType
<1>. QED
  BY <1>1, <1>2, <1>3 DEF HasRoom

(* The two tables, when neither grows.                                     *)
LEMMA TablesKept ==
  ASSUME TypeInv, Sessions' \subseteq Sessions, jobs' \subseteq jobs
  PROVE  /\ Finite'
         /\ Cardinality(Sessions') <= MaxSessions
         /\ Cardinality(jobs') <= MaxJobs
<1>1. /\ IsFiniteSet(Sessions') /\ Cardinality(Sessions') <= MaxSessions
      /\ IsFiniteSet(jobs') /\ Cardinality(jobs') <= MaxJobs
  BY TableKept, LimitsAssumption DEF TypeInv, TypeOK, Finite
<1>. QED
  BY <1>1 DEF Finite

(* Only a start puts something into a table.                               *)
LEMMA OthersKeepTables ==
  ASSUME TypeInv, [Next]_vars
  PROVE  \/ \E c \in Callers, s \in Sids : StartSession(c, s)
         \/ \E c \in Callers, j \in Jids : StartJob(c, j)
         \/ Sessions' \subseteq Sessions /\ jobs' \subseteq jobs
<1>. SUFFICES ASSUME ~\E c \in Callers, s \in Sids : StartSession(c, s),
                     ~\E c \in Callers, j \in Jids : StartJob(c, j)
              PROVE  Sessions' \subseteq Sessions /\ jobs' \subseteq jobs
  OBVIOUS
<1>. DEFINE Kept == Sessions' \subseteq Sessions /\ jobs' \subseteq jobs
<1>1. ASSUME UNCHANGED <<session, jobs>> PROVE Kept
  BY <1>1 DEF Sessions
<1>2. ASSUME NEW c \in Callers, Continue(c) PROVE Kept
  <2>1. CASE Touch(c)
    BY <2>1 DEF Touch, Sessions, TypeInv, TypeOK
  <2>2. CASE ~Touch(c)
    BY <1>1, <1>2, <2>2 DEF Continue, EnsureTest, EnsureSpawn, StartRefused, KillMark,
      Kill, CloseMark, CloseKill, CloseReturn, tables
  <2>. QED
    BY <2>1, <2>2
<1>3. ASSUME NEW r \in Reapers, Reap(r) PROVE Kept
  BY <1>1, <1>3 DEF Reap, ReapSnapshot, ReapJob, ReapRemove, Detach, Unregister, Sessions,
    tables, TypeInv, TypeOK
<1>4. CASE \E c \in Callers, s \in Sids : ClosePop(c, s)
  BY <1>4 DEF ClosePop, Unregister, Sessions, TypeInv, TypeOK
<1>5. CASE CleanupClear \/ ServerExit
  BY <1>5 DEF CleanupClear, ServerExit, Detach, Unregister, Sessions
<1>6. CASE \E s \in Sids : SessionIdles(s)
  BY <1>6 DEF SessionIdles, Sessions, TypeInv, TypeOK
<1>. QED
  BY <1>1, <1>2, <1>3, <1>4, <1>5, <1>6, UsersAssumption DEF Next, vars, RunLookup,
    KillLookup, Poll, Exit, Pump, CleanupKill, CleanupReturn, JobAges, JobIdles, JobOverdue, tables

(* Every step leaves the tables within their limits.                       *)
LEMMA NextLimits ==
  ASSUME TypeInv, [Next]_vars
  PROVE  /\ Finite'
         /\ Cardinality(Sessions') <= MaxSessions
         /\ Cardinality(jobs') <= MaxJobs
<1>1. ASSUME NEW c \in Callers, NEW s \in Sids, StartSession(c, s)
      PROVE  /\ Finite'
             /\ Cardinality(Sessions') <= MaxSessions
             /\ Cardinality(jobs') <= MaxJobs
  <2>1. Sessions' = Sessions \cup {s} /\ jobs' = jobs
    BY <1>1 DEF StartSession, Sessions, TypeInv, TypeOK
  <2>2. IsFiniteSet(Sessions') /\ Cardinality(Sessions') <= MaxSessions
    BY <1>1, <2>1, TableGrows, LimitsAssumption DEF StartSession, TypeInv, Finite
  <2>. QED
    BY <2>1, <2>2 DEF TypeInv, TypeOK, Finite
<1>2. ASSUME NEW c \in Callers, NEW j \in Jids, StartJob(c, j)
      PROVE  /\ Finite'
             /\ Cardinality(Sessions') <= MaxSessions
             /\ Cardinality(jobs') <= MaxJobs
  <2>1. Sessions' = Sessions /\ jobs' = jobs \cup {j}
    BY <1>2 DEF StartJob, Sessions
  <2>2. IsFiniteSet(jobs') /\ Cardinality(jobs') <= MaxJobs
    BY <1>2, <2>1, TableGrows, LimitsAssumption DEF StartJob, TypeInv, Finite
  <2>. QED
    BY <2>1, <2>2 DEF TypeInv, TypeOK, Finite
<1>. QED
  BY <1>1, <1>2, OthersKeepTables, TablesKept

-----------------------------------------------------------------------------
(* Types                                                                   *)

(* What a step leaves of a job that has been started.                      *)
LEMMA JobTypes ==
  ASSUME TypeInv, [Next]_vars
  PROVE  /\ job' \in [Jids -> Job]
         /\ \A j \in Jids : job[j].status # "unborn" => job'[j].status # "unborn"
<1>. DEFINE Typed == /\ job' \in [Jids -> Job]
                    /\ \A j \in Jids : job[j].status # "unborn" => job'[j].status # "unborn"
<1>. USE DEF TypeInv, TypeOK
<1>1. ASSUME UNCHANGED job PROVE Typed
  BY <1>1
<1>2. ASSUME NEW j, NEW status \in Statuses \ {"unborn"}, SetStatus(j, status) PROVE Typed
  BY <1>2 DEF SetStatus, Job, Statuses
<1>3. ASSUME NEW j, KillProcess(j) PROVE Typed
  BY <1>3 DEF KillProcess, Job
<1>4. ASSUME NEW c \in Callers, NEW j \in Jids, StartJob(c, j) PROVE Typed
  BY <1>4 DEF StartJob, Job, NoJob, Statuses, Call
<1>5. ASSUME NEW c \in Callers, Continue(c) PROVE Typed
  <2>1. CASE KillMark(c) \/ \E j \in Jids : CloseMark(c, j)
    BY <1>1, <1>2, <2>1 DEF KillMark, CloseMark, Statuses
  <2>2. CASE Kill(c) \/ CloseKill(c)
    BY <1>3, <2>2 DEF Kill, CloseKill
  <2>. QED
    BY <1>1, <1>4, <1>5, <2>1, <2>2 DEF Continue, EnsureTest, EnsureSpawn, Touch,
      StartRefused, CloseReturn
<1>6. ASSUME NEW r \in Reapers, Reap(r) PROVE Typed
  <2>1. ASSUME NEW j \in Jids, ReapJob(r, j) PROVE Typed
    BY <2>1 DEF ReapJob, Job, Statuses
  <2>. QED
    BY <1>1, <1>6, <2>1 DEF Reap, ReapSnapshot, ReapRemove
<1>7. ASSUME NEW j \in Jids, Pump(j) PROVE Typed
  BY <1>2, <1>7 DEF Pump, Statuses
<1>8. ASSUME NEW j \in Jids, Exit(j) \/ CleanupKill(j) PROVE Typed
  BY <1>1, <1>3, <1>8 DEF Exit, CleanupKill
<1>9. ASSUME NEW j \in Jids, JobAges(j) PROVE Typed
  <2>1. CASE JobOverdue(j)
    <3>1. [job[j] EXCEPT !.overdue = TRUE] \in Job
      BY DEF Job
    <3>2. job' = [job EXCEPT ![j] = [job[j] EXCEPT !.overdue = TRUE]]
      BY <2>1 DEF JobOverdue
    <3>3. job'[j].status = job[j].status
      BY <3>2 DEF Job
    <3>. QED
      BY <3>1, <3>2, <3>3
  <2>. QED
    BY <1>1, <1>9, <2>1 DEF JobAges, JobIdles
<1>10. CASE \E c \in Callers, s \in Sids : StartSession(c, s) \/ RunLookup(c, s) \/ ClosePop(c, s)
  BY <1>1, <1>10 DEF StartSession, RunLookup, ClosePop
<1>11. CASE (\E c \in Callers, j \in Jids : KillLookup(c, j)) \/ \E j \in Jids : Poll(j)
  BY <1>1, <1>11 DEF KillLookup, Poll
<1>12. CASE \/ CleanupClear \/ CleanupReturn \/ ServerExit \/ UNCHANGED vars
            \/ \E s \in Sids : SessionIdles(s)
  BY <1>1, <1>12 DEF CleanupClear, CleanupReturn, ServerExit, SessionIdles, vars
<1>. QED
  BY <1>5, <1>6, <1>7, <1>8, <1>9, <1>10, <1>11, <1>12, UsersAssumption DEF Next

(* What a step makes of a thread.                                          *)
LEMMA ThreadTypes ==
  ASSUME TypeInv, [Next]_vars
  PROVE  /\ caller' \in [Callers -> Call]
         /\ reaper' \in [Reapers -> Sweep] /\ reaperStarted' \in BOOLEAN
<1>. DEFINE Typed == /\ caller' \in [Callers -> Call]
                    /\ reaper' \in [Reapers -> Sweep] /\ reaperStarted' \in BOOLEAN
<1>. USE DEF TypeInv, TypeOK
<1>1. NoCall \in Call /\ Asleep \in Sweep /\ Unstarted \in Sweep
  BY DEF NoCall, Call, Asleep, Unstarted, Sweep
<1>2. ASSUME NEW c \in Callers, Return(c) PROVE caller' \in [Callers -> Call]
  BY <1>1, <1>2 DEF Return
<1>3. ASSUME NEW c \in Callers,
             NEW point \in {"ensure", "spawn", "start", "kill", "close_kill"}, Goto(c, point)
      PROVE  caller' \in [Callers -> Call]
  BY <1>3 DEF Goto, Call
<1>4. ASSUME NEW c \in Callers, NEW s \in Sids, StartSession(c, s) \/ RunLookup(c, s)
      PROVE  Typed
  <2>1. CASE RunLookup(c, s)
    <3>1. [NoCall EXCEPT !.pc = "touch", !.sid = s] \in Call
      BY DEF NoCall, Call
    <3>. QED
      BY <2>1, <3>1 DEF RunLookup
  <2>. QED
    BY <1>3, <1>4, <2>1 DEF StartSession
<1>5. ASSUME NEW c \in Callers, NEW s \in Sids, ClosePop(c, s) PROVE Typed
  <2>1. Popped(s) \in SUBSET Jids
    BY DEF Popped, JobsOf
  <2>. QED
    BY <1>5, <2>1 DEF ClosePop, NoCall, Call
<1>6. ASSUME NEW c \in Callers, NEW j \in Jids, KillLookup(c, j) PROVE Typed
  BY <1>6 DEF KillLookup, NoCall, Call
<1>7. ASSUME NEW c \in Callers, Continue(c) PROVE Typed
  <2>1. CASE EnsureSpawn(c)
    BY <1>1, <1>2, <2>1 DEF EnsureSpawn
  <2>2. ASSUME NEW j \in Jids, CloseMark(c, j) PROVE Typed
    BY <2>2 DEF CloseMark, Call
  <2>3. CASE CloseKill(c)
    <3>1. [caller[c] EXCEPT !.pc = "close", !.jid = NoJid, !.todo = @ \ {caller[c].jid}] \in Call
      BY DEF Call
    <3>2. caller' = [caller EXCEPT ![c] = [caller[c] EXCEPT !.pc = "close", !.jid = NoJid,
                                                            !.todo = @ \ {caller[c].jid}]]
      BY <2>3 DEF CloseKill
    <3>. QED
      BY <2>3, <3>1, <3>2 DEF CloseKill
  <2>. QED
    BY <1>2, <1>3, <1>7, <2>1, <2>2, <2>3 DEF Continue, EnsureTest, Touch, StartJob,
      StartRefused, KillMark, Kill, CloseReturn
<1>8. ASSUME NEW r \in Reapers, Reap(r) PROVE Typed
  <2>1. CASE ReapSnapshot(r)
    BY <2>1 DEF ReapSnapshot, Sweep
  <2>2. ASSUME NEW j \in Jids, ReapJob(r, j) PROVE Typed
    <3>1. reaper[r].todo \ {j} \in SUBSET Jids
      BY DEF Sweep
    <3>2. (IF Removable(j) THEN reaper[r].remove \cup {j} ELSE reaper[r].remove) \in SUBSET Jids
      BY DEF Sweep
    <3>3. PICK remove \in SUBSET Jids : reaper' = [reaper EXCEPT ![r].todo = @ \ {j},
                                                               ![r].remove = remove]
      BY <2>2, <3>2 DEF ReapJob
    <3>4. [reaper[r] EXCEPT !.todo = @ \ {j}, !.remove = remove] \in Sweep
      BY <3>1 DEF Sweep
    <3>5. reaper' = [reaper EXCEPT ![r] = [reaper[r] EXCEPT !.todo = @ \ {j}, !.remove = remove]]
      BY <3>3
    <3>. QED
      BY <2>2, <3>4, <3>5 DEF ReapJob
  <2>. QED
    BY <1>1, <1>8, <2>1, <2>2 DEF Reap, ReapRemove
<1>9. CASE ServerExit
  BY <1>1, <1>9 DEF ServerExit
<1>. QED
  BY <1>4, <1>5, <1>6, <1>7, <1>8, <1>9, UsersAssumption DEF Next, vars, threads, Poll, Exit, Pump,
    CleanupClear, CleanupKill, CleanupReturn, SessionIdles, JobAges, JobIdles, JobOverdue

(* What a step makes of the tables, the server and the history.            *)
LEMMA TableTypes ==
  ASSUME TypeInv, [Next]_vars
  PROVE  /\ session' \in [Sids -> {"unborn", "fresh", "idle", "gone"}]
         /\ jobs' \subseteq {j \in Jids : job'[j].status # "unborn"} /\ unpolled' \subseteq jobs'
         /\ server' \in {"up", "cleaning", "cleaned", "gone"} /\ cleanup' \subseteq Jids
         /\ stray' \subseteq Jids
<1>. DEFINE Typed ==
       /\ session' \in [Sids -> {"unborn", "fresh", "idle", "gone"}]
       /\ jobs' \subseteq {j \in Jids : job'[j].status # "unborn"} /\ unpolled' \subseteq jobs'
       /\ server' \in {"up", "cleaning", "cleaned", "gone"} /\ cleanup' \subseteq Jids
       /\ stray' \subseteq Jids
<1>. USE DEF TypeInv, TypeOK
<1>1. \A j \in Jids : job[j].status # "unborn" => job'[j].status # "unborn"
  BY JobTypes
<1>2. ASSUME UNCHANGED <<tables, process, stray>> PROVE Typed
  BY <1>1, <1>2 DEF tables, process
<1>3. ASSUME NEW c \in Callers, NEW s \in Sids, StartSession(c, s) PROVE Typed
  BY <1>1, <1>3 DEF StartSession, process
<1>4. ASSUME NEW c \in Callers, NEW s \in Sids, ClosePop(c, s) PROVE Typed
  BY <1>1, <1>4 DEF ClosePop, Unregister, process
<1>5. ASSUME NEW c \in Callers, Continue(c) PROVE Typed
  <2>1. CASE Touch(c)
    BY <1>1, <2>1 DEF Touch, process
  <2>2. ASSUME NEW j \in Jids, StartJob(c, j) PROVE Typed
    <3>1. job'[j].status # "unborn"
      BY <2>2 DEF StartJob, NoJob
    <3>2. jobs' = jobs \cup {j} /\ stray' \subseteq stray \cup {j}
      BY <2>2 DEF StartJob
    <3>. QED
      BY <1>1, <2>2, <3>1, <3>2 DEF StartJob, process
  <2>. QED
    BY <1>2, <1>5, <2>1, <2>2 DEF Continue, EnsureTest, EnsureSpawn, StartRefused, KillMark,
      Kill, CloseMark, CloseKill, CloseReturn
<1>6. ASSUME NEW r \in Reapers, Reap(r) PROVE Typed
  <2>1. CASE ReapRemove(r)
    BY <1>1, <2>1 DEF ReapRemove, Detach, Unregister, process
  <2>. QED
    BY <1>2, <1>6, <2>1 DEF Reap, ReapSnapshot, ReapJob
<1>7. ASSUME NEW j \in Jids, Poll(j) PROVE Typed
  BY <1>1, <1>7 DEF Poll, process
<1>8. CASE CleanupClear \/ ServerExit
  BY <1>1, <1>8 DEF CleanupClear, ServerExit, Detach, Unregister
<1>9. CASE CleanupReturn \/ \E j \in Jids : CleanupKill(j)
  BY <1>1, <1>9 DEF CleanupReturn, CleanupKill, tables
<1>10. CASE \E s \in Sids : SessionIdles(s)
  BY <1>1, <1>10 DEF SessionIdles, process
<1>11. CASE \E j \in Jids : JobAges(j)
  BY <1>1, <1>11 DEF JobAges, JobIdles, JobOverdue, tables, process
<1>. QED
  BY <1>2, <1>3, <1>4, <1>5, <1>6, <1>7, <1>8, <1>9, <1>10, <1>11, UsersAssumption DEF Next, vars,
    RunLookup, KillLookup, Exit, Pump

(* Every step keeps the types.                                             *)
LEMMA NextTypes == TypeInv /\ [Next]_vars => TypeInv'
  BY NextLimits, JobTypes, ThreadTypes, TableTypes DEF TypeInv, TypeOK

(* The tables of sessions and of jobs never pass their limits, however     *)
(* many threads start how many of them.                                    *)
THEOREM TypesHold == Safety => []TypeOK
<1>1. TypeInv => TypeOK
  BY DEF TypeInv
<1>. QED
  BY <1>1, InitTypes, NextTypes, PTL DEF Safety

-----------------------------------------------------------------------------
(* The first outcome wins                                                  *)

(* No step touches the status of a job that is settled: whoever settles    *)
(* one looks, under its lock, whether it is still running.                 *)
LEMMA SettledStays ==
  ASSUME TypeInv, [Next]_vars, NEW j \in Jids, job[j].status \notin {"unborn", "running"}
  PROVE  job'[j].status = job[j].status
<1>. DEFINE Stays == job'[j].status = job[j].status
<1>. USE DEF TypeInv, TypeOK
<1>1. ASSUME NEW i, NEW status, Running(i), SetStatus(i, status) PROVE Stays
  BY <1>1 DEF SetStatus, Running
<1>2. ASSUME NEW i, KillProcess(i) PROVE Stays
  BY <1>2 DEF KillProcess, Job
<1>3. ASSUME NEW c \in Callers, Continue(c) PROVE Stays
  <2>1. ASSUME NEW i \in Jids, StartJob(c, i) PROVE Stays
    BY <2>1 DEF StartJob, NoJob
  <2>2. CASE KillMark(c) \/ \E i \in Jids : CloseMark(c, i)
    BY <1>1, <2>2 DEF KillMark, CloseMark
  <2>3. CASE Kill(c) \/ CloseKill(c)
    BY <1>2, <2>3 DEF Kill, CloseKill
  <2>. QED
    BY <1>3, <2>1, <2>2, <2>3 DEF Continue, EnsureTest, EnsureSpawn, Touch, StartRefused,
      CloseReturn
<1>4. ASSUME NEW r \in Reapers, Reap(r) PROVE Stays
  BY <1>4 DEF Reap, ReapSnapshot, ReapJob, ReapRemove, Running
<1>5. ASSUME NEW i \in Jids, Pump(i) PROVE Stays
  BY <1>1, <1>5 DEF Pump, PumpRecords
<1>6. ASSUME NEW i \in Jids, Exit(i) \/ CleanupKill(i) PROVE Stays
  BY <1>2, <1>6 DEF Exit, CleanupKill
<1>7. ASSUME NEW i \in Jids, JobAges(i) PROVE Stays
  BY <1>7 DEF JobAges, JobIdles, JobOverdue, Running
<1>8. CASE \E c \in Callers, s \in Sids : StartSession(c, s) \/ RunLookup(c, s) \/ ClosePop(c, s)
  BY <1>8 DEF StartSession, RunLookup, ClosePop
<1>9. CASE (\E c \in Callers, i \in Jids : KillLookup(c, i)) \/ \E i \in Jids : Poll(i)
  BY <1>9 DEF KillLookup, Poll
<1>10. CASE \/ CleanupClear \/ CleanupReturn \/ ServerExit \/ UNCHANGED vars
            \/ \E s \in Sids : SessionIdles(s)
  BY <1>10 DEF CleanupClear, CleanupReturn, ServerExit, SessionIdles, vars
<1>. QED
  BY <1>3, <1>4, <1>5, <1>6, <1>7, <1>8, <1>9, <1>10, UsersAssumption DEF Next

(* The status a job is settled with first - by the pump, a kill, a close   *)
(* or a reaper - is what is reported of it for good.                       *)
THEOREM FirstOutcomeStands == Safety => FirstOutcomeWins
<1>. DEFINE Wins == \A j \in Jids : job[j].status \notin {"unborn", "running"}
                                   => job'[j].status = job[j].status
<1>1. TypeInv /\ [Next]_vars => Wins
  BY SettledStays
<1>2. TypeInv /\ [Next]_vars => [Wins]_vars
  BY <1>1
<1>. QED
  BY <1>2, InitTypes, NextTypes, PTL DEF Safety, FirstOutcomeWins

-----------------------------------------------------------------------------
(* No process is out of reach                                              *)

(* What is left to a call that closes a session, and the job a thread has  *)
(* marked as killed and kills next.                                        *)
ClosedBy(j) == \E c \in Callers : caller[c].pc \in {"close", "close_kill"} /\ j \in caller[c].todo
Dying(j) == \E c \in Callers : caller[c].pc \in {"kill", "close_kill"} /\ caller[c].jid = j

Settled(j) == job[j].status \notin {"unborn", "running"}

UnbornNotAlive == \A j \in Jids : job[j].status = "unborn" => ~job[j].alive

(* A close kills what it has marked of its own list.                       *)
CloseKills ==
  \A c \in Callers : caller[c].pc = "close_kill"
    => caller[c].jid \in caller[c].todo /\ Settled(caller[c].jid)

CleanupIdle == server # "cleaning" => cleanup = {}

(* A settled job whose process lives is about to be killed by the thread   *)
(* that settled it: the pump records no exit before the process has ended, *)
(* and the reaper kills under the lock.                                    *)
KilledSoon == Up => \A j \in Jids : job[j].alive /\ ~Running(j) => Dying(j)

(* What a sweep is going to remove has been settled.                       *)
RemoveSettled ==
  \A r \in Reapers : \A j \in reaper[r].remove : Settled(j)

(* A job leaves the table running only by a close or with its session.     *)
RunningInReach == Up => \A j \in Jids : Running(j) => j \in jobs \/ j \in stray \/ ClosedBy(j)

ClosedEnd ==
  Up => \A j \in Jids : Running(j) /\ job[j].sid \notin Sessions => j \in stray \/ ClosedBy(j)

ReachInv ==
  /\ UnbornNotAlive /\ CloseKills /\ CleanupIdle /\ KilledSoon /\ RemoveSettled
  /\ RunningInReach /\ ClosedEnd /\ NoProcessForgotten

(* At first there is no job.                                               *)
LEMMA InitReach == Init => ReachInv
<1>. SUFFICES ASSUME Init PROVE ReachInv
  OBVIOUS
<1>1. \A j \in Jids : ~Running(j) /\ ~job[j].alive
  BY DEF Init, Running, NoJob
<1>2. CloseKills /\ RemoveSettled /\ CleanupIdle
  BY DEF Init, CloseKills, RemoveSettled, CleanupIdle, NoCall, Unstarted, Asleep
<1>. QED
  BY <1>1, <1>2 DEF ReachInv, UnbornNotAlive, KilledSoon, RunningInReach, ClosedEnd,
    NoProcessForgotten

(* What every step does for a sweep that is going to remove jobs.          *)
LEMMA RemovedAreSettled ==
  ASSUME TypeInv, ReachInv, [Next]_vars PROVE RemoveSettled'
<1>1. \A j \in Jids : Settled(j) => Settled(j)'
  BY SettledStays DEF Settled
<1>2. \A r \in Reapers : reaper[r].remove \subseteq Jids
  BY DEF TypeInv, TypeOK, Sweep
<1>3. ASSUME UNCHANGED reaper PROVE RemoveSettled'
  BY <1>1, <1>2, <1>3 DEF ReachInv, RemoveSettled
<1>4. ASSUME NEW r \in Reapers, NEW sweep, sweep.remove = {},
             reaper' = [reaper EXCEPT ![r] = sweep]
      PROVE  RemoveSettled'
  BY <1>1, <1>2, <1>4 DEF ReachInv, RemoveSettled, TypeInv, TypeOK
<1>5. Asleep.remove = {} /\ Unstarted.remove = {}
  BY DEF Asleep, Unstarted
<1>6. ASSUME NEW r \in Reapers, NEW j \in Jids, ReapJob(r, j) PROVE RemoveSettled'
  <2>1. reaper'[r].remove = IF Removable(j) THEN reaper[r].remove \cup {j} ELSE reaper[r].remove
    BY <1>6 DEF ReapJob, TypeInv, TypeOK, Sweep
  <2>2. Removable(j) => Settled(j)
    BY DEF Removable, Running, Settled, TypeInv, TypeOK
  <2>3. \A q \in Reapers \ {r} : reaper'[q] = reaper[q]
    BY <1>6 DEF ReapJob, TypeInv, TypeOK
  <2>. QED
    BY <1>1, <1>2, <2>1, <2>2, <2>3 DEF ReachInv, RemoveSettled
<1>7. ASSUME NEW r \in Reapers, Reap(r) PROVE RemoveSettled'
  BY <1>4, <1>5, <1>6, <1>7 DEF Reap, ReapSnapshot, ReapRemove
<1>8. ASSUME NEW c \in Callers, Continue(c) PROVE RemoveSettled'
  <2>1. CASE EnsureSpawn(c)
    BY <1>4, <1>5, <2>1 DEF EnsureSpawn
  <2>. QED
    BY <1>3, <1>8, <2>1 DEF Continue, EnsureTest, Touch, StartJob, StartRefused, KillMark,
      Kill, CloseMark, CloseKill, CloseReturn
<1>9. CASE ServerExit
  BY <1>5, <1>9 DEF ServerExit, RemoveSettled
<1>. QED
  BY <1>3, <1>7, <1>8, <1>9, UsersAssumption DEF Next, vars, threads, StartSession,
    RunLookup, ClosePop,
    KillLookup, Poll, Exit, Pump, CleanupClear, CleanupKill, CleanupReturn, SessionIdles,
    JobAges, JobIdles, JobOverdue

(* A step that leaves the tables alone and settles at most jobs that run:  *)
(* what it leaves alive of a settled job, or takes from a list while it is *)
(* alive, is about to be killed.                                           *)
LEMMA TablesLeftAlone ==
  ASSUME TypeInv, ReachInv, RemoveSettled', CloseKills',
         UNCHANGED <<jobs, stray, process>>, Sessions \subseteq Sessions',
         \A j \in Jids : job'[j].sid = job[j].sid /\ (job'[j].alive => job[j].alive),
         \A j \in Jids : job'[j].status # job[j].status
           => Running(j) /\ job'[j].status # "unborn" /\ (job'[j].alive => Dying(j)'),
         \A j \in Jids : Running(j)' /\ ClosedBy(j) => ClosedBy(j)',
         \A j \in Jids : job'[j].alive /\ Dying(j) => Dying(j)',
         \A j \in Jids : job'[j].alive /\ ClosedBy(j) => ClosedBy(j)' \/ Dying(j)'
  PROVE  ReachInv'
<1>1. UnbornNotAlive' /\ CleanupIdle' /\ Up' = Up
  BY DEF ReachInv, UnbornNotAlive, CleanupIdle, process, Up, Running
<1>2. \A j \in Jids : Running(j)' => Running(j)
  BY DEF Running
<1>3. KilledSoon'
  BY <1>1, <1>2 DEF ReachInv, KilledSoon, Running
<1>4. RunningInReach' /\ ClosedEnd'
  BY <1>1, <1>2 DEF ReachInv, RunningInReach, ClosedEnd
<1>5. ASSUME Up', NEW j \in Jids, job'[j].alive PROVE j \in jobs' \/ Doomed(j)'
  <2>1. Dying(j)' => Doomed(j)'
    BY DEF Dying, Doomed, CloseKills
  <2>2. ClosedBy(j)' => Doomed(j)'
    BY DEF ClosedBy, Doomed
  <2>3. j \in jobs \/ ClosedBy(j) \/ Dying(j) \/ j \in cleanup
    BY <1>1, <1>5 DEF ReachInv, NoProcessForgotten, Doomed, ClosedBy, Dying
  <2>. QED
    BY <1>5, <2>1, <2>2, <2>3 DEF process, Doomed
<1>. QED
  BY <1>1, <1>3, <1>4, <1>5 DEF ReachInv, NoProcessForgotten

(* A thread that neither closes nor kills changes what it is at: nobody is *)
(* taken from those who do.                                                *)
LEMMA AsideKeeps ==
  ASSUME TypeInv, ReachInv, NEW c \in Callers,
         caller[c].pc \notin {"kill", "close", "close_kill"},
         \A d \in Callers \ {c} : caller'[d] = caller[d],
         \A j \in Jids : Settled(j) => Settled(j)',
         caller'[c].pc # "close_kill"
  PROVE  /\ CloseKills'
         /\ \A j \in Jids : (ClosedBy(j) => ClosedBy(j)') /\ (Dying(j) => Dying(j)')
<1>1. CloseKills'
  BY DEF ReachInv, CloseKills, TypeInv, TypeOK, Call
<1>. QED
  BY <1>1 DEF ClosedBy, Dying

(* A step of one thread that changes no job.                               *)
LEMMA QuietStep ==
  ASSUME TypeInv, ReachInv, RemoveSettled', NEW c \in Callers,
         UNCHANGED <<job, jobs, stray, process>>, Sessions \subseteq Sessions',
         caller[c].pc \notin {"kill", "close", "close_kill"},
         \A d \in Callers \ {c} : caller'[d] = caller[d],
         caller'[c].pc # "close_kill"
  PROVE  ReachInv'
<1>1. \A j \in Jids : Settled(j)' = Settled(j)
  BY DEF Settled
<1>. QED
  BY <1>1, AsideKeeps, TablesLeftAlone

(* A step of no thread that changes no job.                                *)
LEMMA StillStep ==
  ASSUME TypeInv, ReachInv, RemoveSettled',
         UNCHANGED <<job, jobs, stray, process, caller>>, Sessions \subseteq Sessions'
  PROVE  ReachInv'
<1>1. CloseKills' /\ \A j \in Jids : ClosedBy(j)' = ClosedBy(j) /\ Dying(j)' = Dying(j)
  BY DEF ReachInv, CloseKills, Settled, ClosedBy, Dying
<1>. QED
  BY <1>1, TablesLeftAlone

(* A job changes its state while no thread moves: it is settled only when  *)
(* its process has ended.                                                  *)
LEMMA JobMoves ==
  ASSUME TypeInv, ReachInv, RemoveSettled', NEW j \in Jids,
         UNCHANGED <<session, jobs, stray, process, caller>>,
         job' \in [Jids -> Job], \A i \in Jids \ {j} : job'[i] = job[i],
         job'[j].sid = job[j].sid, job'[j].alive => job[j].alive,
         \/ job'[j].status = job[j].status
         \/ Running(j) /\ job'[j].status # "unborn" /\ ~job'[j].alive
  PROVE  ReachInv'
<1>1. Sessions' = Sessions
  BY DEF Sessions
<1>2. \A i \in Jids : ClosedBy(i)' = ClosedBy(i) /\ Dying(i)' = Dying(i)
  BY DEF ClosedBy, Dying
<1>3. \A i \in Jids : Settled(i) => Settled(i)'
  BY DEF Running, Settled
<1>4. CloseKills'
  BY <1>3 DEF ReachInv, CloseKills, TypeInv, TypeOK, Call
<1>. QED
  BY <1>1, <1>2, <1>4, TablesLeftAlone

(* Calls that neither settle nor kill nor start a job.                     *)
LEMMA HarmlessCalls ==
  ASSUME TypeInv, ReachInv, RemoveSettled', NEW c \in Callers,
         \/ \E s \in Sids : StartSession(c, s) \/ RunLookup(c, s)
         \/ \E j \in Jids : KillLookup(c, j)
         \/ EnsureTest(c) \/ EnsureSpawn(c) \/ Touch(c) \/ StartRefused(c)
         \/ KillMark(c) /\ UNCHANGED job
  PROVE  ReachInv'
<1>. USE DEF TypeInv, TypeOK
<1>1. caller[c].pc \in {"free", "ensure", "spawn", "touch", "start", "mark"}
  BY DEF StartSession, RunLookup, KillLookup, EnsureTest, EnsureSpawn, Touch, StartRefused,
    KillMark, At
<1>2. ASSUME Return(c) PROVE /\ \A d \in Callers \ {c} : caller'[d] = caller[d]
                             /\ caller'[c].pc # "close_kill"
  BY <1>2 DEF Return, NoCall
<1>3. ASSUME NEW point \in {"ensure", "spawn", "start", "kill"}, Goto(c, point)
      PROVE /\ \A d \in Callers \ {c} : caller'[d] = caller[d]
            /\ caller'[c].pc # "close_kill"
  BY <1>3 DEF Goto, Call
<1>4. ASSUME NEW call, call.pc # "close_kill", caller' = [caller EXCEPT ![c] = call]
      PROVE /\ \A d \in Callers \ {c} : caller'[d] = caller[d]
            /\ caller'[c].pc # "close_kill"
  BY <1>4
<1>5. \A s, j : /\ [NoCall EXCEPT !.pc = "touch", !.sid = s].pc = "touch"
                /\ [NoCall EXCEPT !.pc = "mark", !.jid = j].pc = "mark"
  BY DEF NoCall
<1>6. /\ \A d \in Callers \ {c} : caller'[d] = caller[d]
      /\ caller'[c].pc # "close_kill"
  BY <1>2, <1>3, <1>4, <1>5 DEF StartSession, RunLookup, KillLookup, EnsureTest, EnsureSpawn,
    Touch, StartRefused, KillMark
<1>7. UNCHANGED <<job, jobs, stray, process>>
  BY DEF StartSession, RunLookup, KillLookup, EnsureTest, EnsureSpawn, Touch, StartRefused,
    KillMark, tables
<1>8. Sessions \subseteq Sessions'
  BY DEF StartSession, RunLookup, KillLookup, EnsureTest, EnsureSpawn, Touch, StartRefused,
    KillMark, tables, Sessions
<1>. QED
  BY <1>1, <1>6, <1>7, <1>8, QuietStep

(* The kill of a job that runs: the thread that marks it goes on to kill.  *)
LEMMA KillMarkStep ==
  ASSUME TypeInv, ReachInv, RemoveSettled', NEW c \in Callers, KillMark(c)
  PROVE  ReachInv'
<1>. SUFFICES ASSUME NEW j, j = caller[c].jid PROVE ReachInv'
  OBVIOUS
<1>. USE DEF TypeInv, TypeOK
<1>1. CASE ~Running(j)
  BY <1>1, HarmlessCalls DEF KillMark
<1>2. CASE Running(j)
  <2>1. SetStatus(j, "killed") /\ Goto(c, "kill")
    BY <1>2 DEF KillMark
  <2>2. \A i \in Jids \ {j} : job'[i] = job[i]
    BY <2>1 DEF SetStatus
  <2>3. /\ \A d \in Callers \ {c} : caller'[d] = caller[d]
        /\ caller'[c].pc = "kill" /\ caller'[c].jid = j /\ caller[c].pc = "mark"
    BY <2>1 DEF Goto, Call, KillMark, At
  <2>4. j \in Jids => /\ job'[j].status = "killed"
                     /\ job'[j].sid = job[j].sid /\ job'[j].alive = job[j].alive
    BY <2>1 DEF SetStatus, Job
  <2>6. \A i \in Jids : Settled(i) => Settled(i)'
    BY <2>2, <2>4 DEF Settled
  <2>7. /\ CloseKills'
        /\ \A i \in Jids : (ClosedBy(i) => ClosedBy(i)') /\ (Dying(i) => Dying(i)')
    BY <2>3, <2>6, AsideKeeps
  <2>8. Dying(j)'
    BY <2>3 DEF Dying
  <2>9. UNCHANGED <<jobs, stray, process>> /\ Sessions' = Sessions
    BY DEF KillMark, tables, Sessions
  <2>10. \A i \in Jids : job'[i].sid = job[i].sid /\ (job'[i].alive => job[i].alive)
    BY <2>2, <2>4
  <2>11. \A i \in Jids : job'[i].status # job[i].status
           => Running(i) /\ job'[i].status # "unborn" /\ Dying(i)'
    BY <1>2, <2>2, <2>4, <2>8
  <2>. QED
    BY <2>7, <2>9, <2>10, <2>11, TablesLeftAlone
<1>. QED
  BY <1>1, <1>2

(* The kill itself.                                                        *)
LEMMA KillStep ==
  ASSUME TypeInv, ReachInv, RemoveSettled', NEW c \in Callers, Kill(c) \/ CloseKill(c)
  PROVE  ReachInv'
<1>. SUFFICES ASSUME NEW j, j = caller[c].jid PROVE ReachInv'
  OBVIOUS
<1>. USE DEF TypeInv, TypeOK
<1>1. KillProcess(j)
  BY DEF Kill, CloseKill
<1>2. /\ \A i \in Jids \ {j} : job'[i] = job[i]
      /\ j \in Jids => ~job'[j].alive
      /\ \A i \in Jids : job'[i].sid = job[i].sid /\ job'[i].status = job[i].status
      /\ \A i \in Jids : job'[i].alive => job[i].alive /\ i # j
  BY <1>1 DEF KillProcess, Job
<1>3. \A d \in Callers \ {c} : caller'[d] = caller[d]
  BY DEF Kill, CloseKill, Return
<1>4. caller'[c].pc \in {"free", "close"}
  BY DEF Kill, CloseKill, Return, NoCall, Call
<1>5. \A i \in Jids : Running(i)' = Running(i) /\ Settled(i)' = Settled(i)
  BY <1>2 DEF Running, Settled
<1>6. CloseKills'
  BY <1>3, <1>4, <1>5 DEF ReachInv, CloseKills, Call
<1>7. \A i \in Jids \ {j} : ClosedBy(i) => ClosedBy(i)'
  <2>1. CASE Kill(c)
    BY <1>3, <2>1 DEF Kill, At, ClosedBy
  <2>2. CASE CloseKill(c)
    <3>1. caller'[c].pc = "close" /\ caller'[c].todo = caller[c].todo \ {j}
      BY <2>2 DEF CloseKill, Call
    <3>. QED
      BY <1>3, <3>1 DEF ClosedBy
  <2>. QED
    BY <2>1, <2>2
<1>8. Running(j)' => ~ClosedBy(j) \/ ClosedBy(j)'
  <2>1. CASE Kill(c)
    BY <1>3, <2>1 DEF Kill, At, ClosedBy
  <2>2. CASE CloseKill(c)
    BY <1>5, <2>2 DEF CloseKill, At, ReachInv, CloseKills, Call, Running, Settled
  <2>. QED
    BY <2>1, <2>2
<1>9. \A i \in Jids \ {j} : Dying(i) => Dying(i)'
  BY <1>3 DEF Dying
<1>10. UNCHANGED <<jobs, stray, process>> /\ Sessions' = Sessions
  BY DEF Kill, CloseKill, tables, Sessions
<1>. QED
  BY <1>2, <1>5, <1>6, <1>7, <1>8, <1>9, <1>10, TablesLeftAlone

(* A close looks at the next job of its list.                              *)
LEMMA CloseMarkStep ==
  ASSUME TypeInv, ReachInv, RemoveSettled', NEW c \in Callers, NEW j \in Jids, CloseMark(c, j)
  PROVE  ReachInv'
<1>. USE DEF TypeInv, TypeOK
<1>1. /\ Up /\ caller[c].pc = "close" /\ j \in caller[c].todo
      /\ UNCHANGED <<jobs, stray, process>> /\ Sessions' = Sessions
  BY DEF CloseMark, At, tables, Sessions
<1>2. CASE Running(j)
  <2>1. /\ SetStatus(j, "killed")
        /\ caller' = [caller EXCEPT ![c].pc = "close_kill", ![c].jid = j]
    BY <1>2 DEF CloseMark
  <2>2. /\ \A d \in Callers \ {c} : caller'[d] = caller[d]
        /\ caller'[c].pc = "close_kill" /\ caller'[c].jid = j
        /\ caller'[c].todo = caller[c].todo
    BY <2>1 DEF Call
  <2>3. /\ \A i \in Jids \ {j} : job'[i] = job[i]
        /\ job'[j].status = "killed"
        /\ job'[j].sid = job[j].sid /\ job'[j].alive = job[j].alive
    BY <2>1 DEF SetStatus, Job
  <2>4. /\ \A i \in Jids : Running(i)' => Running(i)
        /\ \A i \in Jids : Settled(i) => Settled(i)'
        /\ Settled(j)'
    BY <2>3 DEF Running, Settled
  <2>5. CloseKills'
    BY <1>1, <2>2, <2>4 DEF ReachInv, CloseKills, Call
  <2>6. \A i \in Jids : (ClosedBy(i) => ClosedBy(i)') /\ (Dying(i) => Dying(i)')
    BY <1>1, <2>2 DEF ClosedBy, Dying
  <2>7. Dying(j)'
    BY <2>2 DEF Dying
  <2>8. \A i \in Jids : job'[i].sid = job[i].sid /\ (job'[i].alive => job[i].alive)
    BY <2>3
  <2>9. \A i \in Jids : job'[i].status # job[i].status
           => Running(i) /\ job'[i].status # "unborn" /\ Dying(i)'
    BY <1>2, <2>3, <2>7
  <2>. QED
    BY <1>1, <2>5, <2>6, <2>8, <2>9, TablesLeftAlone
<1>3. CASE ~Running(j)
  <2>1. UNCHANGED job /\ caller' = [caller EXCEPT ![c].todo = @ \ {j}]
    BY <1>3 DEF CloseMark
  <2>2. /\ \A d \in Callers \ {c} : caller'[d] = caller[d]
        /\ caller'[c].pc = "close" /\ caller'[c].jid = caller[c].jid
        /\ caller'[c].todo = caller[c].todo \ {j}
    BY <1>1, <2>1 DEF Call
  <2>3. \A i \in Jids : Running(i)' = Running(i) /\ Settled(i)' = Settled(i)
    BY <2>1 DEF Running, Settled
  <2>4. CloseKills'
    BY <2>2, <2>3 DEF ReachInv, CloseKills, Call
  <2>5. \A i \in Jids : Dying(i) => Dying(i)'
    BY <1>1, <2>2 DEF Dying
  <2>6. \A i \in Jids \ {j} : ClosedBy(i) => ClosedBy(i)'
    BY <1>1, <2>2 DEF ClosedBy
  <2>7. job[j].alive => Dying(j)
    BY <1>1, <1>3 DEF ReachInv, KilledSoon
  <2>. QED
    BY <1>1, <1>3, <2>1, <2>3, <2>4, <2>5, <2>6, <2>7, TablesLeftAlone
<1>. QED
  BY <1>2, <1>3

(* The list of a close is empty when it returns.                           *)
LEMMA CloseReturnStep ==
  ASSUME TypeInv, ReachInv, RemoveSettled', NEW c \in Callers, CloseReturn(c)
  PROVE  ReachInv'
<1>. USE DEF TypeInv, TypeOK
<1>1. /\ \A d \in Callers \ {c} : caller'[d] = caller[d]
      /\ caller'[c].pc = "free" /\ caller[c].pc = "close" /\ caller[c].todo = {}
  BY DEF CloseReturn, Return, NoCall, At
<1>2. UNCHANGED <<job, jobs, stray, process>> /\ Sessions' = Sessions
  BY DEF CloseReturn, tables, Sessions
<1>3. CloseKills'
  BY <1>1, <1>2 DEF ReachInv, CloseKills, Settled
<1>4. \A i \in Jids : (ClosedBy(i) => ClosedBy(i)') /\ (Dying(i) => Dying(i)')
  BY <1>1 DEF ClosedBy, Dying
<1>. QED
  BY <1>2, <1>3, <1>4, TablesLeftAlone

(* A new job is in the table; it is stray when its session is not.         *)
LEMMA StartJobStep ==
  ASSUME TypeInv, ReachInv, RemoveSettled', NEW c \in Callers, NEW j \in Jids, StartJob(c, j)
  PROVE  ReachInv'
<1>. USE DEF TypeInv, TypeOK
<1>1. /\ \A d \in Callers \ {c} : caller'[d] = caller[d]
      /\ caller'[c].pc = "free" /\ caller[c].pc = "start" /\ Up
  BY DEF StartJob, Return, NoCall, At
<1>2. /\ job[j].status = "unborn" /\ ~job[j].alive
      /\ \A i \in Jids \ {j} : job'[i] = job[i]
      /\ job'[j].status = "running" /\ job'[j].alive /\ job'[j].sid = caller[c].sid
  BY DEF StartJob, NoJob
<1>3. /\ UNCHANGED <<session, cleanup, server>> /\ Sessions' = Sessions /\ Up' = Up
      /\ jobs' = jobs \cup {j} /\ stray \subseteq stray'
      /\ caller[c].sid \notin Sessions => j \in stray'
  BY DEF StartJob, process, Sessions, Up
<1>4. \A i \in Jids : Settled(i) => Settled(i)'
  BY <1>2 DEF Settled
<1>5. /\ CloseKills'
      /\ \A i \in Jids : (ClosedBy(i) => ClosedBy(i)') /\ (Dying(i) => Dying(i)')
  BY <1>1, <1>4, AsideKeeps
<1>6. \A i \in Jids : Doomed(i) => Doomed(i)'
  BY <1>1, <1>3 DEF Doomed
<1>7. UnbornNotAlive' /\ CleanupIdle'
  BY <1>2, <1>3 DEF ReachInv, UnbornNotAlive, CleanupIdle
<1>8. KilledSoon' /\ RunningInReach' /\ ClosedEnd'
  BY <1>2, <1>3, <1>5 DEF ReachInv, KilledSoon, RunningInReach, ClosedEnd, Running
<1>9. NoProcessForgotten'
  BY <1>2, <1>3, <1>6 DEF ReachInv, NoProcessForgotten
<1>. QED
  BY <1>5, <1>7, <1>8, <1>9 DEF ReachInv

(* A close takes over what the table holds of its session.                 *)
LEMMA ClosePopStep ==
  ASSUME TypeInv, ReachInv, RemoveSettled', NEW c \in Callers, NEW s \in Sids, ClosePop(c, s)
  PROVE  ReachInv'
<1>. USE DEF TypeInv, TypeOK
<1>1. /\ \A d \in Callers \ {c} : caller'[d] = caller[d]
      /\ caller'[c].pc = "close" /\ caller'[c].todo = Popped(s)
      /\ caller[c].pc = "free" /\ Up
  BY DEF ClosePop, NoCall, At
<1>2. /\ UNCHANGED <<job, stray, cleanup, server>> /\ Up' = Up
      /\ jobs' = jobs \ Popped(s) /\ Sessions' = Sessions \ {s}
  BY DEF ClosePop, process, Up, Unregister, Sessions
<1>3. \A i \in Jids : Settled(i)' = Settled(i) /\ Running(i)' = Running(i)
  BY <1>2 DEF Settled, Running
<1>4. /\ CloseKills'
      /\ \A i \in Jids : (ClosedBy(i) => ClosedBy(i)') /\ (Dying(i) => Dying(i)')
  BY <1>1, <1>3, AsideKeeps
<1>5. \A i \in Popped(s) : ClosedBy(i)'
  BY <1>1 DEF ClosedBy
<1>6. \A i \in Jids : ClosedBy(i)' => Doomed(i)'
  BY DEF ClosedBy, Doomed
<1>7. \A i \in Jids : Doomed(i) => Doomed(i)'
  BY <1>1, <1>2 DEF Doomed
<1>8. UnbornNotAlive' /\ CleanupIdle' /\ KilledSoon'
  BY <1>2, <1>3, <1>4 DEF ReachInv, UnbornNotAlive, CleanupIdle, KilledSoon
<1>9. RunningInReach'
  BY <1>2, <1>3, <1>4, <1>5 DEF ReachInv, RunningInReach
<1>10. ASSUME Up', NEW i \in Jids, Running(i)', job'[i].sid \notin Sessions'
       PROVE  i \in stray' \/ ClosedBy(i)'
  <2>1. CASE job[i].sid = s /\ i \in jobs
    BY <1>5, <2>1 DEF Popped, JobsOf
  <2>2. CASE job[i].sid = s /\ i \notin jobs
    BY <1>1, <1>2, <1>3, <1>4, <1>10, <2>2 DEF ReachInv, RunningInReach
  <2>3. CASE job[i].sid # s
    BY <1>1, <1>2, <1>3, <1>4, <1>10, <2>3 DEF ReachInv, ClosedEnd
  <2>. QED
    BY <2>1, <2>2, <2>3
<1>11. NoProcessForgotten'
  BY <1>2, <1>5, <1>6, <1>7 DEF ReachInv, NoProcessForgotten
<1>. QED
  BY <1>4, <1>8, <1>9, <1>10, <1>11 DEF ReachInv, ClosedEnd

(* The second hold of a sweep: what leaves the table of jobs is settled,   *)
(* and the jobs of the sessions that leave theirs are stray.               *)
LEMMA ReapRemoveStep ==
  ASSUME TypeInv, ReachInv, RemoveSettled', NEW r \in Reapers, ReapRemove(r)
  PROVE  ReachInv'
<1>. USE DEF TypeInv, TypeOK
<1>1. UNCHANGED <<job, caller, server, cleanup>> /\ Up' = Up
  BY DEF ReapRemove, process, Up
<1>2. PICK gone \in SUBSET Sids : Detach(gone)
  BY DEF ReapRemove, Sweep
<1>3. Sessions' = Sessions \ gone
  BY <1>2 DEF Detach, Sessions
<1>4. \A j \in jobs : ~Settled(j) => j \in jobs'
  BY DEF ReapRemove, Unregister, ReachInv, RemoveSettled
<1>5. \A i \in Jids : /\ Settled(i)' = Settled(i) /\ Running(i)' = Running(i)
                      /\ ClosedBy(i)' = ClosedBy(i) /\ Dying(i)' = Dying(i)
                      /\ Doomed(i)' = Doomed(i)
  BY <1>1 DEF Settled, Running, ClosedBy, Dying, Doomed
<1>6. CloseKills' /\ UnbornNotAlive' /\ CleanupIdle' /\ KilledSoon'
  BY <1>1, <1>5 DEF ReachInv, CloseKills, Settled, UnbornNotAlive, CleanupIdle, KilledSoon
<1>7. RunningInReach'
  BY <1>1, <1>2, <1>4, <1>5 DEF ReachInv, RunningInReach, Running, Settled, Detach
<1>8. ClosedEnd'
  BY <1>1, <1>2, <1>3, <1>5 DEF ReachInv, ClosedEnd, Detach
<1>9. ASSUME Up', NEW i \in Jids, job'[i].alive PROVE i \in jobs' \/ Doomed(i)'
  <2>1. CASE Settled(i)
    <3>1. Dying(i)
      BY <1>1, <1>9, <2>1 DEF ReachInv, KilledSoon, Settled, Running
    <3>. QED
      BY <1>5, <3>1 DEF Dying, Doomed, ReachInv, CloseKills
  <2>2. CASE ~Settled(i)
    BY <1>1, <1>4, <1>5, <1>9, <2>2 DEF ReachInv, NoProcessForgotten
  <2>. QED
    BY <2>1, <2>2
<1>. QED
  BY <1>6, <1>7, <1>8, <1>9 DEF ReachInv, NoProcessForgotten

(* cleanup_all takes over both tables.                                     *)
LEMMA CleanupClearStep ==
  ASSUME TypeInv, ReachInv, RemoveSettled', CleanupClear PROVE ReachInv'
<1>. USE DEF TypeInv, TypeOK
<1>1. UNCHANGED <<job, caller>> /\ Up /\ Up' /\ cleanup = {} /\ cleanup' = jobs
  BY DEF CleanupClear, threads, Up, ReachInv, CleanupIdle
<1>2. /\ stray \subseteq stray'
      /\ \A j \in Jids : Running(j) /\ job[j].sid \in Sessions => j \in stray'
  BY DEF CleanupClear, Detach
<1>3. \A i \in Jids : /\ Settled(i)' = Settled(i) /\ Running(i)' = Running(i)
                      /\ ClosedBy(i)' = ClosedBy(i) /\ Dying(i)' = Dying(i)
  BY <1>1 DEF Settled, Running, ClosedBy, Dying
<1>4. CloseKills' /\ UnbornNotAlive' /\ CleanupIdle' /\ KilledSoon'
  BY <1>1, <1>3 DEF ReachInv, CloseKills, Settled, UnbornNotAlive, CleanupIdle, KilledSoon,
    CleanupClear
<1>5. \A j \in Jids : Running(j) => j \in stray' \/ ClosedBy(j)
  BY <1>1, <1>2 DEF ReachInv, ClosedEnd
<1>6. NoProcessForgotten'
  BY <1>1 DEF ReachInv, NoProcessForgotten, Doomed
<1>. QED
  BY <1>3, <1>4, <1>5, <1>6 DEF ReachInv, RunningInReach, ClosedEnd

(* A job of cleanup_all that does not run is left to the thread that       *)
(* settled it.                                                             *)
LEMMA CleanupKillStep ==
  ASSUME TypeInv, ReachInv, RemoveSettled', NEW j \in Jids, CleanupKill(j)
  PROVE  ReachInv'
<1>. USE DEF TypeInv, TypeOK
<1>1. /\ UNCHANGED <<jobs, stray, caller, server>> /\ Sessions' = Sessions
      /\ Up /\ Up' /\ server = "cleaning" /\ cleanup' = cleanup \ {j}
  BY DEF CleanupKill, tables, threads, Up, Sessions
<1>2. /\ \A i \in Jids : job'[i].status = job[i].status /\ job'[i].sid = job[i].sid
      /\ \A i \in Jids : job'[i].alive => job[i].alive
      /\ job'[j].alive => ~Running(j)
  BY DEF CleanupKill, KillProcess, Job
<1>3. \A i \in Jids : /\ Settled(i)' = Settled(i) /\ Running(i)' = Running(i)
                      /\ ClosedBy(i)' = ClosedBy(i) /\ Dying(i)' = Dying(i)
  BY <1>1, <1>2 DEF Settled, Running, ClosedBy, Dying
<1>4. UnbornNotAlive' /\ CleanupIdle' /\ KilledSoon' /\ RunningInReach' /\ ClosedEnd'
  BY <1>1, <1>2, <1>3 DEF ReachInv, UnbornNotAlive, CleanupIdle, KilledSoon, RunningInReach,
    ClosedEnd
<1>5. CloseKills'
  BY <1>1, <1>3 DEF ReachInv, CloseKills, Call
<1>6. \A i \in Jids : Dying(i) \/ ClosedBy(i) \/ i \in cleanup' => Doomed(i)'
  BY <1>1 DEF ReachInv, CloseKills, Dying, ClosedBy, Doomed
<1>7. ASSUME NEW i \in Jids, job'[i].alive PROVE i \in jobs' \/ Doomed(i)'
  <2>1. i \in jobs \/ ClosedBy(i) \/ Dying(i) \/ i \in cleanup
    BY <1>1, <1>2, <1>7 DEF ReachInv, NoProcessForgotten, Doomed, ClosedBy, Dying
  <2>2. i = j => Dying(i)
    BY <1>1, <1>2, <1>7 DEF ReachInv, KilledSoon
  <2>. QED
    BY <1>1, <1>6, <2>1, <2>2
<1>. QED
  BY <1>4, <1>5, <1>7 DEF ReachInv, NoProcessForgotten

(* The end of a clean-up, and of the process.                              *)
LEMMA CleanupEndStep ==
  ASSUME TypeInv, ReachInv, RemoveSettled', CleanupReturn \/ ServerExit PROVE ReachInv'
<1>. USE DEF TypeInv, TypeOK
<1>1. CASE CleanupReturn
  <2>1. /\ UNCHANGED <<job, jobs, stray, caller, cleanup>> /\ Sessions' = Sessions
        /\ Up' = Up /\ cleanup = {}
    BY <1>1 DEF CleanupReturn, tables, threads, Up, Sessions
  <2>2. \A i \in Jids : /\ Settled(i)' = Settled(i) /\ Running(i)' = Running(i)
                        /\ ClosedBy(i)' = ClosedBy(i) /\ Dying(i)' = Dying(i)
                        /\ Doomed(i)' = Doomed(i)
    BY <2>1 DEF Settled, Running, ClosedBy, Dying, Doomed
  <2>3. CloseKills'
    BY <2>1 DEF ReachInv, CloseKills, Settled
  <2>. QED
    BY <2>1, <2>2, <2>3 DEF ReachInv, UnbornNotAlive, CleanupIdle, KilledSoon, RunningInReach,
      ClosedEnd, NoProcessForgotten
<1>2. CASE ServerExit
  <2>1. UNCHANGED <<job, cleanup>> /\ cleanup = {} /\ ~Up'
    BY <1>2 DEF ServerExit, Up, ReachInv, CleanupIdle
  <2>2. CloseKills'
    BY <1>2 DEF ServerExit, CloseKills, NoCall
  <2>. QED
    BY <2>1, <2>2 DEF ReachInv, UnbornNotAlive, CleanupIdle, KilledSoon, RunningInReach,
      ClosedEnd, NoProcessForgotten
<1>. QED
  BY <1>1, <1>2

(* A thread goes on.                                                       *)
LEMMA ContinueStep ==
  ASSUME TypeInv, ReachInv, RemoveSettled', NEW c \in Callers, Continue(c)
  PROVE  ReachInv'
  BY HarmlessCalls, KillMarkStep, KillStep, CloseMarkStep, CloseReturnStep, StartJobStep
  DEF Continue

(* A reaper takes its snapshot, or looks at a job, whose process it kills  *)
(* under the hold that settles it.                                         *)
LEMMA ReapStep ==
  ASSUME TypeInv, ReachInv, RemoveSettled', job' \in [Jids -> Job], NEW r \in Reapers, Reap(r)
  PROVE  ReachInv'
<1>. USE DEF TypeInv, TypeOK
<1>1. CASE ReapSnapshot(r)
  BY <1>1, StillStep DEF ReapSnapshot, tables, process, Sessions
<1>2. ASSUME NEW j \in Jids, ReapJob(r, j) PROVE ReachInv'
  <2>1. UNCHANGED <<session, jobs, stray, process, caller>>
    BY <1>2 DEF ReapJob, tables
  <2>2. CASE UNCHANGED job
    BY <2>1, <2>2, StillStep DEF Sessions
  <2>3. CASE Running(j) /\ job' = [job EXCEPT ![j].status = "timed_out", ![j].alive = FALSE,
                                              ![j].overdue = FALSE]
    <3>1. /\ \A i \in Jids \ {j} : job'[i] = job[i]
          /\ job'[j].sid = job[j].sid /\ ~job'[j].alive /\ job'[j].status = "timed_out"
      BY <2>3 DEF Job
    <3>. QED
      BY <2>1, <2>3, <3>1, JobMoves
  <2>. QED
    BY <1>2, <2>2, <2>3 DEF ReapJob
<1>. QED
  BY <1>1, <1>2, ReapRemoveStep DEF Reap

(* A command ends, the pump records it, or time passes for a job.          *)
LEMMA JobSteps ==
  ASSUME TypeInv, ReachInv, RemoveSettled', job' \in [Jids -> Job], NEW j \in Jids,
         Exit(j) \/ Pump(j) \/ JobAges(j)
  PROVE  ReachInv'
<1>. USE DEF TypeInv, TypeOK
<1>1. UNCHANGED <<session, jobs, stray, process, caller>>
  BY DEF Exit, Pump, JobAges, JobIdles, JobOverdue, tables, threads
<1>2. \A i \in Jids \ {j} : job'[i] = job[i]
  BY DEF Exit, Pump, JobAges, JobIdles, JobOverdue, SetStatus, KillProcess
<1>3. job'[j].sid = job[j].sid /\ (job'[j].alive => job[j].alive)
  BY DEF Exit, Pump, JobAges, JobIdles, JobOverdue, SetStatus, KillProcess, Job
<1>4. \/ job'[j].status = job[j].status
      \/ Running(j) /\ job'[j].status # "unborn" /\ ~job'[j].alive
  BY DEF Exit, Pump, PumpRecords, JobAges, JobIdles, JobOverdue, SetStatus, KillProcess, Job
<1>. QED
  BY <1>1, <1>2, <1>3, <1>4, JobMoves

(* Every step keeps every process in reach.                                *)
LEMMA NextReach == TypeInv /\ ReachInv /\ [Next]_vars => ReachInv'
<1>. SUFFICES ASSUME TypeInv, ReachInv, [Next]_vars PROVE ReachInv'
  OBVIOUS
<1>1. RemoveSettled' /\ job' \in [Jids -> Job]
  BY RemovedAreSettled, JobTypes
<1>2. ASSUME NEW c \in Callers, NEW s \in Sids,
             StartSession(c, s) \/ RunLookup(c, s) \/ ClosePop(c, s)
      PROVE  ReachInv'
  BY <1>1, <1>2, HarmlessCalls, ClosePopStep
<1>3. ASSUME NEW c \in Callers, Continue(c) \/ \E j \in Jids : KillLookup(c, j) PROVE ReachInv'
  BY <1>1, <1>3, HarmlessCalls, ContinueStep
<1>4. ASSUME NEW j \in Jids, Exit(j) \/ Pump(j) \/ JobAges(j) PROVE ReachInv'
  BY <1>1, <1>4, JobSteps
<1>5. ASSUME NEW j \in Jids, Poll(j) PROVE ReachInv'
  BY <1>1, <1>5, StillStep DEF Poll, threads, Sessions
<1>6. ASSUME NEW r \in Reapers, Reap(r) PROVE ReachInv'
  BY <1>1, <1>6, ReapStep
<1>7. CASE \/ CleanupClear \/ CleanupReturn \/ ServerExit
           \/ \E j \in Jids : CleanupKill(j)
  BY <1>1, <1>7, CleanupClearStep, CleanupKillStep, CleanupEndStep
<1>8. ASSUME NEW s \in Sids, SessionIdles(s) PROVE ReachInv'
  BY <1>1, <1>8, StillStep DEF SessionIdles, threads, Sessions, TypeInv, TypeOK
<1>9. CASE UNCHANGED vars
  BY <1>1, <1>9, StillStep DEF vars, tables, threads, Sessions
<1>. QED
  BY <1>2, <1>3, <1>4, <1>5, <1>6, <1>7, <1>8, <1>9, UsersAssumption DEF Next

(* The invariant holds of every behaviour.                                 *)
LEMMA ReachHolds == Safety => []ReachInv
  BY InitTypes, NextTypes, InitReach, NextReach, PTL DEF Safety

(* As long as the server runs, a living child can be reached through the   *)
(* table, or a thread is about to kill it.                                 *)
THEOREM ProcessesInReach == Safety => []NoProcessForgotten
<1>1. ReachInv => NoProcessForgotten
  BY DEF ReachInv
<1>. QED
  BY <1>1, ReachHolds, PTL

(* What a closed session leaves running is about to be killed, but for the *)
(* jobs that were started in it after it had left the table.               *)
THEOREM ClosedSessionsEnd == Safety => []ClosedSessionJobsEnd
<1>1. ReachInv => ClosedSessionJobsEnd
  BY DEF ReachInv, ClosedEnd, ClosedSessionJobsEnd, ClosedBy, Doomed
<1>. QED
  BY <1>1, ReachHolds, PTL
=============================================================================

-------------------------- MODULE WorkerSupervisor --------------------------
(***************************************************************************)
(* The parent side of a run in api/server.py: _run_worker_subprocess with  *)
(* its liveness kill, its salvage of a draft and its one retry, and        *)
(* _stream_worker_subprocess; the worker processes of main.py with the     *)
(* snapshot file their heartbeat (swarm/team.py) writes; /runs/{pid}/      *)
(* cancel and clients that leave.  The table of active workers and the     *)
(* snapshot files are both keyed by process id, and ids are used again.    *)
(* What a worker has produced is reduced to: anything at all, and a draft. *)
(***************************************************************************)
EXTENDS Naturals, FiniteSets

CONSTANTS Requests, Pids,
          MaxRetries      \* _MAX_BARREN_RETRIES

NoPid == "no pid"

ASSUME SupervisorAssumptions == MaxRetries \in Nat /\ NoPid \notin Pids

Workers == Requests \X (0..MaxRetries)   \* a request and its attempt
NoWorker == <<"no worker", 0>>
Earlier == <<"earlier", 0>>              \* a worker of a server that crashed
NoSnap == [owner |-> NoWorker]

VARIABLES
  api,        \* the handler: where it stands, its attempt, its result
  copy,       \* the snapshot the handler has read
  pid, proc,  \* the worker processes
  drafts,     \* the workers that hold a draft in drafts
  snap,       \* the snapshot file of each process id
  active,     \* _ACTIVE_WORKERS
  drafted     \* history: the requests whose handler has met a draft on disk

vars == <<api, copy, pid, proc, drafts, snap, active, drafted>>

W(r) == <<r, api[r].attempt>>
Frames(r) == {pid[<<r, a>>] : a \in 0..api[r].attempt} \ {NoPid}
OuterFrames(r) == {pid[<<r, a>>] : a \in {b \in 0..MaxRetries : b < api[r].attempt}}
Running(w) == proc[w] \in {"started", "running"}   \* its payload is read, or not yet
At(r, place) == api[r].at = place
Go(r, place) == api' = [api EXCEPT ![r].at = place]
End(r, result, from) ==
  api' = [api EXCEPT ![r].at = "over", ![r].result = result, ![r].from = from]

(* What _liveness_kill_reason and _produced_nothing make of a snapshot: a  *)
(* tier asks for the kill or the file has not been written for too long;   *)
(* nothing was produced, and the counters are there to say so.  They are   *)
(* reset by every pass, so that they may say so of any run without a draft.*)
BugKillReason(s) == s # NoSnap /\ s.kill /\ s.draft
KillReason(s) == s # NoSnap /\ s.kill
HasDraft(s) == s # NoSnap /\ s.draft
ProducedNothing(s) == s.barren /\ ~s.draft
Met(r, s) == IF HasDraft(s) THEN drafted \cup {r} ELSE drafted

(* The finally clause of a frame: the table entry and the snapshot file of *)
(* its process id are removed, whosever they are by now.                   *)
Cleared(P) == /\ active' = [p \in Pids |-> IF p \in P THEN NoWorker ELSE active[p]]
              /\ snap' = [p \in Pids |-> IF p \in P THEN NoSnap ELSE snap[p]]

(* A process that has ended holds nothing in drafts any more. *)
Gone(w, how) == /\ proc' = [proc EXCEPT ![w] = how]
                /\ drafts' = drafts \ {w}

-----------------------------------------------------------------------------
(* A server that crashed leaves the snapshot files of its workers behind. *)
Leftover == [owner |-> Earlier, kill |-> TRUE, barren |-> FALSE, draft |-> TRUE]

Init ==
  /\ api = [r \in Requests |-> [at |-> "idle", kind |-> "none", attempt |-> 0,
                                result |-> "none", from |-> NoWorker]]
  /\ copy = [r \in Requests |-> NoSnap]
  /\ pid = [w \in Workers |-> NoPid] /\ proc = [w \in Workers |-> "none"]
  /\ snap = [p \in Pids |-> Leftover]
  /\ active = [p \in Pids |-> NoWorker]
  /\ drafts = {} /\ drafted = {}

(* A process id is free once its process has been waited for. *)
FreePids == Pids \ {pid[w] : w \in {v \in Workers : proc[v] \notin {"none", "reaped"}}}
BugCleanPath(p) == snap
CleanPath(p) == [snap EXCEPT ![p] = NoSnap]
BugListedAs(r, p) == IF api[r].attempt = 0 THEN [active EXCEPT ![p] = W(r)] ELSE active
ListedAs(r, p) == [active EXCEPT ![p] = W(r)]
Begins(r, kind) == At(r, "idle") \/ (At(r, "start") /\ api[r].kind = kind)

(* create_subprocess_exec; a /run is entered in the table and a file that  *)
(* an earlier use of the id has left is unlinked; then its payload is fed. *)
Spawn(r, kind) ==
  /\ Begins(r, kind)
  /\ \E p \in FreePids :
       /\ pid' = [pid EXCEPT ![W(r)] = p]
       /\ IF kind = "run" THEN active' = ListedAs(r, p) /\ snap' = CleanPath(p)
          ELSE UNCHANGED <<active, snap>>
  /\ proc' = [proc EXCEPT ![W(r)] = "started"]
  /\ copy' = [copy EXCEPT ![r] = NoSnap]
  /\ api' = [api EXCEPT ![r].at = "feed", ![r].kind = kind]
  /\ UNCHANGED <<drafts, drafted>>

(* The drain returns: the pipe has taken the payload, read or not. *)
Fed(r) ==
  /\ At(r, "feed")
  /\ Go(r, "poll")
  /\ UNCHANGED <<copy, pid, proc, drafts, snap, active, drafted>>

(* What is waited for outside the try: only the frames around this one are *)
(* left, and the entry and the file of this one stay.                      *)
LeavesOuter(r) == IF api[r].kind = "run" THEN Cleared(OuterFrames(r))
                  ELSE UNCHANGED <<active, snap>>

(* The worker dies before it has read its payload, and the drain raises. *)
FeedFails(r) ==
  /\ At(r, "feed") /\ proc[W(r)] = "unfed"
  /\ Gone(W(r), "reaped")
  /\ End(r, "e500", NoWorker)
  /\ LeavesOuter(r)
  /\ UNCHANGED <<copy, pid, drafted>>

(* The handler is cancelled in the drain: nobody kills its worker, which   *)
(* gets the rest of its payload from the loop and runs on.                 *)
FeedCancelled(r) ==
  /\ At(r, "feed")
  /\ IF Running(W(r)) THEN UNCHANGED <<proc, drafts>> ELSE Gone(W(r), "reaped")
  /\ End(r, "abandoned", NoWorker)
  /\ LeavesOuter(r)
  /\ UNCHANGED <<copy, pid, drafted>>

-----------------------------------------------------------------------------
(* The poll loop.  When communicate has returned the frame is left: the    *)
(* snapshot is read before it is unlinked, and without another wait the    *)
(* parsed answer is returned, or a draft found on disk goes to be          *)
(* repaired, or the request fails.                                         *)
Exited(r) ==
  LET last == snap[pid[W(r)]]
  IN /\ At(r, "poll") /\ api[r].kind = "run" /\ ~Running(W(r))
     /\ drafted' = Met(r, last)
     /\ \/ /\ proc[W(r)] = "answered"
           /\ End(r, "answer", W(r)) /\ Cleared(Frames(r))
           /\ UNCHANGED copy
        \/ /\ proc[W(r)] # "answered" /\ HasDraft(last)
           /\ Go(r, "salvage") /\ Cleared({pid[W(r)]})
           /\ copy' = [copy EXCEPT ![r] = last]
        \/ /\ proc[W(r)] # "answered" /\ ~HasDraft(last)
           /\ End(r, "e500", NoWorker) /\ Cleared(Frames(r))
           /\ UNCHANGED copy
     /\ Gone(W(r), "reaped")
     /\ UNCHANGED pid

(* repair_unguarded_draft has run over the text found on disk; the frames  *)
(* that are still open are left.                                           *)
Repaired(r) ==
  /\ api[r].at \in {"salvage", "repair"}
  /\ End(r, "draft", copy[r].owner)
  /\ Cleared(IF At(r, "repair") THEN Frames(r) ELSE OuterFrames(r))
  /\ copy' = [copy EXCEPT ![r] = NoSnap]
  /\ UNCHANGED <<pid, proc, drafts, drafted>>

(* proc.kill and proc.wait: a worker that has just ended is not changed by *)
(* the signal, but what it wrote to stdout is no longer read.              *)
BugKilled(r) == IF api[r].attempt > 0 THEN UNCHANGED <<proc, drafts>> ELSE Gone(W(r), "reaped")
Killed(r) == Gone(W(r), "reaped")

(* A poll interval has passed and is_disconnected says no ... *)
ClientThere(r) ==
  /\ At(r, "poll") /\ api[r].kind = "run" /\ Running(W(r))
  /\ Go(r, "look")
  /\ UNCHANGED <<copy, pid, proc, drafts, snap, active, drafted>>

(* ... or yes; the worker may have ended while it was asked. *)
ClientGone(r) ==
  /\ At(r, "poll")
  /\ Killed(r)
  /\ End(r, "e499", NoWorker)
  /\ IF api[r].kind = "run" THEN Cleared(Frames(r)) ELSE UNCHANGED <<active, snap>>
  /\ UNCHANGED <<copy, pid, drafted>>

StaysAlive(r) ==
  LET s == snap[pid[W(r)]]
  IN /\ At(r, "look") /\ ~KillReason(s)
     /\ drafted' = Met(r, s)
     /\ Go(r, "poll")
     /\ UNCHANGED <<copy, pid, proc, drafts, snap, active>>

(* A draft is repaired and returned; a run that has produced nothing is    *)
(* run once more, inside the frame of the first; the rest is a 504.        *)
Retries(r) == api[r].attempt < MaxRetries

LivenessKill(r) ==
  LET s == snap[pid[W(r)]]
  IN /\ At(r, "look") /\ KillReason(s)
     /\ drafted' = Met(r, s)
     /\ Killed(r)
     /\ \/ /\ HasDraft(s)
           /\ Go(r, "repair") /\ copy' = [copy EXCEPT ![r] = s]
           /\ UNCHANGED <<active, snap>>
        \/ /\ ~HasDraft(s) /\ ProducedNothing(s) /\ Retries(r)
           /\ api' = [api EXCEPT ![r].at = "start", ![r].attempt = @ + 1]
           /\ UNCHANGED <<active, snap, copy>>
        \/ /\ ~HasDraft(s) /\ ~(ProducedNothing(s) /\ Retries(r))
           /\ End(r, "e504", NoWorker) /\ Cleared(Frames(r))
           /\ UNCHANGED copy
     /\ UNCHANGED pid

(* /stream: end of file or an error line ends the generator, whose finally *)
(* kills what still runs.                                                  *)
StreamEnds(r) ==
  /\ At(r, "poll") /\ api[r].kind = "stream" /\ ~Running(W(r))
  /\ Gone(W(r), "reaped")
  /\ End(r, IF proc[W(r)] = "answered" THEN "answer" ELSE "e500", W(r))
  /\ UNCHANGED <<copy, pid, snap, active, drafted>>

(* The handler is cancelled in one of its waits inside a try, or in the    *)
(* repair behind it: kill, and every frame that is open is left.  (asyncio *)
(* itself kills a process whose creation is cancelled, at "start".)        *)
HandlerCancelled(r) ==
  /\ api[r].at \in {"start", "poll", "repair", "salvage"}
  /\ Killed(r)
  /\ End(r, "cancelled", NoWorker)
  /\ IF api[r].kind # "run" THEN UNCHANGED <<active, snap>>
     ELSE Cleared(IF api[r].at \in {"start", "salvage"} THEN OuterFrames(r) ELSE Frames(r))
  /\ copy' = [copy EXCEPT ![r] = NoSnap]
  /\ UNCHANGED <<pid, drafted>>

(* How a worker ends that is killed or dies: nobody waits for one whose    *)
(* request is over, and the loop reaps it at once.                         *)
Ended(w, how) == IF At(w[1], "over") THEN "reaped" ELSE how
Dead(w) == Ended(w, IF proc[w] = "started" THEN "unfed" ELSE "dead")

(* POST /runs/{pid}/cancel *)
CancelRun(p) ==
  /\ active[p] # NoWorker /\ Running(active[p])
  /\ Gone(active[p], Dead(active[p]))
  /\ UNCHANGED <<api, copy, pid, snap, active, drafted>>

-----------------------------------------------------------------------------
(* The worker.  Only a /run hands it a path for the snapshot, and nothing  *)
(* else of what it has produced is seen from outside before it ends.       *)
Reports(w) == proc[w] = "running" /\ api[w[1]].kind = "run"
Outside == <<api, copy, pid, proc, active, drafted>>

ReadsPayload(w) ==
  /\ proc[w] = "started"
  /\ proc' = [proc EXCEPT ![w] = "running"]
  /\ UNCHANGED <<api, copy, pid, drafts, snap, active, drafted>>

Drafts(w) ==
  /\ Reports(w) /\ w \notin drafts
  /\ drafts' = drafts \cup {w}
  /\ UNCHANGED <<Outside, snap>>

(* A tick of _run_heartbeat: the counters of this pass, the draft of the   *)
(* run, and whatever the tiers read.                                       *)
Heartbeat(w) ==
  /\ Reports(w)
  /\ \E kill \in BOOLEAN, barren \in {FALSE, w \notin drafts} :
       snap' = [snap EXCEPT ![pid[w]] =
                  [owner |-> w, kill |-> kill, barren |-> barren, draft |-> w \in drafts]]
  /\ UNCHANGED <<Outside, drafts>>

(* _touch_liveness_snapshot between two passes: only written_at is new. *)
Touch(w) ==
  /\ Reports(w)
  /\ snap' = [snap EXCEPT ![pid[w]] =
                IF @ = NoSnap
                THEN [owner |-> w, kill |-> FALSE, barren |-> FALSE, draft |-> FALSE]
                ELSE [@ EXCEPT !.kill = FALSE]]
  /\ UNCHANGED <<Outside, drafts>>

(* More time than the threshold passes without a write: the worker hangs,  *)
(* or is busy, or is dead.                                                 *)
SnapshotAges(p) ==
  /\ snap[p] # NoSnap /\ ~snap[p].kill
  /\ snap' = [snap EXCEPT ![p].kill = TRUE]
  /\ UNCHANGED <<Outside, drafts>>

Answers(w) ==
  /\ proc[w] = "running"
  /\ Gone(w, Ended(w, "answered"))
  /\ UNCHANGED <<api, copy, pid, snap, active, drafted>>

Dies(w) ==
  /\ Running(w)
  /\ Gone(w, Dead(w))
  /\ UNCHANGED <<api, copy, pid, snap, active, drafted>>

-----------------------------------------------------------------------------
(* A retry is a /run.  The drain is sure to return only when the worker    *)
(* has read its payload or has died.                                       *)
Handler(r) ==
  \/ At(r, "start") /\ Spawn(r, "run")
  \/ proc[W(r)] # "started" /\ Fed(r)
  \/ FeedFails(r)
  \/ Exited(r) \/ Repaired(r) \/ ClientThere(r) \/ ClientGone(r) \/ StaysAlive(r)
  \/ LivenessKill(r) \/ StreamEnds(r)

Request(r) ==
  /\ At(r, "idle")
  /\ \E kind \in {"run", "stream"} : Spawn(r, kind)

Worker(w) ==
  \/ ReadsPayload(w) \/ Drafts(w) \/ Heartbeat(w) \/ Touch(w)
  \/ Answers(w) \/ Dies(w)

Next ==
  \/ \E r \in Requests :
       Request(r) \/ Handler(r) \/ Fed(r) \/ HandlerCancelled(r) \/ FeedCancelled(r)
  \/ \E p \in Pids : CancelRun(p) \/ SnapshotAges(p)
  \/ \E w \in Workers : Worker(w)

Safety == Init /\ [][Next]_vars

(* The event loop of the server runs every handler on. *)
Spec == Safety /\ \A r \in Requests : WF_vars(Handler(r))

-----------------------------------------------------------------------------
(* Types; a process id belongs to one process at a time. *)
TypeOK ==
  /\ \A r \in Requests :
       /\ api[r].at \in {"idle", "start", "feed", "poll", "look", "repair", "salvage", "over"}
       /\ api[r].attempt \in 0..MaxRetries
       /\ api[r].result \in {"none", "answer", "draft", "e499", "e500", "e504", "cancelled",
                             "abandoned"}
  /\ pid \in [Workers -> Pids \cup {NoPid}]
  /\ proc \in [Workers -> {"none", "started", "running", "answered", "dead", "unfed", "reaped"}]
  /\ \A v, w \in Workers : v # w /\ Running(v) /\ Running(w) => pid[v] # pid[w]
  /\ \A p \in Pids : active[p] \in Workers \cup {NoWorker}

(* The handler of this request was cancelled while it fed its worker.      *)
Abandoned(r) == api[r].result = "abandoned"

(* No run is left behind: whichever way a request ends - answer, error,    *)
(* client gone, liveness kill, cancellation - its workers are dead, and a  *)
(* second attempt never runs beside the first.  The one way that leaves a  *)
(* worker is a cancellation in the drain of its payload.                   *)
NoWorkerLeftBehind ==
  \A r \in Requests :
    /\ At(r, "over") /\ ~Abandoned(r) => \A a \in 0..MaxRetries : ~Running(<<r, a>>)
    /\ Cardinality({a \in 0..MaxRetries : Running(<<r, a>>)}) <= 1

(* What the code says of itself, that a client that leaves has its worker  *)
(* killed whatever becomes of the handler: it does not hold.               *)
EveryWorkerIsKilled ==
  \A r \in Requests : At(r, "over") => \A a \in 0..MaxRetries : ~Running(<<r, a>>)

(* Another request has used the process id of this one. *)
SharesPid(r) ==
  \E q \in Requests \ {r} : pid[W(r)] \in {pid[<<q, a>>] : a \in 0..MaxRetries}

(* A draft that was on disk when its run was given up reaches the caller   *)
(* (the file is read before it is unlinked), and a draft that is returned  *)
(* was written by a worker of this very request, although the path of the  *)
(* file is only a process id that others have used.  A draft is lost only  *)
(* to a request that leaves the frame of a dead worker with the same id.   *)
DraftsReachTheirCaller ==
  \A r \in Requests :
    /\ api[r].result = "draft" => api[r].from \in {r} \X (0..MaxRetries)
    /\ api[r].result \in {"e500", "e504"} /\ api[r].kind = "run" /\ ~SharesPid(r)
       => r \notin drafted

(* While its handler feeds it or waits for it, a running worker of a /run  *)
(* is listed and can be cancelled under its process id, retries included.  *)
(* It is lost only when a request leaves the frame of a dead attempt that  *)
(* had the same id.                                                        *)
Listed ==
  \A r \in Requests :
    /\ api[r].kind = "run" /\ api[r].at \in {"feed", "poll", "look"}
    /\ Running(W(r)) /\ active[pid[W(r)]] # W(r)
    => SharesPid(r)

(* A worker whose snapshot asks for the kill, because a tier has fired or  *)
(* because it has stopped writing, does not run on forever; unless its     *)
(* request was given up while it was fed, and nobody looks any more.       *)
StalledWorkersEnd ==
  \A w \in Workers :
    []<>~(Running(w) /\ ~Abandoned(w[1]) /\ snap[pid[w]].owner = w /\ snap[pid[w]].kill)
=============================================================================

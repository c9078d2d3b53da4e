----------------------- MODULE WorkerSupervisorProofs -----------------------
(***************************************************************************)
(* Any requests, process ids and retries: no worker outlives its request,  *)
(* a worker that is waited for is listed, and a draft found on disk        *)
(* reaches the caller it belongs to.                                       *)
(***************************************************************************)
EXTENDS WorkerSupervisor, FiniteSetTheorems, TLAPS

Attempts == 0..MaxRetries
Snapshot == [owner : Workers \cup {Earlier}, kill : BOOLEAN, barren : BOOLEAN, draft : BOOLEAN]
Row == [at : {"idle", "start", "feed", "poll", "look", "repair", "salvage", "over"},
        kind : {"none", "run", "stream"}, attempt : Attempts,
        result : {"none", "answer", "draft", "e499", "e500", "e504", "cancelled", "abandoned"},
        from : Workers \cup {NoWorker, Earlier}]

Phases == {"none", "started", "running", "answered", "dead", "unfed", "reaped"}

Shape ==
  /\ api \in [Requests -> Row]
  /\ copy \in [Requests -> Snapshot \cup {NoSnap}]
  /\ pid \in [Workers -> Pids \cup {NoPid}]
  /\ proc \in [Workers -> Phases]
  /\ snap \in [Pids -> Snapshot \cup {NoSnap}]
  /\ active \in [Pids -> Workers \cup {NoWorker}]
  /\ drafts \subseteq Workers /\ drafted \subseteq Requests

(* A process that has not been waited for keeps its id to itself.          *)
Held(w) == proc[w] \notin {"none", "reaped"}
OwnPids == \A v, w \in Workers : v # w /\ Held(v) /\ Held(w) => pid[v] # pid[w]

(* A file that shows a draft does not say that nothing was produced.       *)
DraftIsNotBarren == \A p \in Pids : snap[p] # NoSnap => ~(snap[p].draft /\ snap[p].barren)

Waiting(r) == api[r].at \in {"feed", "poll", "look"}
File(r) == snap[pid[W(r)]]

(* The attempts of a request are made in turn: the current one is the only *)
(* one that holds a process, and only while the handler waits for it, or   *)
(* after it was cancelled in the drain.                                    *)
InTurn(r) ==
  /\ \A a \in Attempts :
       a > api[r].attempt \/ (a = api[r].attempt /\ api[r].at \in {"idle", "start"})
         => proc[<<r, a>>] = "none" /\ pid[<<r, a>>] = NoPid
  /\ \A a \in Attempts : Held(<<r, a>>) =>
       a = api[r].attempt /\ (Waiting(r) \/ (Abandoned(r) /\ Running(<<r, a>>)))
  /\ Waiting(r) => Held(W(r))
  /\ api[r].at \notin {"idle", "start"} /\ api[r].result # "cancelled" => pid[W(r)] \in Pids
  /\ api[r].at \in {"start", "look", "repair", "salvage"} => api[r].kind = "run"
  /\ api[r].result # "none" => At(r, "over")

(* What a handler that waits finds under the id of its worker was written  *)
(* by that worker, which holds the draft it shows as long as it runs.      *)
OwnFile(r) ==
  Waiting(r) /\ api[r].kind = "run" =>
    \/ File(r) = NoSnap
    \/ File(r).owner = W(r) /\ (Running(W(r)) /\ File(r).draft => W(r) \in drafts)

(* Once a handler has met a draft there is no retry, and unless its id is  *)
(* another's too the file goes on showing one.                             *)
MetDraft(r) ==
  r \in drafted =>
    /\ api[r].at \notin {"idle", "start", "feed"} /\ ~Abandoned(r)
    /\ Waiting(r) /\ api[r].kind = "run" =>
         /\ File(r) # NoSnap => ~File(r).barren
         /\ Running(W(r)) => W(r) \in drafts
         /\ HasDraft(File(r)) \/ SharesPid(r)
    /\ api[r].result \in {"e500", "e504"} /\ api[r].kind = "run" => SharesPid(r)

(* The draft that is repaired and returned is the request's own.           *)
OwnDraft(r) ==
  /\ api[r].at \in {"repair", "salvage"} => copy[r].owner \in {r} \X Attempts
  /\ api[r].result = "draft" => api[r].from \in {r} \X Attempts

ListedOwn(r) ==
  Waiting(r) /\ api[r].kind = "run" => active[pid[W(r)]] = W(r) \/ SharesPid(r)

Good(r) == InTurn(r) /\ OwnFile(r) /\ MetDraft(r) /\ OwnDraft(r) /\ ListedOwn(r)

SupervisorInv == Shape /\ OwnPids /\ DraftIsNotBarren /\ \A r \in Requests : Good(r)

-----------------------------------------------------------------------------
(* Facts about the data                                                    *)

(* Workers are pairs, the current one of a request is one of its own.      *)
LEMMA WorkersArePairs ==
  /\ \A r \in Requests, a \in Attempts : <<r, a>> \in Workers
  /\ \A w \in Workers : w = <<w[1], w[2]>> /\ w[1] \in Requests /\ w[2] \in Attempts
  BY DEF Workers, Attempts

(* The attempt a handler stands at is a worker of its request.             *)
LEMMA CurrentWorker ==
  ASSUME Shape, NEW r \in Requests
  PROVE  /\ api[r].attempt \in Attempts /\ W(r) = <<r, api[r].attempt>> /\ W(r) \in Workers
         /\ \A q \in Requests \ {r} : W(q) # W(r)
  BY WorkersArePairs DEF Shape, Row, W

(* A handler that waits has no result yet, and its worker has an id.       *)
LEMMA WaitingIsOpen ==
  ASSUME NEW r \in Requests, InTurn(r), Waiting(r)
  PROVE  /\ api[r].result = "none" /\ ~Abandoned(r) /\ ~At(r, "over")
         /\ api[r].at # "start" /\ api[r].at # "idle"
         /\ Held(W(r)) /\ pid[W(r)] \in Pids
  BY DEF InTurn, Waiting, Abandoned, At

(* A file that was written is not a missing one.                           *)
LEMMA SnapshotIsThere == \A s \in Snapshot : s # NoSnap
<1>. SUFFICES ASSUME NEW s \in Snapshot PROVE s # NoSnap
  OBVIOUS
<1>1. "kill" \in DOMAIN s
  BY DEF Snapshot
<1>2. DOMAIN NoSnap = {"owner"}
  BY DEF NoSnap
<1>. QED
  BY <1>1, <1>2

(* At first nothing runs, and the files of a crash are another's.          *)
LEMMA InitSupervisor == Init => SupervisorInv
<1>. SUFFICES ASSUME Init PROVE SupervisorInv
  OBVIOUS
<1>1. Leftover \in Snapshot /\ Leftover.draft /\ ~Leftover.barren
  BY DEF Leftover, Snapshot
<1>2. 0 \in Attempts
  BY SupervisorAssumptions DEF Attempts
<1>3. Shape
  <2>1. api \in [Requests -> Row]
    BY <1>2 DEF Init, Row
  <2>. QED
    BY <1>1, <2>1 DEF Init, Shape, Phases
<1>4. OwnPids
  BY DEF Init, OwnPids, Held
<1>5. DraftIsNotBarren
  BY <1>1 DEF Init, DraftIsNotBarren
<1>6. ASSUME NEW r \in Requests PROVE Good(r)
  <2>1. /\ api[r].at = "idle" /\ api[r].kind = "none" /\ api[r].attempt = 0
        /\ api[r].result = "none"
    BY DEF Init
  <2>2. \A a \in Attempts : proc[<<r, a>>] = "none" /\ pid[<<r, a>>] = NoPid
    BY WorkersArePairs DEF Init
  <2>3. InTurn(r)
    BY <2>1, <2>2 DEF InTurn, Held, Waiting
  <2>4. r \notin drafted
    BY DEF Init
  <2>. QED
    BY <2>1, <2>3, <2>4 DEF Good, OwnFile, MetDraft, OwnDraft, ListedOwn, Waiting
<1>. QED
  BY <1>3, <1>4, <1>5, <1>6 DEF SupervisorInv

-----------------------------------------------------------------------------
(* A request that a step passes by                                         *)

(* The same file, but for the kill it may ask for.                         *)
Same(s, t) ==
  s = t \/ (s # NoSnap /\ t # NoSnap /\ s.owner = t.owner /\ s.draft = t.draft /\ s.barren = t.barren)

(* Nothing of its own changes but that its worker may end; its file and    *)
(* its entry stay, or are removed by one that has used the same id.        *)
LEMMA Bystander ==
  ASSUME SupervisorInv, NEW q \in Requests, api'[q] = api[q], copy'[q] = copy[q],
         q \in drafted' => q \in drafted,
         \A a \in Attempts :
           /\ \/ proc'[<<q, a>>] = proc[<<q, a>>]
              \/ /\ Running(<<q, a>>) /\ proc'[<<q, a>>] # "none"
                 /\ (At(q, "over") /\ ~Running(<<q, a>>)') <=> proc'[<<q, a>>] = "reaped"
           /\ pid'[<<q, a>>] = pid[<<q, a>>]
           /\ <<q, a>> \in drafts /\ Running(<<q, a>>)' => <<q, a>> \in drafts',
         \A w \in Workers : pid[w] # NoPid => pid'[w] = pid[w],
         Waiting(q) /\ api[q].kind = "run" =>
           \/ Same(File(q)', File(q)) /\ active'[pid[W(q)]] = active[pid[W(q)]]
           \/ SharesPid(q) /\ File(q)' = NoSnap
  PROVE  Good(q)'
<1>1. /\ Shape /\ InTurn(q) /\ OwnFile(q) /\ MetDraft(q) /\ OwnDraft(q) /\ ListedOwn(q)
  BY DEF SupervisorInv, Good
<1>2. W(q)' = W(q) /\ W(q) \in Workers /\ pid'[W(q)] = pid[W(q)] /\ Waiting(q)' = Waiting(q)
  BY <1>1, CurrentWorker DEF W, Waiting
<1>3. \A a \in Attempts :
        /\ Held(<<q, a>>)' => Held(<<q, a>>)
        /\ Held(<<q, a>>) => Held(<<q, a>>)' \/ At(q, "over")
        /\ Running(<<q, a>>) /\ At(q, "over") => Running(<<q, a>>)' \/ ~Held(<<q, a>>)'
  BY DEF Held, Running
<1>4. InTurn(q)'
  <2>1. Waiting(q) => Held(W(q))'
    <3>1. W(q) = <<q, api[q].attempt>> /\ api[q].attempt \in Attempts
      BY <1>1, CurrentWorker
    <3>. QED
      BY <1>1, <1>2, <1>3, <3>1 DEF InTurn, At, Waiting
  <2>2. \A a \in Attempts : proc[<<q, a>>] = "none" => proc'[<<q, a>>] = "none"
    BY DEF Running
  <2>3. \A a \in Attempts :
          a > api'[q].attempt \/ (a = api'[q].attempt /\ api'[q].at \in {"idle", "start"})
            => proc'[<<q, a>>] = "none" /\ pid'[<<q, a>>] = NoPid
    BY <1>1, <2>2 DEF InTurn
  <2>4. api'[q].at \notin {"idle", "start"} /\ api'[q].result # "cancelled"
          => pid'[W(q)'] \in Pids
    BY <1>1, <1>2 DEF InTurn
  <2>5. \A a \in Attempts : Held(<<q, a>>)' =>
          a = api'[q].attempt /\ (Waiting(q)' \/ (Abandoned(q)' /\ Running(<<q, a>>)'))
    <3>. SUFFICES ASSUME NEW a \in Attempts, Held(<<q, a>>)'
                  PROVE  a = api[q].attempt /\ (Waiting(q) \/ (Abandoned(q) /\ Running(<<q, a>>)'))
      BY <1>1, <1>2 DEF Abandoned
    <3>1. Held(<<q, a>>)
      BY <1>3
    <3>2. a = api[q].attempt /\ (Waiting(q) \/ (Abandoned(q) /\ Running(<<q, a>>)))
      BY <1>1, <3>1 DEF InTurn
    <3>3. Abandoned(q) => At(q, "over")
      BY <1>1 DEF InTurn, Abandoned
    <3>4. Running(<<q, a>>) /\ At(q, "over") => Running(<<q, a>>)'
      BY <1>3
    <3>5. CASE Waiting(q)
      BY <3>2, <3>5 DEF Waiting
    <3>6. CASE Abandoned(q) /\ Running(<<q, a>>)
      BY <3>2, <3>3, <3>4, <3>6
    <3>. QED
      BY <3>2, <3>5, <3>6
  <2>. QED
    BY <1>1, <1>2, <2>1, <2>3, <2>4, <2>5 DEF InTurn, At
<1>5. /\ Running(W(q))' => Running(W(q))
      /\ Running(W(q))' /\ W(q) \in drafts => W(q) \in drafts'
  BY <1>1, <1>2, CurrentWorker DEF Running
<1>6. api[q].at \notin {"idle", "start"} /\ api[q].result # "cancelled" /\ SharesPid(q)
        => SharesPid(q)'
  <2>. SUFFICES ASSUME api[q].at \notin {"idle", "start"}, api[q].result # "cancelled",
                       SharesPid(q)
                PROVE  SharesPid(q)'
    OBVIOUS
  <2>1. pid[W(q)] \in Pids
    BY <1>1 DEF InTurn
  <2>2. PICK p \in Requests \ {q}, a \in Attempts : pid[W(q)] = pid[<<p, a>>]
    BY DEF SharesPid, Attempts
  <2>3. pid'[<<p, a>>] = pid[<<p, a>>]
    BY <2>1, <2>2, WorkersArePairs, SupervisorAssumptions
  <2>. QED
    BY <1>2, <2>2, <2>3 DEF SharesPid, Attempts
<1>7. OwnFile(q)'
  BY <1>1, <1>2, <1>5 DEF OwnFile, Same
<1>8. MetDraft(q)'
  <2>. SUFFICES ASSUME q \in drafted PROVE MetDraft(q)'
    BY DEF MetDraft
  <2>1. api[q].result # "none" => api[q].at \notin {"idle", "start"}
    BY <1>1 DEF InTurn, At
  <2>2. api'[q].at \notin {"idle", "start", "feed"} /\ ~Abandoned(q)'
    BY <1>1 DEF MetDraft, Abandoned
  <2>3. api'[q].result \in {"e500", "e504"} /\ api'[q].kind = "run" => SharesPid(q)'
    BY <1>1, <1>6, <2>1 DEF MetDraft
  <2>4. ASSUME Waiting(q), api[q].kind = "run"
        PROVE  /\ File(q)' # NoSnap => ~File(q)'.barren
               /\ Running(W(q))' => (W(q) \in drafts)'
               /\ HasDraft(File(q))' \/ SharesPid(q)'
    <3>1. (File(q)' = NoSnap /\ SharesPid(q)) \/ Same(File(q)', File(q))
      BY <2>4
    <3>2. HasDraft(File(q)) /\ Same(File(q)', File(q)) => HasDraft(File(q))'
      BY DEF HasDraft, Same
    <3>3. File(q)' # NoSnap => ~File(q)'.barren
      BY <1>1, <2>4, <3>1 DEF MetDraft, Same
    <3>4. Running(W(q))' => (W(q) \in drafts)'
      BY <1>1, <1>2, <1>5, <2>4 DEF MetDraft
    <3>5. HasDraft(File(q))' \/ SharesPid(q)'
      BY <1>1, <1>6, <2>2, <2>4, <3>1, <3>2 DEF MetDraft, InTurn, Waiting, At
    <3>. QED
      BY <3>3, <3>4, <3>5
  <2>. QED
    BY <1>2, <2>2, <2>3, <2>4 DEF MetDraft
<1>9. OwnDraft(q)'
  BY <1>1 DEF OwnDraft
<1>10. ListedOwn(q)'
  BY <1>1, <1>2, <1>6 DEF ListedOwn, Waiting, InTurn, At
<1>. QED
  BY <1>4, <1>7, <1>8, <1>9, <1>10 DEF Good

(* A step of the handler of r passes the others by: it changes its own     *)
(* worker, and the files and entries of the ids it has used or takes.      *)
LEMMA HandlerPassesBy ==
  ASSUME SupervisorInv, NEW r \in Requests,
         \A q \in Requests \ {r} : api'[q] = api[q] /\ copy'[q] = copy[q],
         drafted' \subseteq drafted \cup {r},
         \A w \in Workers \ {W(r)} :
           /\ proc'[w] = proc[w] /\ pid'[w] = pid[w] /\ (w \in drafts => w \in drafts'),
         pid'[W(r)] = pid[W(r)] \/ pid[W(r)] = NoPid,
         \A p \in Pids : \/ snap'[p] = snap[p] /\ active'[p] = active[p]
                         \/ p \in Frames(r) /\ snap'[p] = NoSnap
                         \/ p \in FreePids
  PROVE  \A q \in Requests \ {r} : Good(q)'
<1>. SUFFICES ASSUME NEW q \in Requests, q # r PROVE Good(q)'
  OBVIOUS
<1>1. Shape /\ InTurn(q)
  BY DEF SupervisorInv, Good
<1>2. \A a \in Attempts : <<q, a>> \in Workers /\ <<q, a>> # W(r)
  BY WorkersArePairs DEF W
<1>3. ASSUME Waiting(q)
      PROVE  \/ File(q)' = File(q) /\ active'[pid[W(q)]] = active[pid[W(q)]]
             \/ SharesPid(q) /\ File(q)' = NoSnap
  <2>1. /\ W(q)' = W(q) /\ W(q) \in Workers /\ W(q) # W(r)
        /\ pid'[W(q)] = pid[W(q)] /\ pid[W(q)] \in Pids
      BY <1>1, <1>3, CurrentWorker, WaitingIsOpen DEF W
  <2>2. pid[W(q)] \notin FreePids
    BY <1>1, <1>3, <2>1 DEF InTurn, FreePids, Held
  <2>3. pid[W(q)] \in Frames(r) => SharesPid(q)
    <3>. SUFFICES ASSUME pid[W(q)] \in Frames(r) PROVE SharesPid(q)
      OBVIOUS
    <3>1. PICK a \in 0..api[r].attempt : pid[W(q)] = pid[<<r, a>>]
      BY DEF Frames
    <3>2. a \in 0..MaxRetries
      BY <1>1, SupervisorAssumptions DEF Shape, Row, Attempts
    <3>. QED
      BY <3>1, <3>2 DEF SharesPid
  <2>. QED
    BY <2>1, <2>2, <2>3 DEF File
<1>. QED
  BY <1>2, <1>3, Bystander DEF Same

-----------------------------------------------------------------------------
(* The workers                                                             *)

(* A running worker is the current one of a request that waits for it, or  *)
(* has left it alone.                                                      *)
LEMMA RunningIsWaitedFor ==
  ASSUME SupervisorInv, NEW w \in Workers, Held(w)
  PROVE  /\ w[1] \in Requests /\ w = W(w[1]) /\ pid[w] \in Pids
         /\ Waiting(w[1]) \/ Abandoned(w[1])
         /\ At(w[1], "over") <=> Abandoned(w[1])
<1>1. w = <<w[1], w[2]>> /\ w[1] \in Requests /\ w[2] \in Attempts
  BY WorkersArePairs
<1>2. InTurn(w[1])
  BY <1>1 DEF SupervisorInv, Good
<1>3. w[2] = api[w[1]].attempt /\ (Waiting(w[1]) \/ Abandoned(w[1]))
  BY <1>1, <1>2 DEF InTurn
<1>. QED
  BY <1>1, <1>2, <1>3 DEF W, InTurn, Waiting, Abandoned, At

(* A worker reads its payload, ends by itself or is cancelled under its id.*)
LEMMA WorkerMoves ==
  ASSUME SupervisorInv, NEW w \in Workers, Running(w),
         NEW how \in {"running", "answered", "dead", "unfed", "reaped"},
         how # "running" => (how = "reaped" <=> At(w[1], "over")),
         proc' = [proc EXCEPT ![w] = how],
         drafts' = IF how = "running" THEN drafts ELSE drafts \ {w},
         UNCHANGED <<api, copy, pid, snap, active, drafted>>
  PROVE  SupervisorInv'
<1>1. /\ \A v \in Workers \ {w} : proc'[v] = proc[v]
      /\ proc'[w] = how /\ \A v \in Workers \ {w} : v \in drafts <=> v \in drafts'
      /\ Running(w)' <=> how = "running"
  BY DEF SupervisorInv, Shape, Running
<1>2. Shape'
  BY DEF SupervisorInv, Shape, Phases
<1>3. OwnPids'
  BY <1>1 DEF SupervisorInv, OwnPids, Held, Running
<1>4. DraftIsNotBarren'
  BY DEF SupervisorInv, DraftIsNotBarren
<1>5. ASSUME NEW q \in Requests PROVE Good(q)'
  <2>1. \A a \in Attempts :
          /\ \/ proc'[<<q, a>>] = proc[<<q, a>>]
             \/ /\ Running(<<q, a>>) /\ proc'[<<q, a>>] # "none"
                /\ (At(q, "over") /\ ~Running(<<q, a>>)') <=> proc'[<<q, a>>] = "reaped"
          /\ <<q, a>> \in drafts /\ Running(<<q, a>>)' => <<q, a>> \in drafts'
    <3>. SUFFICES ASSUME NEW a \in Attempts
                  PROVE  /\ \/ proc'[<<q, a>>] = proc[<<q, a>>]
                            \/ /\ Running(<<q, a>>) /\ proc'[<<q, a>>] # "none"
                               /\ (At(q, "over") /\ ~Running(<<q, a>>)')
                                    <=> proc'[<<q, a>>] = "reaped"
                         /\ <<q, a>> \in drafts /\ Running(<<q, a>>)' => <<q, a>> \in drafts'
      OBVIOUS
    <3>1. <<q, a>> \in Workers
      BY WorkersArePairs
    <3>2. CASE <<q, a>> # w
      BY <1>1, <3>1, <3>2
    <3>3. CASE <<q, a>> = w
      <4>1. w[1] = q
        BY <3>3
      <4>2. Running(<<q, a>>)' <=> how = "running"
        BY <1>1, <3>3
      <4>. QED
        BY <1>1, <3>3, <4>1, <4>2
    <3>. QED
      BY <3>2, <3>3
  <2>2. Same(File(q)', File(q))
    BY DEF File, W, Same
  <2>. QED
    BY <2>1, <2>2, Bystander
<1>. QED
  BY <1>2, <1>3, <1>4, <1>5 DEF SupervisorInv

(* A worker is killed or dies, or answers.                                 *)
LEMMA WorkerStops ==
  ASSUME SupervisorInv, NEW w \in Workers, Running(w),
         Gone(w, Dead(w)) \/ Gone(w, Ended(w, "answered")),
         UNCHANGED <<api, copy, pid, snap, active, drafted>>
  PROVE  SupervisorInv'
<1>1. PICK how \in {"answered", "dead", "unfed", "reaped"} :
        Gone(w, how) /\ (how = "reaped" <=> At(w[1], "over"))
  BY DEF Dead, Ended
<1>. QED
  BY <1>1, WorkerMoves DEF Gone

(* Somebody writes a file, or a worker comes to hold a draft.              *)
LEMMA MarksKept ==
  ASSUME SupervisorInv, UNCHANGED Outside, drafts \subseteq drafts', drafts' \subseteq Workers,
         snap' \in [Pids -> Snapshot \cup {NoSnap}], \A p \in Pids : Same(snap'[p], snap[p])
  PROVE  SupervisorInv'
<1>1. Shape' /\ OwnPids' /\ DraftIsNotBarren'
  BY DEF SupervisorInv, Shape, OwnPids, Held, DraftIsNotBarren, Outside, Same
<1>2. ASSUME NEW q \in Requests PROVE Good(q)'
  <2>1. Waiting(q) => Same(File(q)', File(q))
    <3>. SUFFICES ASSUME Waiting(q) PROVE Same(snap'[pid[W(q)]], snap[pid[W(q)]])
      BY DEF File, W, Outside
    <3>. QED
      BY WaitingIsOpen DEF SupervisorInv, Good
  <2>. QED
    BY <2>1, Bystander DEF Outside
<1>. QED
  BY <1>1, <1>2 DEF SupervisorInv

(* A worker writes its file.                                               *)
LEMMA FileWritten ==
  ASSUME SupervisorInv, NEW w \in Workers, Reports(w), UNCHANGED <<Outside, drafts>>,
         NEW s \in Snapshot, snap' = [snap EXCEPT ![pid[w]] = s], s.owner = w,
         s.draft => w \in drafts /\ ~s.barren,
         w[1] \in drafted => ~s.barren /\ (s.draft \/ SharesPid(w[1]))
  PROVE  SupervisorInv'
<1>. DEFINE r == w[1]
<1>1. Running(w) /\ Held(w) /\ api[r].kind = "run"
  BY DEF Reports, Running, Held
<1>2. r \in Requests /\ w = W(r) /\ pid[w] \in Pids /\ (Waiting(r) \/ Abandoned(r))
  BY <1>1, RunningIsWaitedFor
<1>3. Shape' /\ OwnPids'
  BY DEF SupervisorInv, Shape, OwnPids, Held, Outside
<1>4. s # NoSnap
  BY SnapshotIsThere
<1>5. snap'[pid[w]] = s /\ \A p \in Pids \ {pid[w]} : snap'[p] = snap[p]
  BY <1>2 DEF SupervisorInv, Shape
<1>6. DraftIsNotBarren'
  BY <1>5 DEF SupervisorInv, DraftIsNotBarren
<1>7. ASSUME NEW q \in Requests, q # r PROVE Good(q)'
  <2>1. Waiting(q) => Same(File(q)', File(q))
    <3>. SUFFICES ASSUME Waiting(q) PROVE File(q)' = File(q)
      BY DEF Same
    <3>1. W(q) \in Workers /\ W(q) # w /\ Held(W(q)) /\ pid[W(q)] \in Pids
      BY <1>2, <1>7, CurrentWorker, WaitingIsOpen DEF SupervisorInv, Good
    <3>2. pid[W(q)] # pid[w]
      BY <1>1, <3>1 DEF SupervisorInv, OwnPids
    <3>. QED
      BY <1>5, <3>1, <3>2 DEF File, W, Outside
  <2>. QED
    BY <2>1, Bystander DEF Outside
<1>8. Good(r)'
  <2>1. W(r)' = w /\ File(r)' = s /\ Waiting(r)' = Waiting(r) /\ Abandoned(r)' = Abandoned(r)
    BY <1>2, <1>5 DEF W, File, Waiting, Abandoned, Outside
  <2>2. /\ InTurn(r) /\ OwnDraft(r) /\ ListedOwn(r) /\ MetDraft(r)
    BY <1>2 DEF SupervisorInv, Good
  <2>3. InTurn(r)' /\ OwnDraft(r)' /\ ListedOwn(r)' /\ (SharesPid(r) => SharesPid(r)')
    BY <2>2 DEF InTurn, OwnDraft, ListedOwn, SharesPid, Outside, Held, Waiting, W, At,
      Abandoned, Running
  <2>4. OwnFile(r)'
    BY <2>1 DEF OwnFile, Outside
  <2>5. r \in drafted => W(r) \in drafts /\ Waiting(r)
    BY <1>1, <1>2, <2>2 DEF MetDraft
  <2>6. Waiting(r) => api[r].result = "none"
    BY <2>2 DEF InTurn, Waiting, At
  <2>7. MetDraft(r)'
    BY <1>2, <1>4, <2>1, <2>2, <2>3, <2>5, <2>6 DEF MetDraft, HasDraft, Outside, Waiting
  <2>. QED
    BY <2>3, <2>4, <2>7 DEF Good
<1>. QED
  BY <1>3, <1>6, <1>7, <1>8 DEF SupervisorInv

(* Whatever a worker does, and time.                                       *)
LEMMA WorkerStep ==
  ASSUME SupervisorInv, NEW w \in Workers, Worker(w)
  PROVE  SupervisorInv'
<1>1. CASE Answers(w) \/ Dies(w)
  BY <1>1, WorkerStops DEF Answers, Dies, Running
<1>2. CASE Drafts(w)
  BY <1>2, MarksKept DEF Drafts, Same, Outside, SupervisorInv, Shape
<1>. DEFINE r == w[1]
<1>3. ASSUME Reports(w)
      PROVE  /\ r \in Requests /\ w = W(r) /\ (Waiting(r) \/ Abandoned(r))
             /\ api[r].kind = "run" /\ Running(w) /\ pid[w] \in Pids /\ MetDraft(r)
  BY <1>3, RunningIsWaitedFor DEF Reports, Held, Running, SupervisorInv, Good
<1>4. CASE Heartbeat(w)
  <2>1. PICK kill \in BOOLEAN, barren \in {FALSE, w \notin drafts} :
          snap' = [snap EXCEPT ![pid[w]] =
                     [owner |-> w, kill |-> kill, barren |-> barren, draft |-> w \in drafts]]
    BY <1>4 DEF Heartbeat
  <2>. DEFINE s == [owner |-> w, kill |-> kill, barren |-> barren, draft |-> w \in drafts]
  <2>2. s \in Snapshot
    <3>1. (w \in drafts) \in BOOLEAN
      OBVIOUS
    <3>2. barren \in BOOLEAN
      <4>1. CASE barren = FALSE
        BY <4>1
      <4>2. CASE barren = (w \notin drafts)
        BY <4>2
      <4>. QED
        BY <4>1, <4>2
    <3>3. \A draft \in BOOLEAN :
            [owner |-> w, kill |-> kill, barren |-> barren, draft |-> draft] \in Snapshot
      BY <3>2 DEF Snapshot
    <3>. QED
      BY <3>1, <3>3
  <2>3. r \in drafted => w \in drafts
    BY <1>3, <1>4 DEF Heartbeat, MetDraft
  <2>4. /\ s.owner = w /\ (s.draft => w \in drafts /\ ~s.barren)
        /\ r \in drafted => ~s.barren /\ s.draft
    BY <2>3
  <2>. HIDE DEF s
  <2>. QED
    BY <1>4, <2>1, <2>2, <2>4, FileWritten DEF Heartbeat, s
<1>5. CASE Touch(w)
  <2>1. Reports(w) /\ UNCHANGED <<Outside, drafts>>
    BY <1>5 DEF Touch
  <2>2. CASE snap[pid[w]] = NoSnap
    <3>. DEFINE s == [owner |-> w, kill |-> FALSE, barren |-> FALSE, draft |-> FALSE]
    <3>1. snap' = [snap EXCEPT ![pid[w]] = s]
      BY <1>5, <2>2 DEF Touch
    <3>2. s \in Snapshot
      BY DEF Snapshot
    <3>3. s.owner = w /\ ~s.draft /\ ~s.barren
      OBVIOUS
    <3>4. r \in drafted => SharesPid(r)
      BY <1>3, <2>1, <2>2 DEF MetDraft, HasDraft, File
    <3>. HIDE DEF s
    <3>. QED
      BY <2>1, <3>1, <3>2, <3>3, <3>4, FileWritten
  <2>3. CASE snap[pid[w]] # NoSnap
    <3>. DEFINE s == [snap[pid[w]] EXCEPT !.kill = FALSE]
    <3>1. snap[pid[w]] \in Snapshot /\ snap' = [snap EXCEPT ![pid[w]] = s]
      BY <1>3, <1>5, <2>1, <2>3 DEF Touch, SupervisorInv, Shape
    <3>2. s \in Snapshot /\ Same(s, snap[pid[w]])
      BY <2>3, <3>1, SnapshotIsThere DEF Snapshot, Same
    <3>. HIDE DEF s
    <3>3. /\ snap' \in [Pids -> Snapshot \cup {NoSnap}]
          /\ \A p \in Pids : Same(snap'[p], snap[p])
      BY <3>1, <3>2 DEF SupervisorInv, Shape, Same
    <3>. QED
      BY <2>1, <3>3, MarksKept DEF SupervisorInv, Shape
  <2>. QED
    BY <2>2, <2>3
<1>6. CASE ReadsPayload(w)
  <2>1. Running(w)
    BY <1>6 DEF ReadsPayload, Running
  <2>. QED
    BY <1>6, <2>1, WorkerMoves DEF ReadsPayload
<1>. QED
  BY <1>1, <1>2, <1>4, <1>5, <1>6 DEF Worker

(* A file grows old.                                                       *)
LEMMA SnapshotAgesStep ==
  ASSUME SupervisorInv, NEW p \in Pids, SnapshotAges(p)
  PROVE  SupervisorInv'
<1>. DEFINE s == [snap[p] EXCEPT !.kill = TRUE]
<1>1. snap[p] \in Snapshot /\ snap' = [snap EXCEPT ![p] = s] /\ snap[p] # NoSnap
  BY DEF SnapshotAges, SupervisorInv, Shape
<1>2. s \in Snapshot /\ Same(s, snap[p])
  BY <1>1, SnapshotIsThere DEF Snapshot, Same
<1>. HIDE DEF s
<1>3. /\ snap' \in [Pids -> Snapshot \cup {NoSnap}]
      /\ \A q \in Pids : Same(snap'[q], snap[q])
  BY <1>1, <1>2 DEF SupervisorInv, Shape, Same
<1>. QED
  BY <1>3, MarksKept DEF SnapshotAges, SupervisorInv, Shape

(* POST /runs/{pid}/cancel ends a worker.                                  *)
LEMMA CancelRunStep ==
  ASSUME SupervisorInv, NEW p \in Pids, CancelRun(p)
  PROVE  SupervisorInv'
<1>1. active[p] \in Workers
  BY DEF CancelRun, SupervisorInv, Shape
<1>. QED
  BY <1>1, WorkerStops DEF CancelRun

-----------------------------------------------------------------------------
(* The handler                                                             *)

(* The end of a request: its worker has been waited for.                   *)
LEMMA RequestOver ==
  ASSUME SupervisorInv, NEW r \in Requests, NEW result, NEW from,
         api[r].at # "idle", api[r].at # "start" \/ result = "cancelled", ~At(r, "over"),
         End(r, result, from), pid' = pid,
         \A a \in Attempts \ {api[r].attempt} : proc'[<<r, a>>] = proc[<<r, a>>],
         ~Held(W(r))' \/ (result = "abandoned" /\ (Held(W(r))' => Running(W(r))')),
         result = "abandoned" => r \notin drafted',
         result = "draft" => from \in {r} \X Attempts,
         result \in {"e500", "e504"} /\ api[r].kind = "run" /\ r \in drafted' => SharesPid(r)
  PROVE  Good(r)'
<1>1. /\ api'[r].at = "over" /\ api'[r].result = result /\ api'[r].from = from
      /\ api'[r].attempt = api[r].attempt /\ api'[r].kind = api[r].kind
      /\ api[r].attempt \in Attempts
  BY DEF End, SupervisorInv, Shape, Row
<1>2. /\ W(r)' = W(r) /\ InTurn(r) /\ W(r) = <<r, api[r].attempt>>
      /\ result # "cancelled" => pid[W(r)] \in Pids
  <2>1. InTurn(r) /\ W(r) = <<r, api[r].attempt>> /\ W(r)' = W(r)
    BY <1>1, CurrentWorker DEF W, SupervisorInv, Good
  <2>2. api[r].result # "cancelled"
    BY <2>1 DEF InTurn, At
  <2>. QED
    BY <2>1, <2>2 DEF InTurn
<1>3. InTurn(r)'
  <2>1. \A a \in Attempts : a > api'[r].attempt
          => proc'[<<r, a>>] = "none" /\ pid'[<<r, a>>] = NoPid
    BY <1>1, <1>2, SupervisorAssumptions DEF InTurn, Attempts
  <2>2. \A a \in Attempts : Held(<<r, a>>)' =>
          a = api[r].attempt /\ result = "abandoned" /\ Running(<<r, a>>)'
    BY <1>1, <1>2 DEF InTurn, Held
  <2>. QED
    BY <1>1, <1>2, <2>1, <2>2 DEF InTurn, Waiting, Abandoned, At
<1>4. SharesPid(r) => SharesPid(r)'
  BY <1>2 DEF SharesPid
<1>. QED
  BY <1>1, <1>3, <1>4 DEF Good, OwnFile, MetDraft, OwnDraft, ListedOwn, Waiting, Abandoned

(* A step of a handler that starts no process and keeps its attempt or     *)
(* makes another one: what all of them do to the rest.                     *)
LEMMA HandlerFrame ==
  ASSUME SupervisorInv, NEW r \in Requests, NEW row \in Row,
         api' = [api EXCEPT ![r] = row],
         copy' \in [Requests -> Snapshot \cup {NoSnap}],
         \A q \in Requests \ {r} : copy'[q] = copy[q],
         drafted \subseteq drafted', drafted' \subseteq drafted \cup {r},
         pid' = pid, (UNCHANGED <<proc, drafts>>) \/ Gone(W(r), "reaped"),
         UNCHANGED <<active, snap>> \/ \E P \in SUBSET (Frames(r) \cup {NoPid}) : Cleared(P),
         Good(r)'
  PROVE  SupervisorInv'
<1>1. W(r) \in Workers
  BY CurrentWorker DEF SupervisorInv
<1>2. /\ \A w \in Workers \ {W(r)} : proc'[w] = proc[w] /\ (w \in drafts => w \in drafts')
      /\ proc' \in [Workers -> Phases]
      /\ drafts' \subseteq Workers /\ \A w \in Workers : Held(w)' => Held(w)
  BY <1>1 DEF Gone, SupervisorInv, Shape, Phases, Held
<1>3. \A p \in Pids : \/ snap'[p] = snap[p] /\ active'[p] = active[p]
                      \/ p \in Frames(r) /\ snap'[p] = NoSnap
  BY SupervisorAssumptions DEF Cleared
<1>4. /\ snap' \in [Pids -> Snapshot \cup {NoSnap}]
      /\ active' \in [Pids -> Workers \cup {NoWorker}]
  BY DEF Cleared, SupervisorInv, Shape
<1>5. Shape'
  BY <1>2, <1>4 DEF SupervisorInv, Shape
<1>6. OwnPids' /\ DraftIsNotBarren'
  BY <1>2, <1>3 DEF SupervisorInv, OwnPids, DraftIsNotBarren
<1>7. \A q \in Requests \ {r} : api'[q] = api[q]
  BY DEF SupervisorInv, Shape
<1>8. \A q \in Requests \ {r} : Good(q)'
  BY <1>2, <1>3, <1>7, HandlerPassesBy
<1>. QED
  BY <1>5, <1>6, <1>8 DEF SupervisorInv

(* The row of a request that is over.                                      *)
Results == {"answer", "draft", "e499", "e500", "e504", "cancelled", "abandoned"}

LEMMA RowOver ==
  ASSUME NEW x \in Row, NEW from \in Workers \cup {NoWorker, Earlier},
         NEW result \in Results
  PROVE  [x EXCEPT !.at = "over", !.result = result, !.from = from] \in Row
<1>1. [x EXCEPT !.at = "over"] \in Row
  BY DEF Row
<1>2. \A y \in Row : [y EXCEPT !.result = result] \in Row
  BY DEF Row, Results
<1>3. \A y \in Row : [y EXCEPT !.from = from] \in Row
  BY DEF Row
<1>. QED
  BY <1>1, <1>2, <1>3

(* A handler returns, however it does.                                     *)
LEMMA HandlerEnds ==
  ASSUME SupervisorInv, NEW r \in Requests, NEW result \in Results,
         api[r].at # "idle", api[r].at # "start" \/ result = "cancelled",
         NEW from \in Workers \cup {NoWorker, Earlier}, End(r, result, from),
         copy' \in [Requests -> Snapshot \cup {NoSnap}],
         \A q \in Requests \ {r} : copy'[q] = copy[q], ~At(r, "over"),
         drafted \subseteq drafted', drafted' \subseteq drafted \cup {r}, pid' = pid,
         Gone(W(r), "reaped") \/ (UNCHANGED <<proc, drafts>> /\ (Waiting(r) =>
                                   result = "abandoned" /\ Running(W(r)))),
         result = "abandoned" => Waiting(r) /\ r \notin drafted',
         UNCHANGED <<active, snap>> \/ \E P \in SUBSET (Frames(r) \cup {NoPid}) : Cleared(P),
         result = "draft" => from \in {r} \X Attempts,
         result \in {"e500", "e504"} /\ api[r].kind = "run" /\ r \in drafted' => SharesPid(r)
  PROVE  SupervisorInv'
<1>. DEFINE row == [api[r] EXCEPT !.at = "over", !.result = result, !.from = from]
<1>1. row \in Row /\ api' = [api EXCEPT ![r] = row]
  <2>1. api \in [Requests -> Row] /\ api[r] \in Row
    BY DEF SupervisorInv, Shape
  <2>2. row \in Row
    BY <2>1, RowOver
  <2>3. api' = [api EXCEPT ![r] = row]
    BY <2>1 DEF End
  <2>. QED
    BY <2>2, <2>3
<1>. HIDE DEF row
<1>2. W(r) \in Workers /\ W(r) = <<r, api[r].attempt>> /\ W(r)' = W(r)
  BY CurrentWorker DEF End, SupervisorInv, Shape, Row, W
<1>3. \A a \in Attempts \ {api[r].attempt} : proc'[<<r, a>>] = proc[<<r, a>>]
  BY <1>2, WorkersArePairs DEF Gone, SupervisorInv, Shape
<1>4. ~Held(W(r))' \/ (result = "abandoned" /\ (Held(W(r))' => Running(W(r))'))
  <2>1. CASE Gone(W(r), "reaped")
    BY <1>2, <2>1 DEF Gone, Held, SupervisorInv, Shape
  <2>2. CASE UNCHANGED <<proc, drafts>> /\ Waiting(r)
    <3>1. result = "abandoned" /\ Running(W(r))
      <4>1. W(r) \in Workers /\ proc'[W(r)] = proc[W(r)] /\ Held(W(r))
        BY <1>2, <2>2, WaitingIsOpen DEF SupervisorInv, Good
      <4>2. ~Gone(W(r), "reaped")
        BY <4>1 DEF Gone, SupervisorInv, Shape, Held
      <4>. QED
        BY <2>2, <4>2
    <3>. QED
      BY <1>2, <2>2, <3>1 DEF Running
  <2>3. CASE UNCHANGED <<proc, drafts>> /\ ~Waiting(r)
    <3>1. api[r].result = "none" \/ At(r, "over")
      BY DEF SupervisorInv, Good, InTurn
    <3>2. ~Held(W(r)) \/ (Abandoned(r) /\ Running(W(r)))
      BY <1>2, <2>3, CurrentWorker DEF SupervisorInv, Good, InTurn
    <3>. QED
      BY <1>2, <2>3, <3>1, <3>2 DEF Held, Abandoned
  <2>. QED
    BY <2>1, <2>2, <2>3
<1>5. Good(r)'
  BY <1>3, <1>4, RequestOver
<1>. QED
  BY <1>1, <1>5, HandlerFrame

(* What the frames of a request have used are its own ids.                 *)
LEMMA FramesAreOwn ==
  ASSUME SupervisorInv, NEW r \in Requests
  PROVE  /\ OuterFrames(r) \subseteq Frames(r) \cup {NoPid}
         /\ {pid[W(r)]} \subseteq Frames(r) \cup {NoPid}
<1>1. api[r].attempt \in Attempts /\ W(r) = <<r, api[r].attempt>>
  BY CurrentWorker DEF SupervisorInv
<1>. QED
  BY <1>1, SupervisorAssumptions DEF OuterFrames, Frames, Attempts

(* What a handler that waits for a run knows of the file it reads.         *)
LEMMA WhatItReads ==
  ASSUME SupervisorInv, NEW r \in Requests, Waiting(r), api[r].kind = "run"
  PROVE  /\ HasDraft(File(r)) => /\ File(r) \in Snapshot /\ File(r).owner \in {r} \X Attempts
                                 /\ ~File(r).barren
                                 /\ Running(W(r)) => W(r) \in drafts
         /\ r \in drafted /\ ~HasDraft(File(r)) => SharesPid(r)
         /\ drafted \subseteq Met(r, File(r)) /\ Met(r, File(r)) \subseteq drafted \cup {r}
         /\ r \in Met(r, File(r)) /\ ~HasDraft(File(r)) => SharesPid(r)
<1>1. OwnFile(r) /\ MetDraft(r) /\ pid[W(r)] \in Pids
  BY WaitingIsOpen DEF SupervisorInv, Good
<1>2. W(r) \in {r} \X Attempts
  BY CurrentWorker DEF SupervisorInv
<1>3. File(r) # NoSnap => File(r) \in Snapshot
  BY <1>1 DEF File, SupervisorInv, Shape
<1>4. HasDraft(File(r)) => ~File(r).barren
  BY <1>1, <1>3 DEF HasDraft, File, SupervisorInv, DraftIsNotBarren, Snapshot
<1>5. HasDraft(File(r)) => File(r).owner = W(r) /\ (Running(W(r)) => W(r) \in drafts)
  BY <1>1 DEF HasDraft, OwnFile
<1>6. r \in drafted /\ ~HasDraft(File(r)) => SharesPid(r)
  BY <1>1 DEF MetDraft
<1>. QED
  BY <1>2, <1>3, <1>4, <1>5, <1>6 DEF Met, HasDraft

(* communicate has returned: an answer, a draft to be repaired, an error.  *)
LEMMA ExitedStep ==
  ASSUME SupervisorInv, NEW r \in Requests, Exited(r)
  PROVE  SupervisorInv'
<1>. DEFINE last == snap[pid[W(r)]]
<1>1. /\ Waiting(r) /\ api[r].at = "poll" /\ api[r].kind = "run" /\ last = File(r)
      /\ drafted' = Met(r, last) /\ Gone(W(r), "reaped") /\ pid' = pid
  BY DEF Exited, At, Waiting, File
<1>2. /\ drafted \subseteq drafted' /\ drafted' \subseteq drafted \cup {r}
      /\ r \in drafted' /\ ~HasDraft(last) => SharesPid(r)
      /\ HasDraft(last) => last \in Snapshot /\ last.owner \in {r} \X Attempts
  BY <1>1, WhatItReads
<1>3. W(r) \in Workers
  BY CurrentWorker DEF SupervisorInv
<1>4. CASE End(r, "answer", W(r)) /\ Cleared(Frames(r)) /\ UNCHANGED copy
  BY <1>1, <1>2, <1>3, <1>4, HandlerEnds DEF SupervisorInv, Shape, Results, At
<1>5. CASE ~HasDraft(last) /\ End(r, "e500", NoWorker) /\ Cleared(Frames(r)) /\ UNCHANGED copy
  BY <1>1, <1>2, <1>5, HandlerEnds DEF SupervisorInv, Shape, Results, At
<1>6. CASE /\ HasDraft(last) /\ Go(r, "salvage") /\ Cleared({pid[W(r)]})
           /\ copy' = [copy EXCEPT ![r] = last]
  <2>. DEFINE row == [api[r] EXCEPT !.at = "salvage"]
  <2>1. row \in Row /\ api' = [api EXCEPT ![r] = row]
    BY <1>6 DEF Go, SupervisorInv, Shape, Row
  <2>2. /\ api'[r].at = "salvage" /\ api'[r].kind = "run" /\ api'[r].attempt = api[r].attempt
        /\ api'[r].result = api[r].result /\ api[r].result = "none" /\ W(r)' = W(r)
    BY <1>1, <2>1 DEF SupervisorInv, Shape, Row, Good, InTurn, Waiting, At, W
  <2>. HIDE DEF row
  <2>3. copy' \in [Requests -> Snapshot \cup {NoSnap}] /\ copy'[r] = last
    BY <1>2, <1>6 DEF SupervisorInv, Shape
  <2>4. InTurn(r)'
    <3>1. InTurn(r) /\ ~Held(W(r))'
      <4>1. proc'[W(r)] = "reaped"
        BY <1>1, <1>3 DEF SupervisorInv, Gone, Shape
      <4>. QED
        BY <2>2, <4>1 DEF SupervisorInv, Good, Held
    <3>2. \A a \in Attempts \ {api[r].attempt} : proc'[<<r, a>>] = proc[<<r, a>>]
      BY <1>1, WorkersArePairs DEF Gone, SupervisorInv, Shape, W
    <3>3. api[r].attempt \in Attempts
      BY CurrentWorker DEF SupervisorInv
    <3>4. \A a \in Attempts : ~Held(<<r, a>>)'
      BY <3>1, <3>2, <2>2 DEF InTurn, Held, W
    <3>5. \A a \in Attempts : a > api'[r].attempt
            => proc'[<<r, a>>] = "none" /\ pid'[<<r, a>>] = NoPid
      BY <1>1, <2>2, <3>1, <3>2, <3>3, SupervisorAssumptions DEF InTurn, Attempts
    <3>. QED
      BY <1>1, <2>2, <3>1, <3>4, <3>5 DEF InTurn, Waiting
  <2>5. Good(r)'
    <3>1. OwnDraft(r)'
      BY <1>2, <1>6, <2>2, <2>3 DEF OwnDraft
    <3>2. ~Waiting(r)' /\ MetDraft(r)'
      BY <2>2 DEF Waiting, MetDraft, Abandoned
    <3>. QED
      BY <2>4, <3>1, <3>2 DEF Good, OwnFile, ListedOwn
  <2>6. \E P \in SUBSET (Frames(r) \cup {NoPid}) : Cleared(P)
    BY <1>6, FramesAreOwn
  <2>. QED
    BY <1>1, <1>2, <1>6, <2>1, <2>3, <2>5, <2>6, HandlerFrame DEF SupervisorInv, Shape
<1>. QED
  BY <1>4, <1>5, <1>6 DEF Exited

(* The repaired draft is returned.                                         *)
LEMMA RepairedStep ==
  ASSUME SupervisorInv, NEW r \in Requests, Repaired(r)
  PROVE  SupervisorInv'
<1>1. /\ api[r].at \in {"salvage", "repair"} /\ ~Waiting(r)
      /\ copy[r].owner \in {r} \X Attempts
  BY DEF Repaired, Waiting, SupervisorInv, Good, OwnDraft
<1>2. copy[r].owner \in Workers
  BY <1>1, WorkersArePairs
<1>3. \E P \in SUBSET (Frames(r) \cup {NoPid}) : Cleared(P)
  BY FramesAreOwn DEF Repaired
<1>4. /\ copy' \in [Requests -> Snapshot \cup {NoSnap}]
      /\ \A q \in Requests \ {r} : copy'[q] = copy[q]
  BY DEF Repaired, SupervisorInv, Shape
<1>. QED
  BY <1>1, <1>2, <1>3, <1>4, HandlerEnds DEF Repaired, Results, At

(* The client has gone, or the handler is cancelled.                       *)
LEMMA GivenUpStep ==
  ASSUME SupervisorInv, NEW r \in Requests, ClientGone(r) \/ HandlerCancelled(r)
  PROVE  SupervisorInv'
<1>1. api[r].at # "idle" /\ ~At(r, "over") /\ Gone(W(r), "reaped")
      /\ pid' = pid /\ drafted' = drafted
  BY DEF ClientGone, HandlerCancelled, Killed, At
<1>2. UNCHANGED <<active, snap>> \/ \E P \in SUBSET (Frames(r) \cup {NoPid}) : Cleared(P)
  BY FramesAreOwn DEF ClientGone, HandlerCancelled
<1>3. /\ copy' \in [Requests -> Snapshot \cup {NoSnap}]
      /\ \A q \in Requests \ {r} : copy'[q] = copy[q]
  BY DEF ClientGone, HandlerCancelled, SupervisorInv, Shape
<1>4. CASE api[r].at # "start" /\ End(r, "e499", NoWorker)
  BY <1>1, <1>2, <1>3, <1>4, HandlerEnds DEF Results
<1>5. CASE End(r, "cancelled", NoWorker)
  BY <1>1, <1>2, <1>3, <1>5, HandlerEnds DEF Results
<1>. QED
  BY <1>4, <1>5 DEF ClientGone, HandlerCancelled, At

(* The end of a stream.                                                    *)
LEMMA StreamEndsStep ==
  ASSUME SupervisorInv, NEW r \in Requests, StreamEnds(r)
  PROVE  SupervisorInv'
<1>1. /\ api[r].at = "poll" /\ api[r].kind = "stream" /\ Gone(W(r), "reaped")
      /\ pid' = pid /\ drafted' = drafted /\ UNCHANGED <<copy, active, snap>>
  BY DEF StreamEnds, At
<1>2. W(r) \in Workers
  BY CurrentWorker DEF SupervisorInv
<1>3. PICK result \in {"answer", "e500"} : End(r, result, W(r))
  BY DEF StreamEnds
<1>. QED
  BY <1>1, <1>2, <1>3, HandlerEnds DEF SupervisorInv, Shape, Results, At

(* The handler goes on waiting; what it has read is what it knows.         *)
LEMMA StillWaits ==
  ASSUME SupervisorInv, NEW r \in Requests, Waiting(r), api[r].kind = "run",
         NEW place \in {"poll", "look"}, Go(r, place),
         drafted' = drafted \/ drafted' = Met(r, File(r)),
         UNCHANGED <<copy, pid, proc, drafts, snap, active>>
  PROVE  SupervisorInv'
<1>. DEFINE row == [api[r] EXCEPT !.at = place]
<1>1. row \in Row /\ api' = [api EXCEPT ![r] = row]
  BY DEF Go, SupervisorInv, Shape, Row
<1>2. /\ api'[r].at = place /\ api'[r].kind = "run" /\ api'[r].attempt = api[r].attempt
      /\ api'[r].result = api[r].result /\ W(r)' = W(r)
  BY <1>1 DEF SupervisorInv, Shape, Row, W
<1>. HIDE DEF row
<1>3. /\ Good(r) /\ Waiting(r)' /\ File(r)' = File(r)
      /\ SharesPid(r)' = SharesPid(r) /\ HasDraft(File(r))' = HasDraft(File(r))
  BY <1>2 DEF SupervisorInv, Waiting, File, SharesPid, HasDraft
<1>4. api[r].result = "none"
  BY <1>3 DEF Good, InTurn, Waiting, At
<1>5. InTurn(r)' /\ OwnFile(r)' /\ ListedOwn(r)'
  BY <1>2, <1>3 DEF Good, InTurn, OwnFile, ListedOwn, Waiting, Held, Running, At
<1>6. OwnDraft(r)'
  BY <1>2, <1>4 DEF OwnDraft
<1>7. MetDraft(r)'
  <2>1. HasDraft(File(r)) => /\ ~File(r).barren
                             /\ Running(W(r)) => W(r) \in drafts
    BY WhatItReads
  <2>2. r \in drafted \/ HasDraft(File(r)) \/ r \notin drafted'
    BY DEF Met
  <2>. QED
    <3>. SUFFICES ASSUME r \in drafted' PROVE MetDraft(r)'
      BY DEF MetDraft
    <3>1. /\ File(r) # NoSnap => ~File(r).barren
          /\ Running(W(r)) => W(r) \in drafts
          /\ HasDraft(File(r)) \/ SharesPid(r)
      <4>1. CASE HasDraft(File(r))
        BY <2>1, <4>1
      <4>2. CASE r \in drafted
        BY <1>3, <4>2 DEF Good, MetDraft
      <4>. QED
        BY <2>2, <4>1, <4>2
    <3>2. Running(W(r))' = Running(W(r)) /\ (W(r) \in drafts)' = (W(r) \in drafts)
      BY <1>2 DEF Running
    <3>3. /\ File(r)' # NoSnap => ~File(r)'.barren
          /\ Running(W(r))' => (W(r) \in drafts)'
          /\ HasDraft(File(r))' \/ SharesPid(r)'
      BY <1>3, <3>1, <3>2
    <3>. QED
      BY <1>2, <1>4, <3>3 DEF MetDraft, Abandoned
<1>8. drafted \subseteq drafted' /\ drafted' \subseteq drafted \cup {r}
  BY DEF Met
<1>. QED
  BY <1>1, <1>5, <1>6, <1>7, <1>8, HandlerFrame DEF Good, SupervisorInv, Shape

(* The handler asks whether the client is there, and finds the worker      *)
(* alive.                                                                  *)
LEMMA LookStep ==
  ASSUME SupervisorInv, NEW r \in Requests, ClientThere(r) \/ StaysAlive(r)
  PROVE  SupervisorInv'
<1>1. api[r].kind = "run" /\ Waiting(r)
  BY DEF ClientThere, StaysAlive, At, Waiting, SupervisorInv, Good, InTurn
<1>. QED
  BY <1>1, StillWaits DEF ClientThere, StaysAlive, File

(* The worker of a run that goes on without one has been waited for.       *)
LEMMA WorkerGone ==
  ASSUME SupervisorInv, NEW r \in Requests, Waiting(r), Gone(W(r), "reaped"), pid' = pid
  PROVE  /\ \A a \in Attempts : ~Held(<<r, a>>)'
         /\ \A a \in Attempts : a > api[r].attempt
              => proc'[<<r, a>>] = "none" /\ pid'[<<r, a>>] = NoPid
<1>1. W(r) = <<r, api[r].attempt>> /\ W(r) \in Workers /\ api[r].attempt \in Attempts
  BY CurrentWorker DEF SupervisorInv
<1>2. /\ proc'[W(r)] = "reaped"
      /\ \A a \in Attempts \ {api[r].attempt} : proc'[<<r, a>>] = proc[<<r, a>>]
  BY <1>1, WorkersArePairs DEF Gone, SupervisorInv, Shape
<1>3. InTurn(r)
  BY DEF SupervisorInv, Good
<1>4. \A a \in Attempts : ~Held(<<r, a>>)'
  BY <1>1, <1>2, <1>3 DEF InTurn, Held
<1>5. \A a \in Attempts : a > api[r].attempt => a # api[r].attempt
  BY SupervisorAssumptions DEF Attempts
<1>. QED
  BY <1>2, <1>3, <1>4, <1>5 DEF InTurn

(* A run that hangs is killed: its draft is repaired, or it is run once    *)
(* more when it has produced nothing, or it fails.                         *)
LEMMA LivenessKillStep ==
  ASSUME SupervisorInv, NEW r \in Requests, LivenessKill(r)
  PROVE  SupervisorInv'
<1>. DEFINE s == snap[pid[W(r)]]
<1>1. /\ Waiting(r) /\ api[r].at = "look" /\ api[r].kind = "run" /\ s = File(r)
      /\ drafted' = Met(r, s) /\ Gone(W(r), "reaped") /\ pid' = pid /\ KillReason(s)
  BY DEF LivenessKill, Killed, At, Waiting, File, SupervisorInv, Good, InTurn
<1>2. /\ drafted \subseteq drafted' /\ drafted' \subseteq drafted \cup {r}
      /\ r \in drafted' /\ ~HasDraft(s) => SharesPid(r)
      /\ HasDraft(s) => s \in Snapshot /\ s.owner \in {r} \X Attempts
  BY <1>1, WhatItReads
<1>3. /\ \A a \in Attempts : ~Held(<<r, a>>)'
      /\ \A a \in Attempts : a > api[r].attempt
           => proc'[<<r, a>>] = "none" /\ pid'[<<r, a>>] = NoPid
  BY <1>1, WorkerGone
<1>4. /\ InTurn(r) /\ MetDraft(r) /\ api[r].result = "none" /\ api[r].attempt \in Attempts
  BY <1>1, CurrentWorker DEF SupervisorInv, Good, InTurn, At
<1>5. CASE ~HasDraft(s) /\ End(r, "e504", NoWorker) /\ Cleared(Frames(r)) /\ UNCHANGED copy
  BY <1>1, <1>2, <1>5, HandlerEnds DEF SupervisorInv, Shape, Results, At
<1>6. CASE /\ HasDraft(s) /\ Go(r, "repair") /\ copy' = [copy EXCEPT ![r] = s]
           /\ UNCHANGED <<active, snap>>
  <2>. DEFINE row == [api[r] EXCEPT !.at = "repair"]
  <2>1. row \in Row /\ api' = [api EXCEPT ![r] = row]
    BY <1>6 DEF Go, SupervisorInv, Shape, Row
  <2>2. /\ api'[r].at = "repair" /\ api'[r].kind = "run" /\ api'[r].attempt = api[r].attempt
        /\ api'[r].result = "none" /\ W(r)' = W(r)
    BY <1>1, <1>4, <2>1 DEF SupervisorInv, Shape, Row, W
  <2>. HIDE DEF row
  <2>3. copy' \in [Requests -> Snapshot \cup {NoSnap}] /\ copy'[r] = s
    BY <1>2, <1>6 DEF SupervisorInv, Shape
  <2>4. InTurn(r)'
    BY <1>1, <1>3, <1>4, <2>2 DEF InTurn, Waiting
  <2>5. OwnDraft(r)'
    BY <1>2, <1>6, <2>2, <2>3 DEF OwnDraft
  <2>6. ~Waiting(r)' /\ MetDraft(r)'
    BY <2>2 DEF Waiting, MetDraft, Abandoned
  <2>7. Good(r)'
    BY <2>4, <2>5, <2>6 DEF Good, OwnFile, ListedOwn
  <2>. QED
    BY <1>1, <1>2, <1>6, <2>1, <2>3, <2>7, HandlerFrame DEF SupervisorInv, Shape
<1>7. CASE /\ ~HasDraft(s) /\ ProducedNothing(s) /\ Retries(r)
           /\ api' = [api EXCEPT ![r].at = "start", ![r].attempt = @ + 1]
           /\ UNCHANGED <<active, snap, copy>>
  <2>. DEFINE row == [api[r] EXCEPT !.at = "start", !.attempt = @ + 1]
  <2>1. api[r].attempt + 1 \in Attempts
    BY <1>4, <1>7, SupervisorAssumptions DEF Retries, Attempts
  <2>2. row \in Row /\ api' = [api EXCEPT ![r] = row]
    <3>1. api[r] \in Row /\ api \in [Requests -> Row]
      BY DEF SupervisorInv, Shape
    <3>. QED
      BY <1>7, <2>1, <3>1 DEF Row
  <2>3. /\ api'[r].at = "start" /\ api'[r].kind = "run" /\ api'[r].attempt = api[r].attempt + 1
        /\ api'[r].result = "none"
    BY <1>1, <1>4, <2>2 DEF SupervisorInv, Shape, Row
  <2>. HIDE DEF row
  <2>4. r \notin drafted'
    BY <1>1, <1>4, <1>7 DEF MetDraft, Met, ProducedNothing, KillReason
  <2>5. \A a \in Attempts : a > api[r].attempt + 1 \/ a = api[r].attempt + 1 => a > api[r].attempt
    BY <1>4, SupervisorAssumptions DEF Attempts
  <2>6. InTurn(r)'
    BY <1>3, <2>3, <2>5 DEF InTurn, Waiting
  <2>7. Good(r)'
    BY <2>3, <2>4, <2>6 DEF Good, OwnFile, MetDraft, OwnDraft, ListedOwn, Waiting
  <2>. QED
    BY <1>1, <1>2, <1>7, <2>2, <2>7, HandlerFrame DEF SupervisorInv, Shape
<1>. QED
  BY <1>5, <1>6, <1>7 DEF LivenessKill

-----------------------------------------------------------------------------
(* A worker is started                                                     *)

(* What an attempt that begins knows of itself and of the id it is given.  *)
LEMMA Beginning ==
  ASSUME SupervisorInv, NEW r \in Requests, NEW kind \in {"run", "stream"}, Begins(r, kind)
  PROVE  /\ api[r].at \in {"idle", "start"} /\ api[r].result = "none" /\ r \notin drafted
         /\ W(r) \in Workers /\ W(r) = <<r, api[r].attempt>> /\ api[r].attempt \in Attempts
         /\ pid[W(r)] = NoPid /\ proc[W(r)] = "none"
         /\ \A p \in FreePids : p \in Pids /\ \A w \in Workers : Held(w) => pid[w] # p
<1>1. api[r].at \in {"idle", "start"}
  BY DEF Begins, At
<1>. QED
  BY <1>1, CurrentWorker DEF SupervisorInv, Good, InTurn, MetDraft, At, FreePids, Held

(* A worker is created under a free id, with its own file and entry.       *)
LEMMA SpawnStep ==
  ASSUME SupervisorInv, NEW r \in Requests, NEW kind \in {"run", "stream"}, Spawn(r, kind)
  PROVE  SupervisorInv'
<1>1. /\ Begins(r, kind) /\ UNCHANGED <<drafts, drafted>>
      /\ proc' = [proc EXCEPT ![W(r)] = "started"] /\ copy' = [copy EXCEPT ![r] = NoSnap]
  BY DEF Spawn
<1>2. PICK p \in FreePids :
        /\ pid' = [pid EXCEPT ![W(r)] = p]
        /\ IF kind = "run" THEN active' = ListedAs(r, p) /\ snap' = CleanPath(p)
           ELSE UNCHANGED <<active, snap>>
  BY DEF Spawn
<1>3. /\ api[r].at \in {"idle", "start"} /\ api[r].result = "none" /\ r \notin drafted
      /\ W(r) \in Workers /\ W(r) = <<r, api[r].attempt>> /\ api[r].attempt \in Attempts
      /\ pid[W(r)] = NoPid /\ proc[W(r)] = "none"
      /\ p \in Pids /\ \A w \in Workers : Held(w) => pid[w] # p
  BY <1>1, Beginning
<1>. DEFINE row == [api[r] EXCEPT !.at = "feed", !.kind = kind]
<1>4. row \in Row /\ api' = [api EXCEPT ![r] = row]
  <2>1. api[r] \in Row /\ api \in [Requests -> Row]
    BY DEF SupervisorInv, Shape
  <2>. QED
    BY <2>1 DEF Row, Spawn
<1>5. /\ api'[r].at = "feed" /\ api'[r].kind = kind /\ api'[r].attempt = api[r].attempt
      /\ api'[r].result = "none" /\ W(r)' = W(r)
      /\ \A q \in Requests \ {r} : api'[q] = api[q]
  BY <1>3, <1>4 DEF SupervisorInv, Shape, Row, W
<1>. HIDE DEF row
<1>6. /\ pid'[W(r)] = p /\ proc'[W(r)] = "started"
      /\ \A w \in Workers \ {W(r)} : pid'[w] = pid[w] /\ proc'[w] = proc[w]
  BY <1>1, <1>2, <1>3 DEF SupervisorInv, Shape
<1>7. /\ \A q \in Pids \ {p} : snap'[q] = snap[q] /\ active'[q] = active[q]
      /\ \A q \in Pids : snap'[q] = snap[q] \/ snap'[q] = NoSnap
      /\ kind = "run" => snap'[p] = NoSnap /\ active'[p] = W(r)
      /\ snap' \in [Pids -> Snapshot \cup {NoSnap}] /\ active' \in [Pids -> Workers \cup {NoWorker}]
  BY <1>2, <1>3 DEF ListedAs, CleanPath, SupervisorInv, Shape
<1>8. Shape'
  BY <1>1, <1>2, <1>3, <1>4, <1>7 DEF SupervisorInv, Shape, Phases
<1>9. OwnPids' /\ DraftIsNotBarren'
  BY <1>3, <1>6, <1>7 DEF SupervisorInv, OwnPids, DraftIsNotBarren, Held
<1>10. \A q \in Requests \ {r} : Good(q)'
  <2>1. \A q \in Requests \ {r} : copy'[q] = copy[q]
    BY <1>1 DEF SupervisorInv, Shape
  <2>. QED
    BY <1>1, <1>2, <1>3, <1>5, <1>6, <1>7, <2>1, HandlerPassesBy
<1>11. InTurn(r)'
  <2>1. \A a \in Attempts \ {api[r].attempt} : <<r, a>> \in Workers \ {W(r)}
    BY <1>3, WorkersArePairs
  <2>2. \A a \in Attempts \ {api[r].attempt} : ~Held(<<r, a>>)'
    BY <1>3, <1>6, <2>1 DEF SupervisorInv, Good, InTurn, Held
  <2>3. \A a \in Attempts : a > api[r].attempt
           => proc'[<<r, a>>] = "none" /\ pid'[<<r, a>>] = NoPid
    <3>1. \A a \in Attempts : a > api[r].attempt => a # api[r].attempt
      BY <1>3, SupervisorAssumptions DEF Attempts
    <3>. QED
      BY <1>6, <2>1, <3>1 DEF SupervisorInv, Good, InTurn
  <2>4. Held(W(r))' /\ Waiting(r)' /\ pid'[W(r)'] \in Pids
    BY <1>3, <1>5, <1>6 DEF Held, Waiting
  <2>5. \A a \in Attempts : Held(<<r, a>>)' => a = api'[r].attempt /\ Waiting(r)'
    BY <1>5, <2>2, <2>4
  <2>. QED
    BY <1>3, <1>5, <2>3, <2>4, <2>5 DEF InTurn, Waiting
<1>12. Good(r)'
  <2>1. kind = "run" => File(r)' = NoSnap /\ active'[pid'[W(r)']] = W(r)
    BY <1>5, <1>6, <1>7 DEF File
  <2>. QED
    BY <1>1, <1>3, <1>5, <1>11, <2>1 DEF Good, OwnFile, MetDraft, OwnDraft, ListedOwn
<1>. QED
  BY <1>8, <1>9, <1>10, <1>12 DEF SupervisorInv

(* The payload is fed, and the handler comes to its poll loop.             *)
LEMMA FedStep ==
  ASSUME SupervisorInv, NEW r \in Requests, Fed(r)
  PROVE  SupervisorInv'
<1>. DEFINE row == [api[r] EXCEPT !.at = "poll"]
<1>1. /\ api[r].at = "feed" /\ Waiting(r) /\ Good(r) /\ api[r].result = "none"
      /\ UNCHANGED <<copy, pid, proc, drafts, snap, active, drafted>>
  BY DEF Fed, At, Waiting, SupervisorInv, Good, InTurn
<1>2. row \in Row /\ api' = [api EXCEPT ![r] = row]
  BY DEF Fed, Go, SupervisorInv, Shape, Row
<1>3. /\ api'[r].at = "poll" /\ api'[r].kind = api[r].kind /\ api'[r].attempt = api[r].attempt
      /\ api'[r].result = "none" /\ W(r)' = W(r)
  BY <1>1, <1>2 DEF SupervisorInv, Shape, Row, W
<1>. HIDE DEF row
<1>4. File(r)' = File(r) /\ SharesPid(r)' = SharesPid(r)
  BY <1>1, <1>3 DEF File, SharesPid
<1>5. InTurn(r)'
  BY <1>1, <1>3 DEF Good, InTurn, Waiting, Held, Running, Abandoned, At
<1>6. r \notin drafted'
  BY <1>1 DEF Good, MetDraft
<1>7. Good(r)'
  BY <1>1, <1>3, <1>4, <1>5, <1>6
    DEF Good, OwnFile, MetDraft, OwnDraft, ListedOwn, Waiting, Running
<1>. QED
  BY <1>1, <1>2, <1>7, HandlerFrame DEF SupervisorInv, Shape

(* The drain raises, or the handler is cancelled in it: the frames outside *)
(* are left, its own entry and file stay as they were made.                *)
LEMMA FeedEndsStep ==
  ASSUME SupervisorInv, NEW r \in Requests, FeedFails(r) \/ FeedCancelled(r)
  PROVE  SupervisorInv'
<1>1. /\ api[r].at = "feed" /\ Waiting(r) /\ r \notin drafted /\ ~At(r, "over")
      /\ UNCHANGED <<copy, pid, drafted>>
  BY DEF FeedFails, FeedCancelled, At, Waiting, SupervisorInv, Good, MetDraft
<1>2. UNCHANGED <<active, snap>> \/ \E P \in SUBSET (Frames(r) \cup {NoPid}) : Cleared(P)
  BY FramesAreOwn DEF FeedFails, FeedCancelled, LeavesOuter
<1>3. /\ copy' \in [Requests -> Snapshot \cup {NoSnap}]
      /\ \A q \in Requests \ {r} : copy'[q] = copy[q]
  BY <1>1 DEF SupervisorInv, Shape
<1>4. CASE Gone(W(r), "reaped") /\ End(r, "e500", NoWorker)
  BY <1>1, <1>2, <1>3, <1>4, HandlerEnds DEF Results
<1>5. CASE /\ Gone(W(r), "reaped") \/ (UNCHANGED <<proc, drafts>> /\ Running(W(r)))
           /\ End(r, "abandoned", NoWorker)
  BY <1>1, <1>2, <1>3, <1>5, HandlerEnds DEF Results
<1>. QED
  BY <1>4, <1>5 DEF FeedFails, FeedCancelled

-----------------------------------------------------------------------------
(* The supervisor                                                          *)

(* Every step keeps the invariant.                                         *)
LEMMA NextSupervisor == SupervisorInv /\ [Next]_vars => SupervisorInv'
<1>. SUFFICES ASSUME SupervisorInv, [Next]_vars PROVE SupervisorInv'
  OBVIOUS
<1>1. ASSUME NEW r \in Requests, Request(r) PROVE SupervisorInv'
  BY <1>1, SpawnStep DEF Request
<1>2. ASSUME NEW r \in Requests, Handler(r) PROVE SupervisorInv'
  BY <1>2, SpawnStep, FedStep, FeedEndsStep, ExitedStep, RepairedStep, LookStep, GivenUpStep,
    LivenessKillStep, StreamEndsStep DEF Handler
<1>3. ASSUME NEW r \in Requests, Fed(r) \/ HandlerCancelled(r) \/ FeedCancelled(r)
      PROVE  SupervisorInv'
  BY <1>3, FedStep, GivenUpStep, FeedEndsStep
<1>4. ASSUME NEW p \in Pids, CancelRun(p) \/ SnapshotAges(p) PROVE SupervisorInv'
  BY <1>4, CancelRunStep, SnapshotAgesStep
<1>5. ASSUME NEW w \in Workers, Worker(w) PROVE SupervisorInv'
  BY <1>5, WorkerStep
<1>6. CASE UNCHANGED vars
  <2>1. \A p \in Pids : Same(snap'[p], snap[p])
    BY <1>6 DEF vars, Same
  <2>. QED
    BY <1>6, <2>1, MarksKept DEF vars, Outside, SupervisorInv, Shape
<1>. QED
  BY <1>1, <1>2, <1>3, <1>4, <1>5, <1>6 DEF Next

(* The invariant holds of every behaviour.                                 *)
LEMMA SupervisorHolds == Safety => []SupervisorInv
  BY InitSupervisor, NextSupervisor, PTL DEF Safety

(* A request that is over has no worker left, unless it was cancelled in   *)
(* the drain, and a second attempt never runs beside the first, for any    *)
(* number of retries.                                                      *)
THEOREM NoneLeftBehind == Safety => []NoWorkerLeftBehind
<1>1. SupervisorInv => NoWorkerLeftBehind
  <2>. SUFFICES ASSUME SupervisorInv, NEW r \in Requests
                PROVE  /\ At(r, "over") /\ ~Abandoned(r)
                            => \A a \in 0..MaxRetries : ~Running(<<r, a>>)
                       /\ Cardinality({a \in 0..MaxRetries : Running(<<r, a>>)}) <= 1
    BY DEF NoWorkerLeftBehind
  <2>. DEFINE running == {a \in 0..MaxRetries : Running(<<r, a>>)}
  <2>1. \A a \in running : a = api[r].attempt /\ (Waiting(r) \/ Abandoned(r))
    BY DEF SupervisorInv, Good, InTurn, Attempts, Held, Running
  <2>2. IsFiniteSet({api[r].attempt}) /\ Cardinality({api[r].attempt}) = 1
    BY FS_Singleton
  <2>3. running \in SUBSET {api[r].attempt}
    BY <2>1
  <2>4. Cardinality(running) <= 1
    BY <2>2, <2>3, FS_Subset
  <2>. QED
    BY <2>1, <2>4 DEF At, Waiting
<1>. QED
  BY <1>1, SupervisorHolds, PTL

(* A draft that is returned was written by a worker of the request, and    *)
(* one that was on disk is not answered by an error, unless another        *)
(* request has used the same process id.                                   *)
THEOREM DraftsArrive == Safety => []DraftsReachTheirCaller
<1>1. SupervisorInv => DraftsReachTheirCaller
  BY DEF SupervisorInv, Good, OwnDraft, MetDraft, DraftsReachTheirCaller, Attempts
<1>. QED
  BY <1>1, SupervisorHolds, PTL

(* A running worker of a run that is waited for is listed under its id,    *)
(* unless another request has used it too.                                 *)
THEOREM WorkersAreListed == Safety => []Listed
<1>1. SupervisorInv => Listed
  BY DEF SupervisorInv, Good, ListedOwn, Listed, Waiting
<1>. QED
  BY <1>1, SupervisorHolds, PTL
=============================================================================

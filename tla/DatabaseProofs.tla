---------------------------- MODULE DatabaseProofs ---------------------------
(***************************************************************************)
(* Proofs about the two components that live in the database's rows:       *)
(* RunOwnership (swarm_run_ownership) and OutcomeQueue (task_outcome_queue *)
(* and the experience index its drain loop writes).                        *)
(***************************************************************************)
EXTENDS RunOwnership, OutcomeQueue, FiniteSetTheorems, SequenceTheorems, TLAPS

\* No step takes a variable out of its type or stretches a lease: a claim in
\* flight only gets closer to the expiry it asked for as the clock advances.
LEMMA NextType == TypeOK /\ [Next]_vars => TypeOK'
<1>. USE LeaseAssumption, MaxTimeAssumption, NoOwnerAssumption
<1>. SUFFICES ASSUME TypeOK, [Next]_vars PROVE TypeOK'
  OBVIOUS
<1>. USE DEF TypeOK, LeaseBounded, Time, Call, NoCall, row
<1>1. ASSUME NEW w \in Workers, RequestAcquire(w) PROVE TypeOK'
  BY <1>1 DEF RequestAcquire, NewExpiry
<1>2. ASSUME NEW w \in Workers, ExecuteAcquire(w) PROVE TypeOK'
  <2>. PICK asof \in call[w].since .. now, answered \in BOOLEAN :
         /\ IF Claimable(w, asof)
            THEN owner' = w /\ expiry' = call[w].expiry
            ELSE UNCHANGED <<owner, expiry>>
         /\ told' = [told EXCEPT ![w] =
               IF alive[w] /\ answered /\ Claimable(w, asof)
               THEN {call[w].expiry} ELSE {}]
    BY <1>2 DEF ExecuteAcquire
  <2>1. /\ call' = [call EXCEPT ![w] = NoCall]
        /\ UNCHANGED <<now, exists, alive>>
    BY <1>2 DEF ExecuteAcquire
  <2>2. /\ owner' \in Workers \union {NoOwner}
        /\ expiry' \in 0 .. MaxTime + Lease
        /\ expiry' <= now + Lease
    BY <2>1
  <2>3. told' \in [Workers -> SUBSET (0 .. MaxTime + Lease)]
    BY <2>1
  <2>4. /\ call' \in [Workers -> Call]
        /\ \A v \in Workers : call'[v].since <= now
        /\ \A v \in Workers : call'[v].expiry <= call'[v].since + Lease
    BY <2>1
  <2>. QED
    BY <2>1, <2>2, <2>3, <2>4
<1>3. ASSUME NEW w \in Workers, RequestRelease(w) PROVE TypeOK'
  BY <1>3 DEF RequestRelease
<1>4. ASSUME NEW w \in Workers, ExecuteRelease(w) PROVE TypeOK'
  BY <1>4 DEF ExecuteRelease
<1>5. ASSUME NEW w \in Workers, CallFails(w) PROVE TypeOK'
  BY <1>5 DEF CallFails
<1>6. ASSUME NEW w \in Workers, Die(w) PROVE TypeOK'
  BY <1>6 DEF Die
<1>7. CASE DeleteRun
  <2>1. 0 \in 0 .. MaxTime + Lease /\ 0 <= now + Lease
    OBVIOUS
  <2>. QED
    BY <1>7, <2>1 DEF DeleteRun
<1>8. CASE Tick
  BY <1>8 DEF Tick
<1>9. CASE UNCHANGED vars
  BY <1>9 DEF vars
<1>. QED
  BY <1>1, <1>2, <1>3, <1>4, <1>5, <1>6, <1>7, <1>8, <1>9 DEF Next

\* Type correctness and the bound on every lease.
THEOREM OwnershipTypeCorrect == Spec => []TypeOK
<1>1. Init => TypeOK
  BY LeaseAssumption, MaxTimeAssumption, NoOwnerAssumption
  DEF Init, TypeOK, LeaseBounded, Time, Call, NoCall
<1>. QED
  BY <1>1, NextType, PTL DEF Spec

-----------------------------------------------------------------------------
\* What a step must keep for two workers never to be entitled together: the row
\* names the entitled worker, one that is releasing is no longer entitled, and
\* the last entitlement outlives the row.
OwnershipInv == ReleasingHasStopped /\ EntitledIsOwner /\ OneEntitled

\* Whatever a step does, a worker it does not grant anything keeps at most the
\* entitlement it had: time only takes entitlements away.
LEMMA EntitlementShrinks ==
  ASSUME TypeOK, TypeOK', now <= now', NEW w \in Workers, told'[w] \subseteq told[w],
         Entitled(w)'
  PROVE  Entitled(w)
  BY LeaseAssumption, MaxTimeAssumption DEF TypeOK, Entitled, Time

\* A step that grants nothing, and leaves the row alone or deletes it, keeps the
\* ownership invariant.
LEMMA UngrantedStep ==
  ASSUME TypeOK, TypeOK', OwnershipInv, now <= now',
         \A w \in Workers : told'[w] \subseteq told[w],
         exists' => exists /\ owner' = owner /\ expiry' = expiry
  PROVE  EntitledIsOwner' /\ OneEntitled'
<1>1. \A w \in Workers : Entitled(w)' => Entitled(w)
  BY EntitlementShrinks
<1>. QED
  BY <1>1 DEF OwnershipInv, EntitledIsOwner, OneEntitled

\* Every step keeps the ownership invariant.
LEMMA OwnershipStep == TypeOK /\ TypeOK' /\ OwnershipInv /\ [Next]_vars => OwnershipInv'
<1>. SUFFICES ASSUME TypeOK, TypeOK', OwnershipInv, [Next]_vars PROVE OwnershipInv'
  OBVIOUS
<1>. USE DEF NoCall, Call, row
<1>0. now \in Nat /\ now' \in Nat
  BY MaxTimeAssumption DEF TypeOK, Time
<1>1. ASSUME NEW w \in Workers, RequestAcquire(w) PROVE OwnershipInv'
  <2>1. ReleasingHasStopped'
    BY <1>1 DEF RequestAcquire, OwnershipInv, ReleasingHasStopped, TypeOK
  <2>. QED
    BY <1>0, <1>1, <2>1, UngrantedStep DEF RequestAcquire, OwnershipInv
<1>2. ASSUME NEW w \in Workers, ExecuteAcquire(w) PROVE OwnershipInv'
  <2>. PICK asof \in call[w].since .. now, answered \in BOOLEAN :
         /\ IF Claimable(w, asof)
            THEN owner' = w /\ expiry' = call[w].expiry
            ELSE UNCHANGED <<owner, expiry>>
         /\ told' = [told EXCEPT ![w] =
               IF alive[w] /\ answered /\ Claimable(w, asof)
               THEN {call[w].expiry} ELSE {}]
    BY <1>2 DEF ExecuteAcquire
  <2>1. /\ call[w].op = "acquire"
        /\ call' = [call EXCEPT ![w] = NoCall]
        /\ UNCHANGED <<now, exists, alive>>
    BY <1>2 DEF ExecuteAcquire
  <2>2. ReleasingHasStopped'
    BY <2>1 DEF OwnershipInv, ReleasingHasStopped, TypeOK
  <2>3. CASE ~Claimable(w, asof)
    <3>1. \A v \in Workers : told'[v] \subseteq told[v]
      BY <2>3 DEF TypeOK
    <3>. QED
      BY <1>0, <2>1, <2>2, <2>3, <3>1, UngrantedStep DEF OwnershipInv
  <2>4. CASE Claimable(w, asof)
    <3>1. exists /\ owner' = w /\ expiry' = call[w].expiry
      BY <2>4 DEF Claimable
    <3>2. \A v \in Workers : v # w => ~Entitled(v)
      \* another entitled worker would be the owner under a live lease
      <4>. SUFFICES ASSUME NEW v \in Workers, v # w, Entitled(v) PROVE FALSE
        OBVIOUS
      <4>1. PICK until \in told[v] : until >= now
        BY DEF Entitled
      <4>2. owner = v /\ until <= expiry
        BY <3>1, <4>1 DEF OwnershipInv, EntitledIsOwner
      <4>3. expiry < asof
        BY <2>4, <4>2, NoOwnerAssumption DEF Claimable
      <4>. QED
        BY <4>1, <4>2, <4>3, <1>0, LeaseAssumption, MaxTimeAssumption
        DEF TypeOK, Time
    <3>3. \A v \in Workers : v # w => ~Entitled(v)'
      BY <2>1, <3>2 DEF Entitled, TypeOK
    <3>4. \A until \in told'[w] : until <= expiry'
      BY <3>1, LeaseAssumption, MaxTimeAssumption DEF TypeOK
    <3>. QED
      BY <2>2, <3>1, <3>3, <3>4 DEF OwnershipInv, EntitledIsOwner, OneEntitled
  <2>. QED
    BY <2>3, <2>4
<1>3. ASSUME NEW w \in Workers, RequestRelease(w) PROVE OwnershipInv'
  <2>1. /\ ReleasingHasStopped'
        /\ \A v \in Workers : told'[v] \subseteq told[v]
    BY <1>3 DEF RequestRelease, OwnershipInv, ReleasingHasStopped, TypeOK
  <2>. QED
    BY <1>0, <1>3, <2>1, UngrantedStep DEF RequestRelease, OwnershipInv
<1>4. ASSUME NEW w \in Workers, ExecuteRelease(w) PROVE OwnershipInv'
  <2>1. ReleasingHasStopped'
    BY <1>4 DEF ExecuteRelease, OwnershipInv, ReleasingHasStopped, TypeOK
  <2>2. \A v \in Workers : Entitled(v)' <=> Entitled(v)
    BY <1>4 DEF ExecuteRelease, Entitled
  <2>3. ~Entitled(w)
    BY <1>4 DEF ExecuteRelease, OwnershipInv, ReleasingHasStopped, Entitled
  <2>4. CASE Releasable(w)
    <3>1. \A v \in Workers : ~Entitled(v)
      BY <2>3, <2>4 DEF Releasable, OwnershipInv, EntitledIsOwner
    <3>. QED
      BY <2>1, <2>2, <3>1 DEF OwnershipInv, EntitledIsOwner, OneEntitled
  <2>5. CASE ~Releasable(w)
    BY <1>0, <1>4, <2>1, <2>5, UngrantedStep DEF ExecuteRelease, OwnershipInv
  <2>. QED
    BY <2>4, <2>5
<1>5. ASSUME NEW w \in Workers, CallFails(w) PROVE OwnershipInv'
  <2>1. /\ ReleasingHasStopped'
        /\ \A v \in Workers : told'[v] \subseteq told[v]
    BY <1>5 DEF CallFails, OwnershipInv, ReleasingHasStopped, TypeOK
  <2>. QED
    BY <1>0, <1>5, <2>1, UngrantedStep DEF CallFails, OwnershipInv
<1>6. ASSUME NEW w \in Workers, Die(w) PROVE OwnershipInv'
  <2>1. /\ ReleasingHasStopped'
        /\ \A v \in Workers : told'[v] \subseteq told[v]
    BY <1>6 DEF Die, OwnershipInv, ReleasingHasStopped, TypeOK
  <2>. QED
    BY <1>0, <1>6, <2>1, UngrantedStep DEF Die, OwnershipInv
<1>7. CASE DeleteRun
  <2>1. ReleasingHasStopped'
    BY <1>7 DEF DeleteRun, OwnershipInv, ReleasingHasStopped
  <2>. QED
    BY <1>0, <1>7, <2>1, UngrantedStep DEF DeleteRun, OwnershipInv
<1>8. CASE Tick
  <2>1. ReleasingHasStopped'
    BY <1>8 DEF Tick, OwnershipInv, ReleasingHasStopped
  <2>. QED
    BY <1>0, <1>8, <2>1, UngrantedStep DEF Tick, OwnershipInv
<1>9. CASE UNCHANGED vars
  BY <1>9 DEF vars, OwnershipInv, ReleasingHasStopped, EntitledIsOwner, OneEntitled, Entitled
<1>. QED
  BY <1>1, <1>2, <1>3, <1>4, <1>5, <1>6, <1>7, <1>8, <1>9 DEF Next

\* Two workers are never entitled to advance the run at the same moment, and the
\* one that is entitled is the one the row names.
THEOREM ExclusiveEntitlement == Spec => [](OneEntitled /\ EntitledIsOwner)
<1>1. Init => OwnershipInv
  BY DEF Init, OwnershipInv, ReleasingHasStopped, EntitledIsOwner, OneEntitled, Entitled, NoCall
<1>2. OwnershipInv => OneEntitled /\ EntitledIsOwner
  BY DEF OwnershipInv
<1>. QED
  BY <1>1, <1>2, OwnershipStep, OwnershipTypeCorrect, PTL DEF Spec

-----------------------------------------------------------------------------
\* The holder of the lock the row implements
Holder == IF Live THEN owner ELSE NoOwner

\* A step that leaves the row alone, clears it or lets time pass gives the lock
\* to nobody.
LEMMA NothingGranted ==
  ASSUME TypeOK, TypeOK', now <= now',
         UNCHANGED <<owner, expiry>> \/ owner' = NoOwner
  PROVE  Holder' = Holder \/ (Holder \in Workers /\ Holder' = NoOwner)
  BY LeaseAssumption, MaxTimeAssumption DEF TypeOK, Time, Holder, Live

\* Every step of the lease is a grant, a relinquishment or a stutter of the lock.
LEMMA LockStep == TypeOK /\ TypeOK' /\ [Next]_vars => [Lock!Next]_Holder
<1>. SUFFICES ASSUME TypeOK, TypeOK', [Next]_vars
              PROVE  \/ Holder' = Holder
                     \/ Holder \in Workers /\ Holder' = NoOwner
                     \/ Holder = NoOwner /\ Holder' \in Workers
  BY DEF Lock!Next, Lock!Grant, Lock!Relinquish, Holder
<1>. USE DEF row
<1>0. now \in Nat /\ now' \in Nat
  BY MaxTimeAssumption DEF TypeOK, Time
<1>1. ASSUME NEW w \in Workers, ExecuteAcquire(w)
      PROVE  \/ Holder' = Holder
             \/ Holder \in Workers /\ Holder' = NoOwner
             \/ Holder = NoOwner /\ Holder' \in Workers
  <2>. PICK asof \in call[w].since .. now :
         IF Claimable(w, asof)
         THEN owner' = w /\ expiry' = call[w].expiry
         ELSE UNCHANGED <<owner, expiry>>
    BY <1>1 DEF ExecuteAcquire
  <2>1. CASE ~Claimable(w, asof)
    BY <1>0, <1>1, <2>1, NothingGranted DEF ExecuteAcquire
  <2>2. CASE Claimable(w, asof)
    <3>1. Holder' \in {w, NoOwner}
      BY <2>2 DEF Holder, Live
    <3>2. Holder \in {w, NoOwner}
      BY <2>2, <1>0, LeaseAssumption, MaxTimeAssumption
      DEF Holder, Live, Claimable, TypeOK, Time, Call
    <3>. QED
      BY <3>1, <3>2
  <2>. QED
    BY <2>1, <2>2
<1>2. ASSUME NEW w \in Workers, ExecuteRelease(w)
      PROVE  Holder' = Holder \/ (Holder \in Workers /\ Holder' = NoOwner)
  BY <1>0, <1>2, NothingGranted DEF ExecuteRelease
<1>3. ASSUME NEW w \in Workers,
             RequestAcquire(w) \/ RequestRelease(w) \/ CallFails(w) \/ Die(w)
      PROVE  Holder' = Holder
  BY <1>3 DEF RequestAcquire, RequestRelease, CallFails, Die, Holder, Live
<1>4. CASE DeleteRun
  BY <1>0, <1>4, NothingGranted DEF DeleteRun
<1>5. CASE Tick
  BY <1>0, <1>5, NothingGranted DEF Tick
<1>6. CASE UNCHANGED vars
  BY <1>6 DEF vars, Holder, Live
<1>. QED
  BY <1>1, <1>2, <1>3, <1>4, <1>5, <1>6 DEF Next

\* The lease implements the exclusive holder: a live lease never passes from one
\* worker to another.
THEOREM LeaseImplementsLock == Spec => ExclusiveLease
<1>1. Init => Holder = NoOwner
  BY DEF Init, Holder, Live
<1>. QED
  BY <1>1, LockStep, OwnershipTypeCorrect, PTL DEF Spec, ExclusiveLease, Lock!Spec, Lock!Init, Holder

-----------------------------------------------------------------------------
(* A row that is new goes to the end.                                      *)
LEMMA AppendedIsThere ==
  ASSUME NEW S, NEW s \in Seq(S), IsInjective(s), NEW x \in S, x \notin Range(s)
  PROVE  /\ Append(s, x) \in Seq(S) /\ IsInjective(Append(s, x))
         /\ Range(Append(s, x)) = Range(s) \cup {x}
<1>1. /\ Append(s, x) \in Seq(S) /\ Len(Append(s, x)) = Len(s) + 1 /\ Len(s) \in Nat
      /\ \A i \in 1..Len(s) : Append(s, x)[i] = s[i]
      /\ Append(s, x)[Len(s) + 1] = x
  BY AppendProperties, LenProperties
<1>2. DOMAIN s = 1..Len(s) /\ DOMAIN Append(s, x) = 1..(Len(s) + 1)
  BY <1>1, LenProperties
<1>3. IsInjective(Append(s, x))
  BY <1>1, <1>2 DEF IsInjective, Range
<1>4. Range(Append(s, x)) = Range(s) \cup {x}
  BY <1>1, <1>2 DEF Range
<1>. QED
  BY <1>1, <1>3, <1>4

-----------------------------------------------------------------------------
(* The handoff of outcomes: what is true of the rows, of the copies the    *)
(* loop works on, and of the documents.                                    *)

(* A row that is to be drained has attempts left; an update is of a row    *)
(* that is there, since none is ever removed.                              *)
Publish == [task : Tasks, answer : Answers, exists : BOOLEAN]
Rows ==
    /\ publisher \in [Publishers -> Publish \cup {NoPublish}]
    /\ \A p \in Publishers :
         publisher[p] # NoPublish /\ publisher[p].exists => Exists(publisher[p].task)
    /\ \A t \in Tasks : Exists(t) => queue[t].answer \in Answers
    /\ \A t \in Tasks : queue[t].status \in {"pending", "processing"} => queue[t].attempts < MaxAttempts

(* The copies are of different rows, none of them done, and a row is as    *)
(* its copy says but for what was published since.                         *)
CopyOf(c) ==
    /\ queue[c.task].status \in {"pending", "processing"}
    /\ queue[c.task].doc = c.doc /\ c.attempts < MaxAttempts
    /\ "overtaken" \notin loss[c.task] => queue[c.task].answer = c.answer
Copies ==
    /\ \A i, j \in DOMAIN batch : batch[i].task = batch[j].task => i = j
    /\ \A i \in DOMAIN batch : CopyOf(batch[i])

(* A path is that of one document, and what a row or the loop has noted as *)
(* the path of a task's document is of no other task's.                    *)
Paths ==
    /\ \A d, e \in docs : d.path = e.path => d = e
    /\ \A d \in docs, t \in Tasks : d.path = queue[t].doc => d.task = t
    /\ \A d \in docs : loop = "mark" /\ d.path = path => d.task = Head(batch).task
    /\ loop # "mark" => path = 0

(* What is inserted is not too short, and what is about to be marked as    *)
(* done is in the index.                                                   *)
Marked ==
    /\ loop = "insert" => Head(batch).answer \notin Short
    /\ loop = "mark" /\ Head(batch).answer \notin Short /\ loss[Head(batch).task] = {} =>
         Indexed(Head(batch).task, Head(batch).answer)

QueueInv == QueueTypeOK /\ Rows /\ Copies /\ Paths /\ Marked /\ OnlyKnownLosses

(* The first of the copies, and those after it.                            *)
LEMMA FirstCopy ==
  ASSUME QueueTypeOK, batch # <<>>
  PROVE  /\ Head(batch) = batch[1] /\ Head(batch) \in Copy /\ 1 \in DOMAIN batch
         /\ Tail(batch) \in Seq(Copy) /\ Len(Tail(batch)) = Len(batch) - 1
         /\ Len(batch) \in Nat \ {0}
         /\ DOMAIN batch = 1..Len(batch) /\ DOMAIN Tail(batch) = 1..(Len(batch) - 1)
         /\ \A i \in DOMAIN Tail(batch) : i + 1 \in DOMAIN batch /\ Tail(batch)[i] = batch[i + 1]
<1>. batch \in Seq(Copy)
  BY DEF QueueTypeOK
<1>1. Head(batch) = batch[1] /\ Len(batch) \in Nat \ {0} /\ DOMAIN batch = 1..Len(batch)
  BY EmptySeq, LenProperties
<1>2. Tail(batch) \in Seq(Copy) /\ Len(Tail(batch)) = Len(batch) - 1
  BY HeadTailProperties
<1>3. DOMAIN Tail(batch) = 1..(Len(batch) - 1)
  BY <1>2, LenProperties
<1>4. 1 \in DOMAIN batch /\ batch[1] \in Copy
  BY <1>1, ElementOfSeq
<1>5. \A i \in 1..(Len(batch) - 1) : Tail(batch)[i] = batch[i + 1] /\ i + 1 \in 1..Len(batch)
  BY <1>1, <1>2, HeadTailProperties
<1>. QED
  BY <1>1, <1>2, <1>3, <1>4, <1>5

(* An empty batch has no copies.                                           *)
LEMMA NoCopies ==
  /\ <<>> \in Seq(Copy) /\ Len(<<>>) = 0 /\ DOMAIN <<>> = {}
  BY EmptySeq

(* Every row is in its type still when more paths have been handed out.    *)
LEMMA RowsGrow ==
  ASSUME QueueTypeOK, lastPath' \in Nat, lastPath <= lastPath'
  PROVE  queue \in [Tasks -> Row'] /\ batch \in Seq(Copy')
<1>1. Row \subseteq Row' /\ Copy \subseteq Copy'
  BY DEF QueueTypeOK, Row, Copy
<1>2. \A t \in Tasks : queue[t] \in Row'
  BY <1>1 DEF QueueTypeOK
<1>3. batch \in Seq(Copy')
  BY <1>1, SeqMonotonic DEF QueueTypeOK
<1>. QED
  BY <1>2, <1>3 DEF QueueTypeOK

-----------------------------------------------------------------------------
(* One step after the other                                                *)

(* At first there is nothing.                                              *)
LEMMA InitQueue == QueueInit => QueueInv
<1>. SUFFICES ASSUME QueueInit PROVE QueueInv
  OBVIOUS
<1>. USE AttemptsAssumption, BatchAssumption, AnswersAssumption DEF QueueInit
<1>1. QueueTypeOK
  <2>1. queue \in [Tasks -> Row]
    BY DEF NoRow, Row, Statuses
  <2>2. order \in Seq(Tasks) /\ IsInjective(order) /\ Range(order) = {}
    BY EmptySeq DEF IsInjective, Range
  <2>3. {t \in Tasks : Exists(t)} = {}
    BY DEF Exists, NoRow
  <2>4. batch \in Seq(Copy) /\ Len(batch) <= DrainBatch
    BY NoCopies
  <2>. QED
    BY <2>1, <2>2, <2>3, <2>4 DEF QueueTypeOK
<1>2. Rows
  BY DEF Rows, NoRow, Exists
<1>3. Copies
  BY NoCopies DEF Copies
<1>4. Paths /\ Marked /\ OnlyKnownLosses
  BY DEF Paths, Marked, OnlyKnownLosses, NoRow
<1>. QED
  BY <1>1, <1>2, <1>3, <1>4 DEF QueueInv

(* Nothing but a publish is under way.                                     *)
LEMMA PublishSelectKeeps ==
  ASSUME QueueInv, NEW p \in Publishers, PublishSelect(p)
  PROVE  QueueInv'
<1>. USE DEF QueueInv, PublishSelect, table, index, drainer
<1>1. PICK t \in Tasks, a \in Answers :
        publisher' = [publisher EXCEPT ![p] = [task |-> t, answer |-> a, exists |-> Exists(t)]]
  OBVIOUS
<1>2. Exists(t) \in BOOLEAN
  BY DEF Exists
<1>. DEFINE new == [task |-> t, answer |-> a, exists |-> Exists(t)]
<1>3. publisher' \in [Publishers -> Publish \cup {NoPublish}] /\ new \in Publish
  BY <1>1, <1>2 DEF Rows, Publish
<1>4. \A q \in Publishers : publisher'[q] = IF q = p THEN new ELSE publisher[q]
  BY <1>1 DEF Rows
<1>5. Rows'
  <2>1. \A q \in Publishers :
          publisher'[q] # NoPublish /\ publisher'[q].exists => Exists(publisher'[q].task)
    BY <1>4 DEF Rows
  <2>2. \A u : Exists(u)' <=> Exists(u)
    BY DEF Exists
  <2>. QED
    BY <1>3, <2>1, <2>2 DEF Rows
<1>6. \A q \in Publishers :
        publisher'[q] # NoPublish => publisher'[q].task \in Tasks /\ publisher'[q].answer \in Answers
  BY <1>4, <1>3 DEF QueueTypeOK, Publish
<1>7. QueueTypeOK'
  BY <1>6 DEF QueueTypeOK, Row, Copy, Exists
<1>8. Copies' /\ Paths' /\ Marked' /\ OnlyKnownLosses'
  BY DEF Copies, CopyOf, Paths, Marked, OnlyKnownLosses, Indexed
<1>. QED
  BY <1>5, <1>7, <1>8

(* A publish that fails leaves all but itself as it was.                   *)
LEMMA PublishFailsKeeps ==
  ASSUME QueueInv, NEW p \in Publishers, PublishFails(p)
  PROVE  QueueInv'
<1>. USE DEF QueueInv, PublishFails, table, index, drainer, spent
<1>1. \A q \in Publishers : publisher'[q] = IF q = p THEN NoPublish ELSE publisher[q]
  BY DEF Rows
<1>2. Rows'
  BY <1>1 DEF Rows, Exists
<1>3. QueueTypeOK'
  BY <1>1 DEF QueueTypeOK, Row, Copy, Exists
<1>4. Copies' /\ Paths' /\ Marked' /\ OnlyKnownLosses'
  BY DEF Copies, CopyOf, Paths, Marked, OnlyKnownLosses, Indexed
<1>. QED
  BY <1>2, <1>3, <1>4

(* A publish that lands makes its row pending, and marks it as overtaken   *)
(* when the loop holds a copy of it.                                       *)
LEMMA PublishCommitKeeps ==
  ASSUME QueueInv, NEW p \in Publishers, PublishCommit(p)
  PROVE  QueueInv'
<1>. USE DEF QueueInv, table, index, drainer, spent
<1>. DEFINE t == publisher[p].task
            a == publisher[p].answer
            new == [status |-> "pending", answer |-> a, attempts |-> 0,
                    doc |-> queue[t].doc, stuck |-> FALSE]
            lost == IF t \in HeldTasks THEN {"overtaken"} ELSE {}
<1>1. publisher[p] \in Publish /\ t \in Tasks /\ a \in Answers
  BY DEF PublishCommit, Rows, Publish
<1>2. \A q \in Publishers : publisher'[q] = IF q = p THEN NoPublish ELSE publisher[q]
  BY DEF PublishCommit, Rows
<1>3. publisher' \in [Publishers -> Publish \cup {NoPublish}]
  BY DEF PublishCommit, Rows
<1>4. CASE ~Accepted(p)
  <2>1. UNCHANGED <<queue, order, docs, lastPath, loop, batch, path, loss>>
    BY <1>4 DEF PublishCommit
  <2>2. Rows'
    BY <1>2, <1>3, <2>1 DEF Rows, Exists
  <2>3. QueueTypeOK'
    BY <1>2, <2>1 DEF QueueTypeOK, Row, Copy, Exists
  <2>4. Copies' /\ Paths' /\ Marked' /\ OnlyKnownLosses'
    BY <2>1 DEF Copies, CopyOf, Paths, Marked, OnlyKnownLosses, Indexed
  <2>. QED
    BY <2>2, <2>3, <2>4
<1>5. CASE Accepted(p)
  <2>1. /\ queue' = [queue EXCEPT ![t] = new] /\ loss' = [loss EXCEPT ![t] = lost]
        /\ order' = IF ~publisher[p].exists THEN Append(order, t) ELSE order
        /\ UNCHANGED <<docs, lastPath, loop, batch, path>>
    BY <1>5 DEF PublishCommit
  <2>2. new \in Row /\ queue[t] \in Row
    BY <1>1, AttemptsAssumption DEF QueueTypeOK, Row, Statuses
  <2>3. queue' \in [Tasks -> Row]
        /\ \A u \in Tasks : queue'[u] = IF u = t THEN new ELSE queue[u]
    BY <1>1, <2>1, <2>2 DEF QueueTypeOK
  <2>4. loss' \in [Tasks -> SUBSET {"overtaken", "swallowed"}]
        /\ \A u \in Tasks : loss'[u] = IF u = t THEN lost ELSE loss[u]
    BY <1>1, <2>1 DEF QueueTypeOK
  <2>5. order' \in Seq(Tasks) /\ IsInjective(order') /\ Range(order') = {u \in Tasks : Exists(u)'}
    <3>1. \A u \in Tasks : Exists(u)' <=> u = t \/ Exists(u)
      BY <1>1, <2>3 DEF Exists
    <3>2. CASE publisher[p].exists
      <4>1. Exists(t) /\ order' = order
        BY <1>1, <2>1, <3>2 DEF Rows, PublishCommit
      <4>. QED
        BY <3>1, <4>1 DEF QueueTypeOK
    <3>3. CASE ~publisher[p].exists
      <4>1. ~Exists(t) /\ order' = Append(order, t)
        BY <1>5, <2>1, <3>3 DEF Accepted
      <4>2. order \in Seq(Tasks) /\ IsInjective(order) /\ t \notin Range(order)
        BY <4>1 DEF QueueTypeOK
      <4>3. order' \in Seq(Tasks) /\ IsInjective(order') /\ Range(order') = Range(order) \cup {t}
        BY <1>1, <4>1, <4>2, AppendedIsThere
      <4>. QED
        BY <1>1, <3>1, <4>3 DEF QueueTypeOK
    <3>. QED
      BY <3>2, <3>3
  <2>6. QueueTypeOK'
    BY <1>2, <2>1, <2>3, <2>4, <2>5 DEF QueueTypeOK, Row, Copy
  <2>7. Rows'
    <3>1. \A u \in Tasks : Exists(u) => Exists(u)'
      BY <2>3 DEF Exists
    <3>2. \A q \in Publishers : publisher'[q] # NoPublish =>
            publisher'[q] = publisher[q] /\ publisher[q] \in Publish
      BY <1>2 DEF Rows
    <3>3. \A q \in Publishers : publisher'[q] # NoPublish /\ publisher'[q].exists =>
            Exists(publisher[q].task)'
      BY <3>1, <3>2 DEF Rows, Publish
    <3>4. \A u \in Tasks : queue'[u].status \in {"pending", "processing"} => queue'[u].attempts < MaxAttempts
      BY <2>3, AttemptsAssumption DEF Rows
    <3>5. \A u \in Tasks : Exists(u)' => queue'[u].answer \in Answers
      BY <1>1, <2>3 DEF Rows, Exists
    <3>. QED
      BY <1>3, <3>3, <3>4, <3>5 DEF Rows
  <2>8. \A i \in DOMAIN batch : batch[i] \in Copy
    BY ElementOfSeq, LenProperties DEF QueueTypeOK
  <2>9. Copies'
    <3>1. \A i \in DOMAIN batch : CopyOf(batch[i])'
      <4>. SUFFICES ASSUME NEW i \in DOMAIN batch PROVE CopyOf(batch[i])'
        OBVIOUS
      <4>1. CopyOf(batch[i]) /\ batch[i].task \in Tasks
        BY <2>8 DEF Copies, Copy
      <4>2. batch[i].task = t => "overtaken" \in loss'[t]
        BY <1>1, <2>4 DEF HeldTasks
      <4>. QED
        BY <2>1, <2>3, <2>4, <4>1, <4>2 DEF CopyOf
    <3>. QED
      BY <2>1, <3>1 DEF Copies
  <2>10. Paths'
    BY <2>1, <2>3 DEF Paths
  <2>11. Marked'
    <3>1. ASSUME loop = "mark" PROVE Head(batch).task \in HeldTasks /\ Head(batch).task \in Tasks
      BY <3>1, FirstCopy DEF HeldTasks, QueueTypeOK, Copy
    <3>. QED
      BY <2>1, <2>4, <3>1 DEF Marked, Indexed
  <2>12. OnlyKnownLosses'
    BY <2>1, <2>3, <2>4 DEF OnlyKnownLosses, Indexed
  <2>. QED
    BY <2>6, <2>7, <2>9, <2>10, <2>11, <2>12
<1>. QED
  BY <1>4, <1>5
-----------------------------------------------------------------------------
(* The steps of the loop                                                   *)

(* What a step that touches neither rows nor publishes leaves of the types. *)
LEMMA RowsStay ==
  ASSUME QueueInv, UNCHANGED <<queue, publisher>>
  PROVE  Rows'
  BY DEF QueueInv, Rows, Exists

(* Rows that only change their status and what goes with it.               *)
LEMMA RowsMove ==
  ASSUME QueueInv, UNCHANGED <<order, publisher, lastPath>>, queue' \in [Tasks -> Row],
         \A t \in Tasks : /\ queue'[t].status = "none" <=> queue[t].status = "none"
                          /\ queue'[t].answer = queue[t].answer
                          /\ queue'[t].status \in {"pending", "processing"} =>
                               queue'[t].attempts < MaxAttempts
  PROVE  /\ Rows'
         /\ queue' \in [Tasks -> Row'] /\ Range(order') = {t \in Tasks : Exists(t)'}
<1>1. \A t \in Tasks : Exists(t)' <=> Exists(t)
  BY DEF Exists
<1>2. \A p \in Publishers : publisher[p] # NoPublish => publisher[p].task \in Tasks
  BY DEF QueueInv, Rows, Publish
<1>3. Rows'
  BY <1>1, <1>2 DEF QueueInv, Rows, Exists
<1>4. Range(order') = {t \in Tasks : Exists(t)'}
  BY <1>1 DEF QueueInv, QueueTypeOK
<1>5. Row' = Row
  BY DEF Row
<1>. QED
  BY <1>3, <1>4, <1>5

(* Rows that keep their documents, while none is new.                      *)
LEMMA PathsStay ==
  ASSUME QueueInv, UNCHANGED <<docs, path>>, loop # "mark" /\ loop' # "mark",
         \A t \in Tasks : queue'[t].doc = queue[t].doc
  PROVE  Paths'
<1>1. \A d \in docs, t \in Tasks : d.path = queue'[t].doc => d.task = t
  BY DEF QueueInv, Paths
<1>. QED
  BY <1>1 DEF QueueInv, Paths

(* Rows stuck in processing become pending while the loop has no copies.   *)
LEMMA RequeueStuckKeeps ==
  ASSUME QueueInv, RequeueStuck
  PROVE  QueueInv'
<1>. USE DEF QueueInv
<1>. DEFINE new(t) == [queue[t] EXCEPT !.status = "pending", !.stuck = FALSE]
<1>0. /\ loop = "sleep" /\ loop' = "select" /\ UNCHANGED <<order, docs, lastPath, publisher, batch, path, loss>>
      /\ queue' = [t \in Tasks |->
                     IF queue[t].status = "processing" /\ queue[t].stuck THEN new(t) ELSE queue[t]]
  BY DEF RequeueStuck, index, spent
<1>1. ASSUME NEW t \in Tasks PROVE queue[t] \in Row /\ new(t) \in Row
  <2>1. queue[t] \in Row
    BY DEF QueueTypeOK
  <2>. QED
    BY <2>1 DEF Row, Statuses
<1>2. queue' \in [Tasks -> Row]
  BY <1>0, <1>1
<1>3. \A t \in Tasks : /\ queue'[t].status = "none" <=> queue[t].status = "none"
                       /\ queue'[t].answer = queue[t].answer
                       /\ queue'[t].status \in {"pending", "processing"} =>
                            queue'[t].attempts < MaxAttempts
                       /\ queue'[t].doc = queue[t].doc
                       /\ queue'[t].status = "done" => queue[t].status = "done"
  BY <1>0, <1>1 DEF Rows, Row
<1>4. batch = <<>> /\ DOMAIN batch = {}
  BY <1>0, NoCopies DEF QueueTypeOK
<1>5. Rows' /\ queue' \in [Tasks -> Row'] /\ Range(order') = {t \in Tasks : Exists(t)'}
  BY <1>0, <1>2, <1>3, RowsMove
<1>6. QueueTypeOK'
  BY <1>0, <1>4, <1>5 DEF QueueTypeOK, Copy
<1>7. Copies' /\ Marked'
  BY <1>0, <1>4 DEF Copies, Marked
<1>8. Paths'
  BY <1>0, <1>3, PathsStay
<1>9. OnlyKnownLosses'
  BY <1>0, <1>3 DEF OnlyKnownLosses, Indexed
<1>. QED
  BY <1>5, <1>6, <1>7, <1>8, <1>9

(* The rows claimed are pending, each once.                                *)
LEMMA ClaimedRows ==
  ASSUME QueueTypeOK, NEW s \in OldestPending
  PROVE  /\ Len(s) \in 0..DrainBatch /\ DOMAIN s = 1..Len(s)
         /\ \A i \in DOMAIN s : s[i] \in Tasks /\ Pending(s[i])
         /\ \A i, j \in DOMAIN s : s[i] = s[j] => i = j
         /\ s = <<>> <=> DOMAIN s = {}
<1>. DEFINE P == {t \in Tasks : Pending(t)}
<1>1. PICK n \in 0..DrainBatch : s \in [1..n -> P]
  BY DEF OldestPending
<1>2. n \in Nat /\ s \in Seq(P)
  BY <1>1, BatchAssumption, SeqDef
<1>3. Len(s) = n /\ DOMAIN s = 1..n
  BY <1>1, <1>2, LenProperties
<1>4. \A i, j \in DOMAIN s : i < j => s[i] # s[j]
  <2>. SUFFICES ASSUME NEW i \in DOMAIN s, NEW j \in DOMAIN s, i < j, s[i] = s[j] PROVE FALSE
    OBVIOUS
  <2>1. PICK k \in DOMAIN order, l \in DOMAIN order : k < l /\ order[k] = s[i] /\ order[l] = s[j]
    BY DEF OldestPending, Older
  <2>2. k \in Nat /\ l \in Nat
    BY LenProperties DEF QueueTypeOK
  <2>. QED
    BY <2>1, <2>2 DEF QueueTypeOK, IsInjective
<1>5. \A i, j \in DOMAIN s : s[i] = s[j] => i = j
  BY <1>2, <1>3, <1>4
<1>6. s = <<>> <=> DOMAIN s = {}
  BY <1>1, <1>2, <1>3, EmptySeq
<1>. QED
  BY <1>1, <1>2, <1>3, <1>5, <1>6

(* A claim copies rows as they are, and takes up their losses anew.        *)
LEMMA ClaimSelectKeeps ==
  ASSUME QueueInv, ClaimSelect
  PROVE  QueueInv'
<1>. USE DEF QueueInv, ClaimSelect, index, spent, table
<1>1. PICK s \in OldestPending :
        /\ batch' = [i \in DOMAIN s |->
                       [task |-> s[i], answer |-> queue[s[i]].answer,
                        attempts |-> queue[s[i]].attempts, doc |-> queue[s[i]].doc]]
        /\ loop' = IF s = <<>> THEN "sleep" ELSE "claim"
        /\ loss' = [t \in Tasks |-> IF t \in Range(s) THEN {} ELSE loss[t]]
  OBVIOUS
<1>2. /\ Len(s) \in 0..DrainBatch /\ DOMAIN s = 1..Len(s)
      /\ \A i \in DOMAIN s : s[i] \in Tasks /\ Pending(s[i])
      /\ \A i, j \in DOMAIN s : s[i] = s[j] => i = j
      /\ s = <<>> <=> DOMAIN s = {}
  BY ClaimedRows
<1>3. \A t \in Tasks : queue[t] \in Row
  BY DEF QueueTypeOK
<1>4. DOMAIN batch' = 1..Len(s) /\ \A i \in 1..Len(s) :
        /\ batch'[i].task = s[i] /\ batch'[i].answer = queue[s[i]].answer
        /\ batch'[i].attempts = queue[s[i]].attempts /\ batch'[i].doc = queue[s[i]].doc
        /\ batch'[i] \in [task : Tasks, answer : {queue[s[i]].answer},
                          attempts : {queue[s[i]].attempts}, doc : {queue[s[i]].doc}]
  BY <1>1, <1>2
<1>5. \A i \in 1..Len(s) : batch'[i] \in Copy
  <2>. SUFFICES ASSUME NEW i \in 1..Len(s) PROVE batch'[i] \in Copy
    OBVIOUS
  <2>1. s[i] \in Tasks /\ queue[s[i]].status = "pending" /\ queue[s[i]] \in Row
    BY <1>2, <1>3 DEF Pending
  <2>2. queue[s[i]].answer \in Answers
    BY <2>1 DEF Rows, Exists
  <2>. QED
    BY <1>4, <2>1, <2>2 DEF Copy, Row
<1>6. batch' \in Seq(Copy) /\ Len(batch') = Len(s)
  <2>1. Len(s) \in Nat
    BY <1>2, BatchAssumption
  <2>2. batch' = [i \in 1..Len(s) |-> batch'[i]]
    BY <1>1, <1>2
  <2>3. batch' \in Seq(Copy)
    BY <1>5, <2>1, <2>2, SeqDef
  <2>. QED
    BY <1>4, <2>1, <2>3, LenProperties
<1>7. batch' = <<>> <=> s = <<>>
  BY <1>2, <1>4, <1>6, EmptySeq
<1>8. QueueTypeOK'
  <2>1. batch' \in Seq(Copy') /\ Len(batch') <= DrainBatch
    <3>1. Copy' = Copy
      BY DEF Copy
    <3>. QED
      BY <1>2, <1>6, <3>1, BatchAssumption
  <2>2. batch' # <<>> <=> loop' \in {"claim", "record", "insert", "mark", "fail"}
    BY <1>1, <1>7
  <2>3. loss' \in [Tasks -> SUBSET {"overtaken", "swallowed"}]
    BY <1>1 DEF QueueTypeOK
  <2>. QED
    BY <1>1, <2>1, <2>2, <2>3 DEF QueueTypeOK, Row, Exists
<1>9. Rows'
  BY RowsStay
<1>10. Copies'
  <2>1. \A i \in 1..Len(s) : s[i] \in Tasks /\ Pending(s[i]) /\ s[i] \in Range(s)
    BY <1>2 DEF Range
  <2>2. \A i \in 1..Len(s) : CopyOf(batch[i])'
    BY <1>1, <1>4, <2>1 DEF CopyOf, Rows, Pending
  <2>. QED
    BY <1>2, <1>4, <2>2 DEF Copies
<1>11. Paths' /\ Marked'
  BY <1>1 DEF Paths, Marked
<1>12. OnlyKnownLosses'
  <2>1. \A t \in Range(s) : queue[t].status # "done"
    BY <1>2 DEF Pending, Range
  <2>. QED
    BY <1>1, <2>1 DEF OnlyKnownLosses, Indexed
<1>. QED
  BY <1>8, <1>9, <1>10, <1>11, <1>12
(* A row that is claimed keeps what its copy has of it, whatever has been  *)
(* published in between.                                                   *)
LEMMA ClaimUpdateKeeps ==
  ASSUME QueueInv, ClaimUpdate
  PROVE  QueueInv'
<1>. USE DEF QueueInv
<1>0. /\ loop = "claim" /\ loop' = "record" /\ UNCHANGED <<order, docs, lastPath, publisher, batch, path, loss>>
      /\ queue' = [t \in Tasks |->
                     IF t \in HeldTasks
                     THEN [queue[t] EXCEPT !.status = "processing", !.stuck = FALSE]
                     ELSE queue[t]]
  BY DEF ClaimUpdate, ClaimedStatus, index, spent
<1>1. ASSUME NEW t \in Tasks
      PROVE  queue[t] \in Row /\ [queue[t] EXCEPT !.status = "processing", !.stuck = FALSE] \in Row
  <2>1. queue[t] \in Row
    BY DEF QueueTypeOK
  <2>. QED
    BY <2>1 DEF Row, Statuses
<1>2. \A t \in HeldTasks : t \in Tasks /\ queue[t].status \in {"pending", "processing"}
  <2>1. \A i \in DOMAIN batch : batch[i] \in Copy
    BY ElementOfSeq, LenProperties DEF QueueTypeOK
  <2>. QED
    BY <2>1 DEF HeldTasks, Copies, CopyOf, Copy
<1>3. queue' \in [Tasks -> Row]
  BY <1>0, <1>1
<1>4. \A t \in Tasks : /\ queue'[t].status = "none" <=> queue[t].status = "none"
                       /\ queue'[t].answer = queue[t].answer
                       /\ queue'[t].status \in {"pending", "processing"} =>
                            queue'[t].attempts < MaxAttempts
                       /\ queue'[t].doc = queue[t].doc
                       /\ queue'[t].status = "done" => queue[t].status = "done"
                       /\ t \in HeldTasks => queue'[t].status = "processing"
  BY <1>0, <1>1, <1>2 DEF Rows, Row
<1>5. Rows' /\ queue' \in [Tasks -> Row'] /\ Range(order') = {t \in Tasks : Exists(t)'}
  BY <1>0, <1>3, <1>4, RowsMove
<1>6. QueueTypeOK'
  BY <1>0, <1>5 DEF QueueTypeOK, Copy
<1>7. Copies'
  <2>1. \A i \in DOMAIN batch : batch[i].task \in HeldTasks
    BY DEF HeldTasks
  <2>2. ASSUME NEW i \in DOMAIN batch PROVE CopyOf(batch[i])'
    <3>1. CopyOf(batch[i]) /\ batch[i].task \in Tasks
      BY <1>2, <2>1 DEF Copies
    <3>2. /\ queue'[batch[i].task].status = "processing"
          /\ queue'[batch[i].task].doc = queue[batch[i].task].doc
          /\ queue'[batch[i].task].answer = queue[batch[i].task].answer
      BY <1>4, <2>1, <3>1
    <3>3. UNCHANGED <<batch, loss>>
      BY <1>0
    <3>. QED
      BY <3>1, <3>2, <3>3 DEF CopyOf
  <2>. QED
    BY <1>0, <2>2 DEF Copies
<1>8. Paths'
  BY <1>0, <1>4, PathsStay
<1>10. Marked'
  BY <1>0 DEF Marked
<1>9. OnlyKnownLosses'
  BY <1>0, <1>4 DEF OnlyKnownLosses, Indexed
<1>. QED
  BY <1>5, <1>6, <1>7, <1>8, <1>9, <1>10

(* What a query that fails or a death leaves behind: rows, and no copies.  *)
LEMMA GivenUp ==
  ASSUME QueueInv, UNCHANGED <<queue, order, docs, lastPath, loss>>, batch' = <<>>, path' = 0,
         loop' \in {"sleep", "dead", "down"},
         UNCHANGED publisher \/ publisher' = [p \in Publishers |-> NoPublish]
  PROVE  QueueInv'
<1>. USE DEF QueueInv
<1>1. Rows'
  BY DEF Rows, Exists
<1>2. Len(batch') <= DrainBatch /\ batch' \in Seq(Copy') /\ DOMAIN batch' = {}
  BY NoCopies, BatchAssumption, EmptySeq
<1>3. \A p \in Publishers :
        publisher'[p] # NoPublish => publisher'[p].task \in Tasks /\ publisher'[p].answer \in Answers
  BY DEF QueueTypeOK
<1>4. QueueTypeOK'
  BY <1>2, <1>3 DEF QueueTypeOK, Row, Exists
<1>5. Copies' /\ Marked'
  BY <1>2 DEF Copies, Marked
<1>6. Paths' /\ OnlyKnownLosses'
  BY DEF Paths, OnlyKnownLosses, Indexed
<1>. QED
  BY <1>1, <1>4, <1>5, <1>6

(* The failures that end a pass, the loop, or the process.                 *)
LEMMA EndsKeep ==
  ASSUME QueueInv, DrainQueryFails \/ LoopDies \/ Crash
  PROVE  QueueInv'
<1>1. loop # "mark" => path = 0
  BY DEF QueueInv, Paths
<1>. QED
  BY <1>1, GivenUp DEF DrainQueryFails, LoopDies, Crash, table, index

(* A server that comes back finds no copies.                               *)
LEMMA RestartKeeps ==
  ASSUME QueueInv, Restart
  PROVE  QueueInv'
<1>1. batch = <<>> /\ path = 0
  BY DEF Restart, QueueInv, QueueTypeOK, Paths
<1>. QED
  BY <1>1, GivenUp DEF Restart, table, index

(* A row that has been in processing for long.                             *)
LEMMA AgeOutKeeps ==
  ASSUME QueueInv, NEW u \in Tasks, AgeOut(u)
  PROVE  QueueInv'
<1>. USE DEF QueueInv
<1>0. /\ UNCHANGED <<order, docs, lastPath, publisher, loop, batch, path, loss>>
      /\ queue' = [queue EXCEPT ![u].stuck = TRUE]
  BY DEF AgeOut, index, drainer, spent
<1>1. \A t \in Tasks : queue[t] \in Row
  BY DEF QueueTypeOK
<1>2. \A t \in Tasks : /\ queue'[t].status = queue[t].status /\ queue'[t].answer = queue[t].answer
                       /\ queue'[t].attempts = queue[t].attempts /\ queue'[t].doc = queue[t].doc
  BY <1>0 DEF QueueTypeOK, Row
<1>3. queue' \in [Tasks -> Row]
  BY <1>0, <1>1 DEF QueueTypeOK, Row
<1>4. Rows' /\ queue' \in [Tasks -> Row'] /\ Range(order') = {t \in Tasks : Exists(t)'}
  BY <1>0, <1>2, <1>3, RowsMove DEF Rows
<1>5. QueueTypeOK'
  BY <1>0, <1>4 DEF QueueTypeOK, Copy
<1>6. Copies'
  <2>1. \A i \in DOMAIN batch : batch[i] \in Copy
    BY ElementOfSeq, LenProperties DEF QueueTypeOK
  <2>. QED
    BY <1>0, <1>2, <2>1 DEF Copies, CopyOf, Copy
<1>7. Paths' /\ Marked'
  BY <1>0, <1>2 DEF Paths, Marked, Indexed
<1>8. OnlyKnownLosses'
  BY <1>0, <1>2 DEF OnlyKnownLosses, Indexed
<1>. QED
  BY <1>4, <1>5, <1>6, <1>7, <1>8
-----------------------------------------------------------------------------
(* What record_success does for the first copy, and how it ends            *)

(* A step of the index leaves the rows, and what the copies say of them.   *)
LEMMA IndexStep ==
  ASSUME QueueInv, UNCHANGED <<table, publisher, batch>>, batch # <<>>,
         loop' \in {"insert", "mark"}, lastPath' \in Nat, lastPath <= lastPath', path' \in 0..lastPath',
         loss' \in [Tasks -> SUBSET {"overtaken", "swallowed"}],
         \A t \in Tasks : "overtaken" \in loss'[t] <=> "overtaken" \in loss[t],
         \A d \in docs' : d.path \in 1..lastPath' /\ d.task \in Tasks /\ d.answer \in Answers \ Short
  PROVE  QueueTypeOK' /\ Rows' /\ Copies'
<1>. USE DEF QueueInv
<1>1. UNCHANGED <<queue, order>>
  BY DEF table
<1>2. queue \in [Tasks -> Row'] /\ batch \in Seq(Copy')
  BY RowsGrow
<1>3. QueueTypeOK'
  BY <1>1, <1>2 DEF QueueTypeOK, Exists
<1>4. Rows'
  BY <1>1, RowsStay
<1>5. \A i \in DOMAIN batch : batch[i] \in Copy
  BY ElementOfSeq, LenProperties DEF QueueTypeOK
<1>6. ASSUME NEW i \in DOMAIN batch PROVE CopyOf(batch[i])'
  <2>1. CopyOf(batch[i]) /\ batch[i].task \in Tasks
    BY <1>5 DEF Copies, Copy
  <2>. QED
    BY <1>1, <2>1 DEF CopyOf
<1>7. Copies'
  BY <1>6 DEF Copies
<1>. QED
  BY <1>3, <1>4, <1>7

(* The document that is deleted is of the task in progress, which is not   *)
(* done; so nothing that is done leaves the index.                         *)
LEMMA DeleteSupersededKeeps ==
  ASSUME QueueInv, DeleteSuperseded
  PROVE  QueueInv'
<1>. USE DEF QueueInv
<1>. DEFINE h == Head(batch)
<1>1. /\ loop = "record" /\ loop' = IF h.answer \in Short THEN "mark" ELSE "insert"
      /\ path' = 0 /\ UNCHANGED <<queue, order, publisher, batch, lastPath, loss>>
      /\ docs' \subseteq docs
      /\ \A d \in docs : d \in docs' \/ (d.path = h.doc /\ h.answer \notin Short)
  BY DEF DeleteSuperseded, table
<1>2. batch # <<>> /\ h = batch[1] /\ 1 \in DOMAIN batch /\ h \in Copy
  BY <1>1, FirstCopy DEF QueueTypeOK
<1>3. QueueTypeOK' /\ Rows' /\ Copies'
  <2>1. lastPath' \in Nat /\ lastPath <= lastPath' /\ path' \in 0..lastPath'
    BY <1>1 DEF QueueTypeOK
  <2>2. \A d \in docs' : d.path \in 1..lastPath' /\ d.task \in Tasks /\ d.answer \in Answers \ Short
    BY <1>1 DEF QueueTypeOK
  <2>3. loss' \in [Tasks -> SUBSET {"overtaken", "swallowed"}]
    BY <1>1 DEF QueueTypeOK
  <2>. QED
    BY <1>1, <1>2, <2>1, <2>2, <2>3, IndexStep DEF table
<1>4. Paths'
  <2>1. \A d \in docs' : d \in docs /\ d.path # path'
    BY <1>1 DEF QueueTypeOK
  <2>. QED
    BY <1>1, <2>1 DEF Paths
<1>5. Marked'
  BY <1>1 DEF Marked
<1>6. OnlyKnownLosses'
  <2>. SUFFICES ASSUME NEW t \in Tasks, queue[t].status = "done", queue[t].answer \notin Short, loss[t] = {}
                PROVE  Indexed(t, queue[t].answer)'
    BY <1>1 DEF OnlyKnownLosses
  <2>1. PICK d \in docs : d.task = t /\ d.answer = queue[t].answer
    BY DEF OnlyKnownLosses, Indexed
  <2>2. d.path # h.doc
    BY <1>2, <2>1 DEF Copies, CopyOf, Paths, Copy
  <2>. QED
    BY <1>1, <2>1, <2>2 DEF Indexed
<1>. QED
  BY <1>3, <1>4, <1>5, <1>6

(* A document that is inserted has a path of its own, and with it or with  *)
(* the one it duplicates the answer of the copy is in the index.           *)
LEMMA InsertDocKeeps ==
  ASSUME QueueInv, InsertDoc
  PROVE  QueueInv'
<1>. USE DEF QueueInv
<1>. DEFINE h == Head(batch)
            new == [path |-> lastPath', task |-> h.task, answer |-> h.answer]
<1>1. /\ loop = "insert" /\ loop' = "mark" /\ lastPath' = lastPath + 1 /\ path' = lastPath'
      /\ UNCHANGED <<queue, order, publisher, batch, loss>>
      /\ docs' = IF Indexed(h.task, h.answer) THEN docs ELSE docs \cup {new}
  BY DEF InsertDoc, table, spent
<1>2. batch # <<>> /\ h = batch[1] /\ 1 \in DOMAIN batch /\ h \in Copy
  BY <1>1, FirstCopy DEF QueueTypeOK
<1>3. h.answer \notin Short
  BY <1>1 DEF Marked
<1>4. lastPath \in Nat /\ \A d \in docs : d.path \in 1..lastPath
  BY DEF QueueTypeOK
<1>5. QueueTypeOK' /\ Rows' /\ Copies'
  <2>1. lastPath' \in Nat /\ lastPath <= lastPath' /\ path' \in 0..lastPath'
    BY <1>1, <1>4
  <2>2. \A d \in docs' : d.path \in 1..lastPath' /\ d.task \in Tasks /\ d.answer \in Answers \ Short
    BY <1>1, <1>2, <1>3, <1>4 DEF QueueTypeOK, Copy
  <2>3. loss' \in [Tasks -> SUBSET {"overtaken", "swallowed"}]
    BY <1>1 DEF QueueTypeOK
  <2>. QED
    BY <1>1, <1>2, <2>1, <2>2, <2>3, IndexStep DEF table
<1>6. Paths'
  <2>1. \A d \in docs : d.path # lastPath'
    BY <1>1, <1>4
  <2>2. \A d, e \in docs' : d.path = e.path => d = e
    BY <1>1, <2>1 DEF Paths
  <2>3. \A t \in Tasks : queue[t].doc # lastPath'
    BY <1>1, <1>4 DEF QueueTypeOK, Row
  <2>4. \A d \in docs', t \in Tasks : d.path = queue[t].doc => d.task = t
    BY <1>1, <2>3 DEF Paths
  <2>5. \A d \in docs' : d.path = path' => d.task = h.task
    BY <1>1, <2>1
  <2>. QED
    BY <1>1, <2>2, <2>4, <2>5 DEF Paths
<1>7. \E d \in docs' : d.task = h.task /\ d.answer = h.answer
  <2>1. CASE Indexed(h.task, h.answer)
    BY <1>1, <2>1 DEF Indexed
  <2>2. CASE ~Indexed(h.task, h.answer)
    <3>1. new \in docs' /\ new.task = h.task /\ new.answer = h.answer
      BY <1>1, <2>2
    <3>. QED
      BY <3>1
  <2>. QED
    BY <2>1, <2>2
<1>8. Marked'
  BY <1>1, <1>7 DEF Marked, Indexed
<1>9. OnlyKnownLosses'
  <2>1. docs \subseteq docs'
    BY <1>1
  <2>. QED
    BY <1>1, <2>1 DEF OnlyKnownLosses, Indexed
<1>. QED
  BY <1>5, <1>6, <1>8, <1>9
(* A failure that is swallowed is noted as a loss.                         *)
LEMMA InsertFailsKeeps ==
  ASSUME QueueInv, InsertFails
  PROVE  QueueInv'
<1>. USE DEF QueueInv
<1>. DEFINE h == Head(batch)
<1>1. /\ loop = "insert" /\ loop' = "mark" /\ UNCHANGED <<queue, order, publisher, batch, docs>>
      /\ (path' = 0 /\ lastPath' = lastPath) \/ (path' = lastPath + 1 /\ lastPath' = lastPath + 1)
      /\ loss' = [loss EXCEPT ![h.task] = @ \union {"swallowed"}]
  BY DEF InsertFails, table
<1>2. batch # <<>> /\ h = batch[1] /\ h \in Copy /\ h.task \in Tasks
  BY <1>1, FirstCopy DEF QueueTypeOK, Copy
<1>3. lastPath \in Nat /\ \A d \in docs : d.path \in 1..lastPath
  BY DEF QueueTypeOK
<1>4. loss' \in [Tasks -> SUBSET {"overtaken", "swallowed"}]
      /\ \A t \in Tasks : loss'[t] = IF t = h.task THEN loss[t] \cup {"swallowed"} ELSE loss[t]
  BY <1>1, <1>2 DEF QueueTypeOK
<1>5. QueueTypeOK' /\ Rows' /\ Copies'
  <2>1. lastPath' \in Nat /\ lastPath <= lastPath' /\ path' \in 0..lastPath'
    BY <1>1, <1>3
  <2>2. \A d \in docs' : d.path \in 1..lastPath' /\ d.task \in Tasks /\ d.answer \in Answers \ Short
    BY <1>1, <1>3 DEF QueueTypeOK
  <2>3. \A t \in Tasks : "overtaken" \in loss'[t] <=> "overtaken" \in loss[t]
    BY <1>4
  <2>. QED
    BY <1>1, <1>2, <1>4, <2>1, <2>2, <2>3, IndexStep DEF table
<1>6. Paths'
  <2>1. \A d \in docs : d.path # path'
    BY <1>1, <1>3
  <2>. QED
    BY <1>1, <2>1 DEF Paths
<1>7. Marked'
  BY <1>1, <1>2, <1>4 DEF Marked
<1>8. OnlyKnownLosses'
  BY <1>1, <1>4 DEF OnlyKnownLosses, Indexed
<1>. QED
  BY <1>5, <1>6, <1>7, <1>8

(* The loop goes on to the next copy, when its first row is settled.       *)
LEMMA NextCopy ==
  ASSUME QueueInv, batch # <<>>, batch' = Tail(batch), loop' = NextRow, path' = 0,
         UNCHANGED <<order, publisher, docs, lastPath, loss>>,
         NEW new \in Row, queue' = [queue EXCEPT ![Head(batch).task] = new],
         new.answer = queue[Head(batch).task].answer, new.status # "none",
         new.status \in {"pending", "processing"} => new.attempts < MaxAttempts
  PROVE  QueueTypeOK' /\ Rows' /\ Copies' /\ Marked'
         /\ \A t \in Tasks : queue'[t] = IF t = Head(batch).task THEN new ELSE queue[t]
<1>. USE DEF QueueInv
<1>. DEFINE h == Head(batch).task
<1>1. /\ Head(batch) = batch[1] /\ Head(batch) \in Copy /\ 1 \in DOMAIN batch
      /\ Tail(batch) \in Seq(Copy) /\ Len(Tail(batch)) = Len(batch) - 1
      /\ Len(batch) \in Nat \ {0}
      /\ DOMAIN batch = 1..Len(batch) /\ DOMAIN Tail(batch) = 1..(Len(batch) - 1)
      /\ \A i \in DOMAIN Tail(batch) : i + 1 \in DOMAIN batch /\ Tail(batch)[i] = batch[i + 1]
  BY FirstCopy
<1>2. h \in Tasks /\ queue[h] \in Row /\ queue[h].status # "none"
  BY <1>1 DEF QueueTypeOK, Copy, Copies, CopyOf
<1>3. queue' \in [Tasks -> Row] /\ \A t \in Tasks : queue'[t] = IF t = h THEN new ELSE queue[t]
  BY <1>2 DEF QueueTypeOK
<1>4. Rows' /\ queue' \in [Tasks -> Row'] /\ Range(order') = {t \in Tasks : Exists(t)'}
  BY <1>2, <1>3, RowsMove DEF Rows
<1>5. QueueTypeOK'
  <2>1. batch' \in Seq(Copy')
    BY <1>1 DEF Copy
  <2>2. batch' = <<>> <=> Len(batch) = 1
    BY <1>1, EmptySeq
  <2>3. batch' # <<>> <=> loop' \in {"claim", "record", "insert", "mark", "fail"}
    BY <2>2 DEF NextRow
  <2>4. loop' \in {"sleep", "record"}
    BY DEF NextRow
  <2>5. Len(batch') <= DrainBatch
    BY <1>1, BatchAssumption DEF QueueTypeOK
  <2>6. path' \in 0..lastPath'
    BY DEF QueueTypeOK
  <2>. QED
    BY <1>4, <2>1, <2>3, <2>4, <2>5, <2>6 DEF QueueTypeOK
<1>6. \A i \in DOMAIN batch' : batch'[i].task # h
  <2>. SUFFICES ASSUME NEW i \in DOMAIN batch', batch'[i].task = h PROVE FALSE
    OBVIOUS
  <2>1. i + 1 \in DOMAIN batch /\ batch[i + 1].task = batch[1].task
    BY <1>1
  <2>2. i + 1 = 1
    BY <1>1, <2>1 DEF Copies
  <2>. QED
    BY <1>1, <2>2
<1>7. Copies'
  <2>1. ASSUME NEW i \in DOMAIN batch' PROVE CopyOf(batch[i])'
    <3>1. i + 1 \in DOMAIN batch /\ batch'[i] = batch[i + 1]
      BY <1>1
    <3>2. CopyOf(batch[i + 1]) /\ batch[i + 1].task \in Tasks \ {h}
      <4>1. batch[i + 1] \in Copy
        BY <3>1, ElementOfSeq, <1>1 DEF QueueTypeOK
      <4>. QED
        BY <1>6, <3>1, <4>1 DEF Copies, Copy
    <3>3. queue'[batch'[i].task] = queue[batch'[i].task]
      BY <1>3, <3>1, <3>2
    <3>. QED
      BY <3>1, <3>2, <3>3 DEF CopyOf
  <2>2. ASSUME NEW i \in DOMAIN batch', NEW j \in DOMAIN batch', batch'[i].task = batch'[j].task
        PROVE  i = j
    <3>1. i + 1 \in DOMAIN batch /\ batch'[i] = batch[i + 1] /\ j + 1 \in DOMAIN batch /\ batch'[j] = batch[j + 1]
      BY <1>1
    <3>2. i + 1 = j + 1
      BY <2>2, <3>1 DEF Copies
    <3>. QED
      BY <1>1, <3>2
  <2>. QED
    BY <2>1, <2>2 DEF Copies
<1>8. Marked'
  BY DEF Marked, NextRow
<1>. QED
  BY <1>3, <1>4, <1>5, <1>7, <1>8

(* A row is marked as done with the answer the copy had, unless it was     *)
(* overtaken, and with the path of a document of its own.                  *)
LEMMA MarkDoneKeeps ==
  ASSUME QueueInv, MarkDone
  PROVE  QueueInv'
<1>. USE DEF QueueInv
<1>. DEFINE h == Head(batch)
            new == [queue[h.task] EXCEPT !.status = "done", !.stuck = FALSE,
                                         !.doc = IF path = 0 THEN queue[h.task].doc ELSE path]
<1>1. /\ loop = "mark" /\ loop' = NextRow /\ batch' = Tail(batch) /\ path' = 0
      /\ queue' = [queue EXCEPT ![h.task] = new]
      /\ UNCHANGED <<order, publisher, docs, lastPath, loss>>
  BY DEF MarkDone, index, spent
<1>2. batch # <<>> /\ h = batch[1] /\ 1 \in DOMAIN batch /\ h \in Copy /\ h.task \in Tasks
  BY <1>1, FirstCopy DEF QueueTypeOK, Copy
<1>3. queue[h.task] \in Row /\ path \in 0..lastPath
  BY <1>2 DEF QueueTypeOK
<1>4. /\ new \in Row /\ new.answer = queue[h.task].answer /\ new.status = "done"
      /\ new.doc = IF path = 0 THEN queue[h.task].doc ELSE path
  BY <1>3 DEF Row, Statuses
<1>. HIDE DEF new
<1>5. /\ QueueTypeOK' /\ Rows' /\ Copies' /\ Marked'
      /\ \A t \in Tasks : queue'[t] = IF t = h.task THEN new ELSE queue[t]
  BY <1>1, <1>2, <1>4, NextCopy
<1>6. Paths'
  <2>1. \A d \in docs, t \in Tasks : d.path = queue'[t].doc => d.task = t
    BY <1>1, <1>4, <1>5 DEF Paths
  <2>2. loop' # "mark"
    BY <1>1 DEF NextRow
  <2>. QED
    BY <1>1, <2>1, <2>2 DEF Paths
<1>7. OnlyKnownLosses'
  <2>1. ASSUME loss[h.task] = {}, queue[h.task].answer \notin Short
        PROVE  Indexed(h.task, queue[h.task].answer)
    <3>1. CopyOf(h)
      BY <1>2 DEF Copies
    <3>2. queue[h.task].answer = h.answer
      BY <2>1, <3>1 DEF CopyOf
    <3>. QED
      BY <1>1, <2>1, <3>2 DEF Marked
  <2>2. \A t \in Tasks : queue'[t].answer = queue[t].answer
    BY <1>4, <1>5
  <2>. QED
    BY <1>1, <1>5, <2>1, <2>2 DEF OnlyKnownLosses, Indexed
<1>. QED
  BY <1>5, <1>6, <1>7

(* A row that is given back, or given up, is not done.                     *)
LEMMA MarkFailedKeeps ==
  ASSUME QueueInv, MarkFailed
  PROVE  QueueInv'
<1>. USE DEF QueueInv
<1>. DEFINE h == Head(batch)
            attempts == h.attempts + 1
            new == [queue[h.task] EXCEPT
                      !.status = IF attempts < MaxAttempts THEN "pending" ELSE "failed",
                      !.attempts = attempts, !.stuck = FALSE]
<1>1. /\ loop = "fail" /\ loop' = NextRow /\ batch' = Tail(batch)
      /\ queue' = [queue EXCEPT ![h.task] = new]
      /\ UNCHANGED <<order, publisher, docs, lastPath, path, loss>>
  BY DEF MarkFailed, index, spent
<1>2. batch # <<>> /\ h = batch[1] /\ 1 \in DOMAIN batch /\ h \in Copy /\ h.task \in Tasks
  BY <1>1, FirstCopy DEF QueueTypeOK, Copy
<1>3. queue[h.task] \in Row /\ h.attempts \in Nat /\ h.attempts < MaxAttempts /\ path = 0
  BY <1>1, <1>2, AttemptsAssumption DEF QueueTypeOK, Copies, CopyOf, Copy, Paths
<1>4. attempts \in 0..MaxAttempts
  BY <1>3, AttemptsAssumption
<1>5. /\ new \in Row /\ new.answer = queue[h.task].answer /\ new.doc = queue[h.task].doc
      /\ new.status = (IF attempts < MaxAttempts THEN "pending" ELSE "failed")
      /\ new.attempts = attempts
  BY <1>3, <1>4 DEF Row, Statuses
<1>. HIDE DEF new
<1>6. /\ QueueTypeOK' /\ Rows' /\ Copies' /\ Marked'
      /\ \A t \in Tasks : queue'[t] = IF t = h.task THEN new ELSE queue[t]
  BY <1>1, <1>2, <1>3, <1>5, NextCopy
<1>7. Paths'
  <2>1. loop # "mark" /\ loop' # "mark" /\ \A t \in Tasks : queue'[t].doc = queue[t].doc
    BY <1>1, <1>5, <1>6 DEF NextRow
  <2>. QED
    BY <1>1, <2>1, PathsStay
<1>8. OnlyKnownLosses'
  BY <1>1, <1>5, <1>6 DEF OnlyKnownLosses, Indexed
<1>. QED
  BY <1>6, <1>7, <1>8

(* The mark that fails leaves the row to mark_failed.                      *)
LEMMA MarkDoneFailsKeeps ==
  ASSUME QueueInv, MarkDoneFails
  PROVE  QueueInv'
<1>. USE DEF QueueInv
<1>1. /\ loop = "mark" /\ loop' = "fail" /\ path' = 0
      /\ UNCHANGED <<queue, order, publisher, docs, lastPath, batch, loss>>
  BY DEF MarkDoneFails, table, index
<1>2. QueueTypeOK'
  BY <1>1 DEF QueueTypeOK, Row, Copy, Exists
<1>3. Rows'
  BY <1>1, RowsStay
<1>4. Copies' /\ Paths' /\ Marked' /\ OnlyKnownLosses'
  BY <1>1 DEF Copies, CopyOf, Paths, Marked, OnlyKnownLosses, Indexed
<1>. QED
  BY <1>2, <1>3, <1>4

(* Whatever happens next.                                                  *)
LEMMA NextQueue == QueueInv /\ [QueueNext]_queueVars => QueueInv'
<1>. SUFFICES ASSUME QueueInv, [QueueNext]_queueVars PROVE QueueInv'
  OBVIOUS
<1>1. CASE Drain
  BY <1>1, RequeueStuckKeeps, ClaimSelectKeeps, ClaimUpdateKeeps, DeleteSupersededKeeps,
     InsertDocKeeps, MarkDoneKeeps, MarkFailedKeeps DEF Drain
<1>2. CASE UNCHANGED queueVars
  <2>1. UNCHANGED <<queue, order, publisher, docs, lastPath, loop, batch, path, loss>>
    BY <1>2 DEF queueVars, table, index, drainer
  <2>2. QueueTypeOK'
    BY <2>1 DEF QueueInv, QueueTypeOK, Row, Copy, Exists
  <2>3. Rows'
    BY <2>1, RowsStay
  <2>4. Copies' /\ Paths' /\ Marked' /\ OnlyKnownLosses'
    BY <2>1 DEF QueueInv, Copies, CopyOf, Paths, Marked, OnlyKnownLosses, Indexed
  <2>. QED
    BY <2>2, <2>3, <2>4 DEF QueueInv
<1>. QED
  BY <1>1, <1>2, PublishSelectKeeps, PublishCommitKeeps, PublishFailsKeeps, EndsKeep, InsertFailsKeeps,
     MarkDoneFailsKeeps, RestartKeeps, AgeOutKeeps DEF QueueNext

(* The invariant of the handoff.                                           *)
LEMMA QueueHolds == QueueSpec => []QueueInv
  BY InitQueue, NextQueue, PTL DEF QueueSpec

(* Any tasks, answers, publishers, crashes and faults: a row that says     *)
(* done and is not in the index was overtaken by a publish while the loop  *)
(* held its copy, or LightRAG failed and record_success swallowed it; no    *)
(* crash, requeue, retry or duplicate loses anything else (_outcome_drain_  *)
(* loop, server.py, with claim_pending and mark_done of outcomes.py).      *)
THEOREM LossesAreKnown == QueueSpec => []OnlyKnownLosses
<1>1. QueueInv => OnlyKnownLosses
  BY DEF QueueInv
<1>. QED
  BY <1>1, QueueHolds, PTL

-----------------------------------------------------------------------------
(* Documents left behind                                                   *)

(* The document a task should have is the one its row names, or the one    *)
(* about to be named; what it has beside that was left there by a fault.   *)
Faults == crashes + dbFaults + indexFaults
DocsOf(t) == {d \in docs : d.task = t}
Current(t) ==
    IF loop = "mark" /\ Head(batch).task = t /\ path # 0 THEN path ELSE queue[t].doc
Stale(t) == {d \in DocsOf(t) : d.path # Current(t)}
FewStale ==
    /\ IsFiniteSet(docs)
    /\ crashes \in Nat /\ dbFaults \in Nat /\ indexFaults \in Nat
    /\ \A t \in Tasks : Cardinality(Stale(t)) <= Faults
    /\ loop = "insert" => Cardinality(DocsOf(Head(batch).task)) <= Faults

(* What a task has is finite, and no more than what it has that is stale   *)
(* and the one document of a path.                                         *)
LEMMA OnePath ==
  ASSUME Paths, IsFiniteSet(docs), NEW t, NEW n
  PROVE  /\ IsFiniteSet(DocsOf(t)) /\ IsFiniteSet(Stale(t))
         /\ Cardinality(DocsOf(t)) \in Nat /\ Cardinality(Stale(t)) \in Nat
         /\ Cardinality(DocsOf(t)) <= Cardinality({d \in DocsOf(t) : d.path # n}) + 1
<1>. DEFINE S == {d \in DocsOf(t) : d.path # n}
<1>1. DocsOf(t) \subseteq docs /\ S \subseteq docs /\ Stale(t) \subseteq docs
  BY DEF DocsOf, Stale
<1>2. IsFiniteSet(DocsOf(t)) /\ IsFiniteSet(S) /\ IsFiniteSet(Stale(t))
  BY <1>1, FS_Subset
<1>3. Cardinality(DocsOf(t)) \in Nat /\ Cardinality(S) \in Nat /\ Cardinality(Stale(t)) \in Nat
  BY <1>2, FS_CardinalityType
<1>4. ASSUME \E d \in DocsOf(t) : d.path = n PROVE Cardinality(DocsOf(t)) <= Cardinality(S) + 1
  <2>1. PICK d \in DocsOf(t) : d.path = n
    BY <1>4
  <2>2. DocsOf(t) = S \cup {d} /\ d \notin S
    BY <2>1 DEF Paths, DocsOf
  <2>3. Cardinality(S \cup {d}) = Cardinality(S) + 1
    BY <1>2, <2>2, FS_AddElement
  <2>4. Cardinality(DocsOf(t)) = Cardinality(S) + 1
    BY <2>2, <2>3
  <2>. HIDE DEF S
  <2>. QED
    BY <1>3, <2>4
<1>5. ASSUME ~\E d \in DocsOf(t) : d.path = n PROVE Cardinality(DocsOf(t)) <= Cardinality(S) + 1
  <2>1. DocsOf(t) = S
    BY <1>5
  <2>2. Cardinality(DocsOf(t)) = Cardinality(S)
    BY <2>1
  <2>. HIDE DEF S
  <2>. QED
    BY <1>3, <2>2
<1>. QED
  BY <1>2, <1>3, <1>4, <1>5

(* Faults are counted.                                                     *)
LEMMA FaultsAreNumbers ==
  ASSUME FewStale, crashes' \in Nat, dbFaults' \in Nat, indexFaults' \in Nat
  PROVE  Faults \in Nat /\ Faults' \in Nat
<1>1. crashes \in Nat /\ dbFaults \in Nat /\ indexFaults \in Nat
  BY DEF FewStale
<1>2. crashes + dbFaults + indexFaults \in Nat
  BY <1>1
<1>3. crashes' + dbFaults' + indexFaults' \in Nat
  <2>1. \A x, y, z \in Nat : x + y + z \in Nat
    OBVIOUS
  <2>. QED
    BY <2>1
<1>. QED
  BY <1>2, <1>3 DEF Faults

(* No document is added, and none becomes stale but to a fault.            *)
LEMMA StaleStay ==
  ASSUME FewStale, docs' \subseteq docs,
         crashes' \in Nat, dbFaults' \in Nat, indexFaults' \in Nat, Faults' >= Faults,
         \A t \in Tasks : Current(t)' = Current(t),
         loop' = "insert" => loop = "insert" /\ batch' = batch
  PROVE  FewStale'
<1>1. IsFiniteSet(docs')
  BY FS_Subset DEF FewStale
<1>2. Faults \in Nat /\ Faults' \in Nat
  BY FaultsAreNumbers
<1>3. ASSUME NEW S, NEW T, S \subseteq T, T \subseteq docs, Cardinality(T) <= Faults
      PROVE  Cardinality(S) <= Faults'
  <2>1. IsFiniteSet(T)
    BY <1>3, FS_Subset DEF FewStale
  <2>2. IsFiniteSet(S) /\ Cardinality(S) <= Cardinality(T)
    BY <1>3, <2>1, FS_Subset
  <2>3. Cardinality(S) \in Nat /\ Cardinality(T) \in Nat
    BY <2>1, <2>2, FS_CardinalityType
  <2>. QED
    BY <1>2, <1>3, <2>2, <2>3
<1>4. ASSUME NEW t \in Tasks PROVE Cardinality(Stale(t))' <= Faults'
  <2>1. Stale(t)' \subseteq Stale(t) /\ Stale(t) \subseteq docs
    BY DEF Stale, DocsOf
  <2>2. Cardinality(Stale(t)) <= Faults
    BY DEF FewStale
  <2>. QED
    BY <1>3, <2>1, <2>2
<1>5. ASSUME loop' = "insert" PROVE Cardinality(DocsOf(Head(batch).task))' <= Faults'
  <2>1. batch' = batch /\ Cardinality(DocsOf(Head(batch).task)) <= Faults
    BY <1>5 DEF FewStale
  <2>2. DocsOf(Head(batch).task)' \subseteq DocsOf(Head(batch).task) /\ DocsOf(Head(batch).task) \subseteq docs
    BY <2>1 DEF DocsOf
  <2>. QED
    BY <1>3, <2>1, <2>2
<1>. QED
  BY <1>1, <1>4, <1>5 DEF FewStale

(* The loop drops what it was about to note: one more is stale at most,    *)
(* and that is to a fault.                                                 *)
LEMMA StaleByFault ==
  ASSUME QueueInv, FewStale, UNCHANGED <<docs, queue>>, loop' \notin {"insert", "mark"},
         crashes' \in Nat, dbFaults' \in Nat, indexFaults' \in Nat, Faults' >= Faults + 1
  PROVE  FewStale'
<1>1. Faults \in Nat /\ Faults' \in Nat
  BY FaultsAreNumbers
<1>2. ASSUME NEW t \in Tasks PROVE Cardinality(Stale(t))' <= Faults'
  <2>1. Cardinality(DocsOf(t)) <= Cardinality(Stale(t)) + 1 /\ Cardinality(DocsOf(t)) \in Nat
        /\ IsFiniteSet(DocsOf(t)) /\ Cardinality(Stale(t)) \in Nat
    BY OnePath DEF QueueInv, FewStale, Stale
  <2>2. Stale(t)' \subseteq DocsOf(t)
    BY DEF Stale, DocsOf
  <2>3. IsFiniteSet(Stale(t)') /\ Cardinality(Stale(t)') <= Cardinality(DocsOf(t))
    BY <2>1, <2>2, FS_Subset
  <2>4. Cardinality(Stale(t)') \in Nat
    BY <2>3, FS_CardinalityType
  <2>5. Cardinality(Stale(t)) <= Faults
    BY DEF FewStale
  <2>. QED
    BY <1>1, <2>1, <2>3, <2>4, <2>5
<1>. QED
  BY <1>2 DEF FewStale

(* Faults are never uncounted, and one is counted when one of the counters *)
(* goes up.                                                                *)
LEMMA FaultsGrow ==
  ASSUME FewStale,
         crashes' \in {crashes, crashes + 1}, dbFaults' \in {dbFaults, dbFaults + 1},
         indexFaults' \in {indexFaults, indexFaults + 1}
  PROVE  /\ crashes' \in Nat /\ dbFaults' \in Nat /\ indexFaults' \in Nat
         /\ Faults \in Nat /\ Faults' \in Nat /\ Faults' >= Faults
         /\ UNCHANGED <<crashes, dbFaults, indexFaults>> \/ Faults' >= Faults + 1
<1>1. crashes \in Nat /\ dbFaults \in Nat /\ indexFaults \in Nat
  BY DEF FewStale
<1>2. PICK u \in {crashes, crashes + 1}, v \in {dbFaults, dbFaults + 1}, w \in {indexFaults, indexFaults + 1} :
        crashes' = u /\ dbFaults' = v /\ indexFaults' = w
  OBVIOUS
<1>3. /\ u \in Nat /\ v \in Nat /\ w \in Nat
      /\ crashes + dbFaults + indexFaults \in Nat /\ u + v + w \in Nat
      /\ u + v + w >= crashes + dbFaults + indexFaults
      /\ \/ u = crashes /\ v = dbFaults /\ w = indexFaults
         \/ u + v + w >= crashes + dbFaults + indexFaults + 1
  BY <1>1
<1>4. Faults' = u + v + w /\ Faults = crashes + dbFaults + indexFaults
  BY <1>2, Zenon DEF Faults
<1>. QED
  BY <1>2, <1>3, <1>4

(* A step away from the documents and the row copy in progress leaves them *)
(* as they were, as long as no row forgets its document.                   *)
LEMMA StaleAside ==
  ASSUME FewStale, UNCHANGED docs, \A t \in Tasks : queue'[t].doc = queue[t].doc,
         crashes' \in {crashes, crashes + 1}, dbFaults' \in {dbFaults, dbFaults + 1},
         indexFaults' \in {indexFaults, indexFaults + 1},
         \/ UNCHANGED <<loop, batch, path>>
         \/ loop \notin {"insert", "mark"} /\ loop' \notin {"insert", "mark"}
  PROVE  FewStale'
<1>1. \A t \in Tasks : Current(t)' = Current(t)
  BY DEF Current
<1>. QED
  BY <1>1, FaultsGrow, StaleStay

(* A publish leaves no document behind.                                    *)
LEMMA StaleToPublish ==
  ASSUME QueueInv, FewStale, NEW p \in Publishers,
         PublishSelect(p) \/ PublishCommit(p) \/ PublishFails(p)
  PROVE  FewStale'
<1>1. UNCHANGED <<docs, loop, batch, path, crashes, dbFaults, indexFaults>>
  BY DEF PublishSelect, PublishCommit, PublishFails, table, index, drainer, spent
<1>2. ASSUME NEW t \in Tasks PROVE queue'[t].doc = queue[t].doc
  <2>1. CASE PublishSelect(p) \/ PublishFails(p)
    BY <2>1 DEF PublishSelect, PublishFails, table
  <2>2. CASE PublishCommit(p)
    BY <2>2 DEF PublishCommit, QueueInv, QueueTypeOK
  <2>. QED
    BY <2>1, <2>2
<1>. QED
  BY <1>1, <1>2, StaleAside

(* Claiming rows and giving them back leave no document behind.            *)
LEMMA StaleToDrain ==
  ASSUME QueueInv, FewStale, RequeueStuck \/ ClaimSelect \/ ClaimUpdate \/ MarkFailed
  PROVE  FewStale'
<1>1. UNCHANGED <<docs, crashes, dbFaults, indexFaults>>
      /\ loop \notin {"insert", "mark"} /\ loop' \notin {"insert", "mark"}
  BY DEF RequeueStuck, ClaimSelect, ClaimUpdate, MarkFailed, NextRow, table, index, spent
<1>2. ASSUME NEW t \in Tasks PROVE queue'[t].doc = queue[t].doc
  <2>0. queue \in [Tasks -> Row] /\ queue[t] \in Row
    BY DEF QueueInv, QueueTypeOK
  <2>1. CASE RequeueStuck
    BY <2>0, <2>1 DEF RequeueStuck, Row
  <2>2. CASE ClaimSelect
    BY <2>2 DEF ClaimSelect, table
  <2>3. CASE ClaimUpdate
    BY <2>0, <2>3 DEF ClaimUpdate, Row
  <2>4. CASE MarkFailed
    BY <2>0, <2>4 DEF MarkFailed, Row
  <2>. QED
    BY <2>1, <2>2, <2>3, <2>4
<1>. QED
  BY <1>1, <1>2, StaleAside

(* Nor does a pass that is given up between two rows, or time.             *)
LEMMA StaleToEnds ==
  ASSUME QueueInv, FewStale, DrainQueryFails \/ LoopDies \/ Restart \/ \E t \in Tasks : AgeOut(t)
  PROVE  FewStale'
<1>1. CASE DrainQueryFails \/ LoopDies \/ Restart
  <2>1. UNCHANGED <<docs, queue, crashes, indexFaults>> /\ dbFaults' \in {dbFaults, dbFaults + 1}
        /\ loop \notin {"insert", "mark"} /\ loop' \notin {"insert", "mark"}
    BY <1>1 DEF DrainQueryFails, LoopDies, Restart, table, index, spent
  <2>. QED
    BY <2>1, StaleAside
<1>2. ASSUME NEW t \in Tasks, AgeOut(t) PROVE FewStale'
  <2>1. UNCHANGED <<docs, loop, batch, path, crashes, dbFaults, indexFaults>>
    BY <1>2 DEF AgeOut, index, drainer, spent
  <2>2. \A u \in Tasks : queue'[u].doc = queue[u].doc
    BY <1>2 DEF AgeOut, QueueInv, QueueTypeOK, Row
  <2>. QED
    BY <2>1, <2>2, StaleAside
<1>. QED
  BY <1>1, <1>2

(* The superseded document goes, or is left and counted.                   *)
LEMMA StaleToDelete ==
  ASSUME QueueInv, FewStale, DeleteSuperseded
  PROVE  FewStale'
<1>. DEFINE h == Head(batch)
<1>1. /\ loop = "record" /\ path' = 0 /\ UNCHANGED <<queue, batch, crashes, dbFaults>>
      /\ loop' = IF h.answer \in Short THEN "mark" ELSE "insert"
  BY DEF DeleteSuperseded, table
<1>2. batch # <<>> /\ h \in Copy /\ CopyOf(h) /\ h.task \in Tasks
  <2>1. batch # <<>> /\ h = batch[1] /\ 1 \in DOMAIN batch /\ h \in Copy
    BY <1>1, FirstCopy DEF QueueInv, QueueTypeOK
  <2>. QED
    BY <2>1 DEF QueueInv, Copies, Copy
<1>3. \A t \in Tasks : Current(t) = queue[t].doc /\ Current(t)' = queue[t].doc
  BY <1>1 DEF Current
<1>4. Cardinality(Stale(h.task)) <= Faults /\ Cardinality(DocsOf(h.task)) <= Cardinality(Stale(h.task)) + 1
      /\ Cardinality(Stale(h.task)) \in Nat /\ Cardinality(DocsOf(h.task)) \in Nat
  BY <1>2, OnePath DEF QueueInv, FewStale, Stale
<1>5. CASE /\ docs' \subseteq docs /\ indexFaults' = indexFaults
           /\ \A d \in docs' : h.answer \notin Short => d.path # h.doc
           /\ \A d \in docs : d \in docs' \/ d.path = h.doc
  <2>1. docs' \subseteq docs
    BY <1>5
  <2>2. Faults \in Nat /\ Faults' = Faults
        /\ crashes' \in Nat /\ dbFaults' \in Nat /\ indexFaults' \in Nat
    <3>1. Faults' = Faults
      BY <1>1, <1>5 DEF Faults
    <3>. QED
      BY <1>1, <1>5, <3>1, FaultsGrow
  <2>3. IsFiniteSet(docs') /\ \A t \in Tasks : Cardinality(Stale(t))' <= Faults'
    <3>1. IsFiniteSet(docs') /\ IsFiniteSet(docs)
      BY <2>1, FS_Subset DEF FewStale
    <3>2. ASSUME NEW t \in Tasks PROVE Cardinality(Stale(t))' <= Faults'
      <4>1. Stale(t)' \subseteq Stale(t) /\ Stale(t) \subseteq docs
        BY <1>3, <2>1 DEF Stale, DocsOf
      <4>2. IsFiniteSet(Stale(t))
        BY <3>1, <4>1, FS_Subset
      <4>3. IsFiniteSet(Stale(t)') /\ Cardinality(Stale(t)') <= Cardinality(Stale(t))
        BY <4>1, <4>2, FS_Subset
      <4>4. Cardinality(Stale(t)') \in Nat /\ Cardinality(Stale(t)) \in Nat /\ Cardinality(Stale(t)) <= Faults
        BY <4>2, <4>3, FS_CardinalityType DEF FewStale
      <4>. QED
        BY <2>2, <4>3, <4>4
    <3>. QED
      BY <3>1, <3>2
  <2>4. ASSUME loop' = "insert" PROVE Cardinality(DocsOf(h.task))' <= Faults'
    <3>0. h' = h /\ h.answer \notin Short /\ Current(h.task) = h.doc
      BY <1>1, <1>2, <1>3, <2>4 DEF CopyOf
    <3>1. DocsOf(h.task)' = Stale(h.task)
      BY <1>5, <3>0 DEF DocsOf, Stale
    <3>. QED
      BY <1>4, <2>2, <3>1
  <2>. QED
    BY <1>1, <2>2, <2>3, <2>4 DEF FewStale
<1>6. CASE indexFaults' = indexFaults + 1 /\ UNCHANGED docs
  <2>1. /\ crashes' \in Nat /\ dbFaults' \in Nat /\ indexFaults' \in Nat
        /\ Faults \in Nat /\ Faults' \in Nat /\ Faults' >= Faults + 1
    <3>1. indexFaults' # indexFaults
      BY <1>6 DEF FewStale
    <3>. QED
      BY <1>1, <1>6, <3>1, FaultsGrow
  <2>2. ASSUME NEW t \in Tasks PROVE Cardinality(Stale(t))' <= Faults'
    <3>1. Stale(t)' = Stale(t) /\ Cardinality(Stale(t)) <= Faults /\ Cardinality(Stale(t)) \in Nat
      BY <1>3, <1>6, OnePath DEF Stale, DocsOf, FewStale, QueueInv
    <3>2. Cardinality(Stale(t)) <= Faults'
      BY <2>1, <3>1
    <3>. QED
      BY <3>1, <3>2
  <2>3. Cardinality(DocsOf(h.task))' <= Faults'
    <3>1. DocsOf(h.task)' = DocsOf(h.task)
      BY <1>1, <1>6 DEF DocsOf
    <3>2. Cardinality(DocsOf(h.task)) <= Faults'
      BY <1>4, <2>1
    <3>. QED
      BY <3>1, <3>2
  <2>. QED
    BY <1>1, <1>6, <2>1, <2>2, <2>3 DEF FewStale
<1>7. CASE /\ docs' = IF h.answer \in Short THEN docs ELSE {d \in docs : d.path # h.doc}
           /\ UNCHANGED indexFaults
  <2>1. /\ docs' \subseteq docs /\ indexFaults' = indexFaults
        /\ \A d \in docs' : h.answer \notin Short => d.path # h.doc
        /\ \A d \in docs : d \in docs' \/ d.path = h.doc
    <3>1. CASE h.answer \in Short
      BY <1>7, <3>1
    <3>2. CASE h.answer \notin Short
      BY <1>7, <3>2
    <3>. QED
      BY <3>1, <3>2
  <2>. QED
    BY <1>5, <2>1
<1>. QED
  BY <1>6, <1>7 DEF DeleteSuperseded

(* What the task had before the new document is stale; it was already,     *)
(* but for faults.                                                         *)
LEMMA StaleToInsert ==
  ASSUME QueueInv, FewStale, InsertDoc \/ InsertFails
  PROVE  FewStale'
<1>. DEFINE h == Head(batch)
<1>1. /\ loop = "insert" /\ loop' = "mark" /\ UNCHANGED <<queue, batch, crashes, dbFaults>>
      /\ indexFaults' \in {indexFaults, indexFaults + 1}
      /\ \/ path' = lastPath + 1
            /\ (docs' = docs \/ docs' = docs \cup {[path |-> path', task |-> h.task, answer |-> h.answer]})
         \/ path' = 0 /\ docs' = docs
  BY DEF InsertDoc, InsertFails, table, spent
<1>2. /\ crashes' \in Nat /\ dbFaults' \in Nat /\ indexFaults' \in Nat
      /\ Faults \in Nat /\ Faults' \in Nat /\ Faults' >= Faults
  BY <1>1, FaultsGrow
<1>3. IsFiniteSet(docs')
  <2>1. \A x : IsFiniteSet(docs \cup {x})
    BY FS_AddElement DEF FewStale
  <2>. QED
    BY <1>1, <2>1 DEF FewStale
<1>4. lastPath \in Nat /\ \A d \in docs : d.path \in 1..lastPath
  BY DEF QueueInv, QueueTypeOK
<1>5. ASSUME NEW t \in Tasks PROVE Cardinality(Stale(t))' <= Faults'
  <2>1. Cardinality(Stale(t)) <= Faults /\ Cardinality(Stale(t)) \in Nat
        /\ (t = h.task => Cardinality(DocsOf(t)) <= Faults) /\ Cardinality(DocsOf(t)) \in Nat
    BY <1>1, OnePath DEF FewStale, QueueInv
  <2>2. CASE t = h.task /\ path' # 0
    <3>1. Current(t)' = path' /\ path' = lastPath + 1
      BY <1>1, <2>2 DEF Current
    <3>2. Stale(t)' = DocsOf(t)
      BY <1>1, <1>4, <2>2, <3>1 DEF Stale, DocsOf
    <3>3. Cardinality(DocsOf(t)) <= Faults'
      BY <1>2, <2>1, <2>2
    <3>. QED
      BY <3>2, <3>3
  <2>3. CASE ~(t = h.task /\ path' # 0)
    <3>1. Current(t)' = Current(t)
      BY <1>1, <2>3 DEF Current
    <3>2. Stale(t)' = Stale(t)
      BY <1>1, <1>4, <2>3, <3>1 DEF Stale, DocsOf
    <3>3. Cardinality(Stale(t)) <= Faults'
      BY <1>2, <2>1
    <3>. QED
      BY <3>2, <3>3
  <2>. QED
    BY <2>2, <2>3
<1>. QED
  BY <1>1, <1>2, <1>3, <1>5 DEF FewStale

(* The row takes the path over from the loop; when it does not, what the   *)
(* loop had noted is left behind.                                          *)
LEMMA StaleToMark ==
  ASSUME QueueInv, FewStale, MarkDone \/ MarkDoneFails \/ Crash
  PROVE  FewStale'
<1>1. CASE MarkDone
  <2>1. UNCHANGED <<docs, crashes, dbFaults, indexFaults>> /\ loop = "mark" /\ loop' \notin {"insert", "mark"}
    BY <1>1 DEF MarkDone, NextRow, index, spent
  <2>2. ASSUME NEW t \in Tasks
        PROVE  queue'[t].doc = IF t = Head(batch).task /\ path # 0 THEN path ELSE queue[t].doc
    <3>1. queue \in [Tasks -> Row] /\ queue[t] \in Row
      BY DEF QueueInv, QueueTypeOK
    <3>. QED
      BY <1>1, <3>1 DEF MarkDone, Row
  <2>3. \A t \in Tasks : Current(t)' = Current(t)
    BY <2>1, <2>2 DEF Current
  <2>. QED
    BY <2>1, <2>3, FaultsGrow, StaleStay
<1>2. CASE MarkDoneFails \/ Crash
  <2>1. /\ UNCHANGED <<docs, queue, indexFaults>> /\ loop' \notin {"insert", "mark"}
        /\ crashes' \in {crashes, crashes + 1} /\ dbFaults' \in {dbFaults, dbFaults + 1}
        /\ crashes' = crashes + 1 \/ dbFaults' = dbFaults + 1
    BY <1>2 DEF MarkDoneFails, Crash, table, index
  <2>2. crashes' # crashes \/ dbFaults' # dbFaults
    BY <2>1 DEF FewStale
  <2>. QED
    BY <2>1, <2>2, FaultsGrow, StaleByFault
<1>. QED
  BY <1>1, <1>2

(* The stale documents are few, at first and whatever happens next.        *)
LEMMA StaleHolds == QueueSpec => [](QueueInv /\ FewStale)
<1>1. QueueInit => FewStale
  <2>. SUFFICES ASSUME QueueInit PROVE FewStale
    OBVIOUS
  <2>1. IsFiniteSet(docs) /\ Faults = 0 /\ docs = {} /\ loop = "sleep"
    BY FS_EmptySet DEF QueueInit, Faults
  <2>2. \A t \in Tasks : Stale(t) = {}
    BY <2>1 DEF Stale, DocsOf
  <2>3. \A t \in Tasks : Cardinality(Stale(t)) <= Faults
    BY <2>1, <2>2, FS_EmptySet
  <2>. QED
    BY <2>1, <2>3 DEF FewStale, QueueInit
<1>2. QueueInv /\ FewStale /\ [QueueNext]_queueVars => FewStale'
  <2>. SUFFICES ASSUME QueueInv, FewStale, [QueueNext]_queueVars PROVE FewStale'
    OBVIOUS
  <2>1. CASE UNCHANGED queueVars
    <3>1. UNCHANGED <<queue, docs, loop, batch, path, crashes, dbFaults, indexFaults>>
      BY <2>1 DEF queueVars, table, index, drainer, spent
    <3>. QED
      BY <3>1, StaleAside
  <2>. QED
    BY <2>1, StaleToPublish, StaleToDrain, StaleToEnds, StaleToDelete, StaleToInsert, StaleToMark
       DEF QueueNext, Drain
<1>. QED
  BY <1>1, <1>2, InitQueue, NextQueue, PTL DEF QueueSpec

(* Any tasks, answers, publishers, crashes and faults: beside the one      *)
(* document a task should have, the experience namespace holds no more     *)
(* stale ones of it than there were crashes, raised transactions and index *)
(* failures (record_success of feedback.py deletes by the path that        *)
(* mark_done of outcomes.py wrote).                                        *)
THEOREM StaleDocsAreFew == QueueSpec => []StaleDocsBounded
<1>1. QueueInv /\ FewStale => StaleDocsBounded
  <2>. SUFFICES ASSUME QueueInv, FewStale, NEW t \in Tasks
                PROVE  Cardinality({d \in docs : d.task = t}) <= 1 + crashes + dbFaults + indexFaults
    BY DEF StaleDocsBounded
  <2>1. Cardinality(DocsOf(t)) <= Cardinality(Stale(t)) + 1 /\ Cardinality(Stale(t)) <= Faults
        /\ Cardinality(DocsOf(t)) \in Nat /\ Cardinality(Stale(t)) \in Nat
    BY OnePath DEF QueueInv, FewStale, Stale
  <2>2. crashes \in Nat /\ dbFaults \in Nat /\ indexFaults \in Nat /\ Faults = crashes + dbFaults + indexFaults
    BY DEF FewStale, Faults
  <2>3. Cardinality(DocsOf(t)) <= 1 + crashes + dbFaults + indexFaults
    BY <2>1, <2>2
  <2>. QED
    BY <2>3 DEF DocsOf
<1>. QED
  BY <1>1, StaleHolds, PTL
=============================================================================

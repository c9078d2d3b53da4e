---------------------------- MODULE RunOwnership -----------------------------
(***************************************************************************)
(* The ownership lease on one row of runs: acquire_run_ownership and       *)
(* release_run_ownership of swarm/execution_store.py.                      *)
(*                                                                         *)
(* Each call is one UPDATE ... WHERE.  The new expiry is computed on the   *)
(* caller's side before the statement is sent, the WHERE compares the old  *)
(* one with the transaction's own start time, and the caller learns of the *)
(* outcome later or, when the connection fails, never: the three are       *)
(* distinct moments here.  A caller that gets no answer must treat the run *)
(* as not owned.  Workers and database read one clock, now.                *)
(***************************************************************************)
EXTENDS Naturals

CONSTANTS
    Workers,        \* worker ids
    Strangers,      \* those that pass the project_id of another project
    NoOwner,        \* owner_worker_id IS NULL
    Lease,          \* lease_seconds
    MaxTime         \* bound on the clock

ASSUME NoOwnerAssumption == NoOwner \notin Workers
ASSUME LeaseAssumption == Lease \in Nat
ASSUME MaxTimeAssumption == MaxTime \in Nat

VARIABLES
    now,            \* the time
    exists,         \* the runs row has not been cascaded away
    owner,          \* runs.owner_worker_id
    expiry,         \* runs.owner_lease_expires_at, 0 for NULL
    alive,          \* the worker process has not died
    call,           \* the worker's call in flight
    told            \* the expiry a worker's last answer granted it: {} or {time}

row == <<exists, owner, expiry>>
vars == <<now, row, alive, call, told>>

Time == 0 .. MaxTime

\* new_expiry, from the caller's clock
BugNewExpiry == (IF expiry > now THEN expiry ELSE now) + Lease
NewExpiry == now + Lease

NoCall == [op |-> "none", since |-> 0, expiry |-> 0]
Call == [op : {"none", "acquire", "release"}, since : Time, expiry : 0 .. MaxTime + Lease]

Init ==
    /\ now = 0
    /\ exists = TRUE
    /\ owner = NoOwner
    /\ expiry = 0
    /\ alive = [w \in Workers |-> TRUE]
    /\ call = [w \in Workers |-> NoCall]
    /\ told = [w \in Workers |-> {}]

\* acquire_run_ownership up to the first await: a first claim or a renewal
RequestAcquire(w) ==
    /\ alive[w] /\ call[w] = NoCall
    /\ call' = [call EXCEPT ![w] = [op |-> "acquire", since |-> now, expiry |-> NewExpiry]]
    /\ UNCHANGED <<now, row, alive, told>>

\* The WHERE of the claim; asof is func.now(), the start of the transaction
BugClaimable(w, asof) == exists /\ w \notin Strangers
Claimable(w, asof) ==
    /\ exists
    /\ w \notin Strangers
    /\ \/ owner = NoOwner
       \/ owner = w
       \/ expiry < asof

\* The UPDATE is executed; the answer reaches the caller or is lost.
ExecuteAcquire(w) ==
    /\ call[w].op = "acquire"
    /\ \E asof \in call[w].since .. now, answered \in BOOLEAN :
        /\ IF Claimable(w, asof)
           THEN owner' = w /\ expiry' = call[w].expiry
           ELSE UNCHANGED <<owner, expiry>>
        /\ told' = [told EXCEPT ![w] =
              IF alive[w] /\ answered /\ Claimable(w, asof)
              THEN {call[w].expiry} ELSE {}]
    /\ call' = [call EXCEPT ![w] = NoCall]
    /\ UNCHANGED <<now, exists, alive>>

\* release_run_ownership: the caller has stopped advancing the run, whether or
\* not it still owns it
RequestRelease(w) ==
    /\ alive[w] /\ call[w] = NoCall
    /\ call' = [call EXCEPT ![w] = [op |-> "release", since |-> now, expiry |-> 0]]
    /\ told' = [told EXCEPT ![w] = {}]
    /\ UNCHANGED <<now, row, alive>>

BugReleasable(w) == exists /\ w \notin Strangers
Releasable(w) == exists /\ w \notin Strangers /\ owner = w

ExecuteRelease(w) ==
    /\ call[w].op = "release"
    /\ IF Releasable(w)
       THEN owner' = NoOwner /\ expiry' = 0
       ELSE UNCHANGED <<owner, expiry>>
    /\ call' = [call EXCEPT ![w] = NoCall]
    /\ UNCHANGED <<now, exists, alive, told>>

\* The transaction fails before it has any effect: False is returned.
CallFails(w) ==
    /\ call[w] # NoCall
    /\ call' = [call EXCEPT ![w] = NoCall]
    /\ told' = [told EXCEPT ![w] = {}]
    /\ UNCHANGED <<now, row, alive>>

\* The worker dies; a statement it has sent is still executed or not.
Die(w) ==
    /\ alive[w]
    /\ alive' = [alive EXCEPT ![w] = FALSE]
    /\ told' = [told EXCEPT ![w] = {}]
    /\ UNCHANGED <<now, row, call>>

\* The session is deleted and its runs rows with it.
DeleteRun ==
    /\ exists
    /\ exists' = FALSE /\ owner' = NoOwner /\ expiry' = 0
    /\ UNCHANGED <<now, alive, call, told>>

Tick ==
    /\ now < MaxTime
    /\ now' = now + 1
    /\ UNCHANGED <<row, alive, call, told>>

Next ==
    \/ \E w \in Workers : RequestAcquire(w)
    \/ \E w \in Workers : ExecuteAcquire(w)
    \/ \E w \in Workers : RequestRelease(w)
    \/ \E w \in Workers : ExecuteRelease(w)
    \/ \E w \in Workers : CallFails(w)
    \/ \E w \in Workers : Die(w)
    \/ DeleteRun
    \/ Tick

Spec == Init /\ [][Next]_vars

-----------------------------------------------------------------------------
(* Properties *)

\* "lease_seconds bounds how long a claim survives without being renewed": no
\* claim reaches further than one lease from now, granted, stored or asked for.
LeaseBounded ==
    /\ expiry <= now + Lease
    /\ \A w \in Workers : call[w].expiry <= call[w].since + Lease

\* Every variable stays in its type, a call in flight was sent in the past, and
\* leases are bounded.
TypeOK ==
    /\ now \in Time
    /\ exists \in BOOLEAN
    /\ owner \in Workers \union {NoOwner}
    /\ expiry \in 0 .. MaxTime + Lease
    /\ alive \in [Workers -> BOOLEAN]
    /\ call \in [Workers -> Call]
    /\ told \in [Workers -> SUBSET (0 .. MaxTime + Lease)]
    /\ \A w \in Workers : call[w].since <= now
    /\ LeaseBounded

\* A worker is entitled to advance the run: it was told so, and the lease it
\* asked for has not run out.
Entitled(w) == \E until \in told[w] : until >= now

\* "Exclusive advancement rights": at no moment are two workers entitled to
\* advance the run, however late a claim was executed and whatever answers were
\* lost, and a stale owner's late release takes nothing from a newer one.
OneEntitled == \A v, w \in Workers : Entitled(v) /\ Entitled(w) => v = w

\* The row is what decides: the entitled worker is the one the row names, for
\* as long as the row exists.
EntitledIsOwner ==
    exists => \A w \in Workers : Entitled(w) =>
                  owner = w /\ \A until \in told[w] : until <= expiry

\* A worker that has asked to release has stopped advancing the run.
ReleasingHasStopped == \A w \in Workers : call[w].op = "release" => told[w] = {}

\* An expired lease is nobody's: the row refines the exclusive holder, so a
\* live lease is never taken over, only given up or run out.
Live == owner # NoOwner /\ expiry >= now
Lock == INSTANCE ExclusiveHolder WITH holder <- IF Live THEN owner ELSE NoOwner
ExclusiveLease == Lock!Spec
=============================================================================

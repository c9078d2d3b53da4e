----------------------------- MODULE ReadCache -----------------------------
(***************************************************************************)
(* What stands between the members of a team and the tools they read with, *)
(* in swarm/team.py: _read_cache_tool_hook with its cache, its budgets and *)
(* its stubs, and inside it the hook that guards the number of tool calls. *)
(* A member is delegated to, and its run makes replies of several calls    *)
(* each, which agno executes at once.  The part of the hook before the     *)
(* tool is awaited is one step and the part after it another.  A key is a  *)
(* tool with its arguments, a text is the version it is of; ranges of a    *)
(* file, missing files and the reads of the coordinator are left out.      *)
(***************************************************************************)
EXTENDS Naturals, Sequences, FiniteSets

CONSTANTS
  Readers,
  TwoWords,     \* those whose _member_id ("context-router") is not their _member_key
  Keys,
  Kind,         \* of a key: "file", "batch" or "recall"
  SizeOf,       \* how many characters its result has
  Budget,       \* _MEMBER_READ_CHAR_BUDGET
  Ceiling,      \* _DELEGATION_READ_CEILING
  Cap,          \* _MAX_BATCH_READS_PER_MEMBER and _LIGHTRAG_QUERY_CAP
  MaxRefusals,  \* _MAX_READ_REFUSALS
  MaxFailures,  \* _MAX_IDENTICAL_FAILURES
  SearchFirst,  \* those whose browsing waits for a search: Researcher, in a task of parts
  StubLimit,    \* _FORCE_TEXT_ONLY_AFTER_CONSECUTIVE_STUBS
  ToolLimit,    \* tool_call_limit, which agno counts anew in every run
  Reserve,      \* _TOOL_BUDGET_RESERVE
  MaxBatch,     \* bound on the calls of one reply
  MaxAsked,     \* bound on the delegations, those to everybody included
  Broadcasts,   \* whether there are any of those
  Overlaps,     \* whether a member is delegated to while a run of it is under way
  MaxVersion    \* bound on the versions of a text

ASSUME ReadCacheAssumption ==
  /\ IsFiniteSet(Readers) /\ TwoWords \subseteq Readers /\ SearchFirst \subseteq Readers
  /\ Kind \in [Keys -> {"file", "batch", "recall"}] /\ SizeOf \in [Keys -> Nat]
  /\ {Budget, Ceiling, Cap, MaxRefusals, MaxFailures, StubLimit, ToolLimit, Reserve,
      MaxBatch, MaxAsked, MaxVersion} \subseteq Nat
  /\ StubLimit > 0 /\ MaxVersion > 0 /\ {Broadcasts, Overlaps} \subseteq BOOLEAN

VARIABLES
  disk,      \* the version a read of a key would return
  cache,     \* the version that is kept of it, or Nothing
  begun,     \* delegation_generation, of a member and of the broadcasts
  serves,    \* serve_counts: of a member, in a generation, of a key
  agent,     \* what the hooks count of a member, and its tool_choice
  run,       \* the runs of members, in the order they were begun
  flying,    \* per run: the calls that are waiting for their tool
  extra,     \* _evidence_integrity_retry_active, as a number of serves
  asked      \* how many delegations there have been

readVars == <<disk, cache, begun, serves, agent, run, flying, extra, asked>>

Nothing == 0
Runs == 1..(MaxAsked * Cardinality(Readers))
Larger(x, y) == IF x < y THEN y ELSE x

(* Counters stop where a further step would make no difference.            *)
Up(x, last) == IF x < last THEN x + 1 ELSE x

(* The generation a call is counted in: the member's own or the broadcasts'. *)
Generation(m) == Larger(begun.own[m], begun.all)

ReadInit ==
  /\ disk = [k \in Keys |-> 1] /\ cache = [k \in Keys |-> Nothing]
  /\ begun = [own |-> [m \in Readers |-> 0], all |-> 0]
  /\ serves = [s \in Readers \X (0..MaxAsked) \X Keys |-> 0]
  /\ agent = [m \in Readers |->
       [streak |-> 0, chars |-> 0, here |-> 0, refusals |-> 0, silent |-> FALSE,
        known |-> FALSE, counted |-> 0, fired |-> FALSE, failing |-> 0,
        fetched |-> [k \in {"batch", "recall"} |-> 0], failed |-> {}]]
  /\ run = << >> /\ flying = [r \in Runs |-> {}]
  /\ extra = 0 /\ asked = 0

Active == {r \in DOMAIN run : run[r].at = "on"}
ActiveOf(m) == {r \in Active : run[r].of = m}
Of(r) == run[r].of
MayJoin(M) == Overlaps \/ \A m \in M : ActiveOf(m) = {}

-----------------------------------------------------------------------------
(* A delegation passes through the hook before the gate decides whether it *)
(* runs: it begins a generation and lifts what the one before has          *)
(* incurred.  Both are kept under the key of the member it names, and a    *)
(* tool_choice is only lifted of an agent that has made a read.            *)
Renewed(m) ==
  IF m \in TwoWords THEN agent[m]
  ELSE [agent[m] EXCEPT !.streak = 0, !.here = 0, !.refusals = 0,
                        !.silent = @ /\ ~agent[m].known]

(* A run has: what it was given in full, the versions an edit of it failed *)
(* at, how often in a row it was turned away, whether agno or the hooks    *)
(* saw calls the guard did not, whether it began a new generation, and     *)
(* whether its accounts are its own alone.                                 *)
NewRun(m, fresh) ==
  [of |-> m, at |-> "on", todo |-> 0, used |-> 0, has |-> {},
   floor |-> [k \in Keys |-> Nothing], row |-> 0,
   unseen |-> FALSE, refused |-> FALSE, misled |-> FALSE, fresh |-> fresh,
   plain |-> ActiveOf(m) = {}]

(* Runs of the members in M that are under way are no longer alone.        *)
Joined(M) == [r \in DOMAIN run |->
  IF run[r].of \in M /\ r \in Active THEN [run[r] EXCEPT !.plain = FALSE] ELSE run[r]]

Own(m) == IF m \in TwoWords THEN begun.own ELSE [begun.own EXCEPT ![m] = @ + 1]

Delegate(m) ==
  /\ MayJoin({m}) /\ asked < MaxAsked /\ asked' = asked + 1
  /\ begun' = [begun EXCEPT !.own = Own(m)]
  /\ agent' = [agent EXCEPT ![m] = Renewed(m)]
  /\ \/ run' = Joined({m})                                     \* the gate refuses
     \/ run' = Append(Joined({m}), NewRun(m, m \notin TwoWords /\ begun.all <= begun.own[m]))
  /\ UNCHANGED <<disk, cache, serves, flying, extra>>

(* delegate_task_to_members: the streaks of all, and the tool_choice of    *)
(* those that have made a read.                                            *)
Broadcast ==
  /\ Broadcasts /\ MayJoin(Readers) /\ asked < MaxAsked /\ asked' = asked + 1
  /\ begun' = [begun EXCEPT !.all = @ + 1]
  /\ agent' = [m \in Readers |->
       [agent[m] EXCEPT !.streak = 0, !.silent = @ /\ ~agent[m].known]]
  /\ \E order \in [1..Cardinality(Readers) -> Readers] :
       /\ \A i, j \in DOMAIN order : order[i] = order[j] => i = j
       /\ run' = Joined(Readers) \o [i \in DOMAIN order |->
            NewRun(order[i], begun.own[order[i]] <= begun.all)]
  /\ UNCHANGED <<disk, cache, serves, flying, extra>>

(* The reconciliation of the evidence runs the team once more, with the    *)
(* same hooks and one more serve of each key.                              *)
Reconcile ==
  /\ Active = {} /\ run # << >> /\ extra = 0 /\ extra' = 1
  /\ UNCHANGED <<disk, cache, begun, serves, agent, run, flying, asked>>

(* An edit is staged, a file is written or confirmed; what batches and     *)
(* recalls are of is not compared with anything.                           *)
Changes(k) ==
  /\ Kind[k] = "file" /\ disk[k] < MaxVersion /\ disk' = [disk EXCEPT ![k] = @ + 1]
  /\ UNCHANGED <<cache, begun, serves, agent, run, flying, extra, asked>>

-----------------------------------------------------------------------------
(* A reply of the member, or the end of its run.  agno refuses the calls   *)
(* beyond its limit without calling a hook.                                *)
Between(r) == r \in Active /\ run[r].todo = 0 /\ flying[r] = {}

RepliesWith(r, n) ==
  /\ Between(r) /\ ~agent[Of(r)].silent /\ ~run[r].refused
  /\ LET goes == IF run[r].used + n <= ToolLimit THEN n ELSE ToolLimit - run[r].used
     IN  run' = [run EXCEPT ![r].todo = goes, ![r].used = @ + goes, ![r].refused = goes < n]
  /\ UNCHANGED <<disk, cache, begun, serves, agent, flying, extra, asked>>

Answers(r) ==
  /\ Between(r)
  /\ run' = [run EXCEPT ![r].at = "over", ![r].used = 0, ![r].has = {},
                       ![r].floor = [k \in Keys |-> Nothing], ![r].row = 0]
  /\ UNCHANGED <<disk, cache, begun, serves, agent, flying, extra, asked>>

-----------------------------------------------------------------------------
(* _bump_consecutive_stub_and_maybe_force_text_only                        *)
Bumped(a) ==
  [a EXCEPT !.streak = Up(@, StubLimit), !.silent = @ \/ a.streak + 1 >= StubLimit]

(* The tool-call guard is the innermost hook: it counts what goes to a     *)
(* tool, in all the runs of the member, and fires once.                    *)
Threshold == Larger(IF ToolLimit > Reserve THEN ToolLimit - Reserve ELSE 0, 1)
BugGuarded(a, n) == a
Guarded(a, n) ==
  IF ~a.fired /\ n >= Threshold THEN [a EXCEPT !.fired = TRUE, !.silent = TRUE] ELSE a

(* A call that is not cached.  An apply_diff that finds no anchor buys one *)
(* fresh read; what its run has read before is no longer worth having.  Of *)
(* any other it is counted how often in a row it has failed with the same  *)
(* arguments; that is kept here of one of them.                            *)
Failing(m) ==
  IF agent[m].failing < MaxFailures THEN {0, agent[m].failing, agent[m].failing + 1}
  ELSE {agent[m].failing}

Edit(r, k) ==
  LET m == Of(r)
      n == Up(agent[m].counted, Threshold)
      crossed == \E s \in Active : \E f \in flying[s] : f.key = k
  IN  /\ r \in Active /\ run[r].todo > 0 /\ Kind[k] = "file"
      /\ \/ /\ agent' = [agent EXCEPT ![m] = Guarded([agent[m] EXCEPT !.counted = n,
                                                   !.failed = @ \cup {k}], n)]
            /\ run' = [run EXCEPT ![r].todo = @ - 1, ![r].has = @ \ {k},
                           ![r].floor[k] = disk[k], ![r].plain = @ /\ ~crossed]
         \/ /\ \E times \in Failing(m) :
                 agent' = [agent EXCEPT ![m] = Guarded([agent[m] EXCEPT !.counted = n,
                                                      !.failing = times], n)]
            /\ run' = [run EXCEPT ![r].todo = @ - 1]
      /\ UNCHANGED <<disk, cache, begun, serves, flying, extra, asked>>

(* What is answered before the guard could count it: a call that has       *)
(* failed so often that it is not tried again, and a browse that the gate  *)
(* outside of this hook sends to a search first (whether a search has      *)
(* found anything yet is left open).                                       *)
Unpassed(r) ==
  /\ r \in Active /\ run[r].todo > 0
  /\ run' = [run EXCEPT ![r].todo = @ - 1, ![r].unseen = TRUE]
  /\ UNCHANGED <<disk, cache, begun, serves, agent, flying, extra, asked>>
Collapsed(r) == agent[Of(r)].failing >= MaxFailures /\ Unpassed(r)
Redirected(r, k) == Of(r) \in SearchFirst /\ Kind[k] = "file" /\ Unpassed(r)

-----------------------------------------------------------------------------
(* The part of the hook before the tool: after a failed edit it forgets    *)
(* what is kept of the text, and that the member has had it.               *)
Retried(m, k) == k \in agent[m].failed
BugForgotten(m, k) == cache
Forgotten(m, k) == IF Retried(m, k) THEN [cache EXCEPT ![k] = Nothing] ELSE cache
Recounted(m, k) ==
  IF Retried(m, k) THEN [serves EXCEPT ![<<m, Generation(m), k>>] = 0] ELSE serves
Seen(m, k) == [agent[m] EXCEPT !.known = TRUE, !.failed = @ \ {k}]

BugOverBudget(m) == agent[m].here >= Budget
OverBudget(m) == agent[m].chars >= Budget
Capped(m, k) == Kind[k] # "file" /\ agent[m].fetched[Kind[k]] >= Cap
OverCeiling(m, k) == Kind[k] # "recall" /\ agent[m].here >= Ceiling

(* Why a read that is not in the cache is refused, in the order of the     *)
(* source: a member over its budget, then a recall over its cap or a read  *)
(* over the ceiling, then a batch over its cap.                            *)
Refusal(m, k) ==
  CASE OverBudget(m) -> "budget"
    [] ~OverBudget(m) /\ OverCeiling(m, k) -> "ceiling"
    [] ~OverBudget(m) /\ ~OverCeiling(m, k) /\ Capped(m, k) -> "capped"
    [] OTHER -> "none"

BugTurnedAway(a, why) == IF why = "ceiling" THEN [a EXCEPT !.refusals = Up(@, MaxRefusals + 1)] ELSE a
TurnedAway(a, why) ==
  CASE why = "budget" -> [a EXCEPT !.silent = TRUE]
    [] why = "capped" -> a
    [] why = "ceiling" ->
         LET b == [a EXCEPT !.refusals = Up(@, MaxRefusals + 1)]
         IN  IF b.refusals > MaxRefusals THEN Bumped(b) ELSE b

Starts(r, k) == r \in Active /\ run[r].todo > 0 /\ cache' = Forgotten(Of(r), k)

Refuse(r, k) ==
  LET m == Of(r)
      why == Refusal(m, k)
  IN  /\ Starts(r, k) /\ cache'[k] = Nothing /\ why # "none"
      /\ serves' = Recounted(m, k)
      /\ agent' = [agent EXCEPT ![m] = TurnedAway(Seen(m, k), why)]
      /\ run' = [run EXCEPT ![r].todo = @ - 1, ![r].unseen = TRUE,
                            ![r].row = IF why = "capped" THEN @ ELSE Up(@, MaxRefusals + StubLimit)]
      /\ UNCHANGED <<disk, begun, flying, extra, asked>>

(* The end of the hook: the text v of k, or from the second time in the    *)
(* generation g a stub for it.  kept and a are the counts so far.          *)
Given(r, k, v, g, kept, a, used) ==
  LET m == Of(r)
      n == Up(kept[<<m, g, k>>], 2 + extra)
      stub == n > 1 + extra
  IN  /\ serves' = [kept EXCEPT ![<<m, g, k>>] = n]
      /\ agent' = [agent EXCEPT ![m] = IF stub THEN Bumped(a) ELSE [a EXCEPT !.streak = 0]]
      /\ run' = [run EXCEPT ![r] =
           IF stub THEN [used EXCEPT !.row = Up(@, MaxRefusals + StubLimit), !.misled = @ \/ k \notin used.has]
           ELSE [used EXCEPT !.row = 0, !.has = IF v >= used.floor[k] THEN @ \cup {k} ELSE @]]

(* What is in the cache is served at once, and no inner hook sees it.      *)
Hit(r, k) ==
  LET m == Of(r)
  IN  /\ Starts(r, k) /\ cache'[k] # Nothing
      /\ Given(r, k, cache'[k], Generation(m), Recounted(m, k), Seen(m, k),
               [run[r] EXCEPT !.todo = @ - 1, !.unseen = TRUE])
      /\ UNCHANGED <<disk, begun, flying, extra, asked>>

Fetch(r, k) ==
  LET m == Of(r)
      n == Up(agent[m].counted, Threshold)
  IN  /\ Starts(r, k) /\ cache'[k] = Nothing /\ Refusal(m, k) = "none"
      /\ serves' = Recounted(m, k)
      /\ agent' = [agent EXCEPT ![m] = [Seen(m, k) EXCEPT !.counted = n]]
      /\ run' = [run EXCEPT ![r].todo = @ - 1]
      /\ flying' = [flying EXCEPT ![r] = @ \cup
           {[key |-> k, nth |-> run[r].todo, in |-> Generation(m), count |-> n,
             since |-> disk[k]]}]
      /\ UNCHANGED <<disk, begun, extra, asked>>

(* The tool has returned the text as it was at some moment of the call;    *)
(* the guard has seen the result, it is kept, charged and given.           *)
Charged(a, k) ==
  [a EXCEPT !.chars = @ + SizeOf[k], !.here = @ + SizeOf[k],
            !.fetched = [x \in DOMAIN @ |-> IF x = Kind[k] THEN @[x] + 1 ELSE @[x]]]

Fetched(r, f) ==
  /\ f \in flying[r] /\ flying' = [flying EXCEPT ![r] = @ \ {f}]
  /\ \E v \in f.since..disk[f.key] :
       /\ cache' = [cache EXCEPT ![f.key] = v]
       /\ Given(r, f.key, v, f.in, serves,
                Charged(Guarded(agent[Of(r)], f.count), f.key), run[r])
  /\ UNCHANGED <<disk, begun, extra, asked>>

ReadNext ==
  \/ Broadcast \/ Reconcile
  \/ \E m \in Readers : Delegate(m)
  \/ \E k \in Keys : Changes(k)
  \/ \E r \in DOMAIN run :
       \/ Answers(r) \/ Collapsed(r) \/ \E n \in 1..MaxBatch : RepliesWith(r, n)
       \/ \E k \in Keys :
            Edit(r, k) \/ Redirected(r, k) \/ Refuse(r, k) \/ Hit(r, k) \/ Fetch(r, k)
       \/ \E f \in flying[r] : Fetched(r, f)

ReadSpec == ReadInit /\ [][ReadNext]_readVars

-----------------------------------------------------------------------------
(* A member has no more calls under way than its run has made, what is kept *)
(* of a text is a version it has had, and counts stay within their limits.  *)
ReadTypeOK ==
  /\ disk \in [Keys -> 1..MaxVersion] /\ asked \in 0..MaxAsked /\ extra \in {0, 1}
  /\ \A k \in Keys : cache[k] \in 0..disk[k]
  /\ \A m \in Readers :
       /\ agent[m].counted \in 0..Threshold /\ agent[m].streak \in 0..StubLimit
       /\ agent[m].failing \in 0..MaxFailures
       /\ agent[m].refusals \in 0..(MaxRefusals + 1) /\ agent[m].here <= agent[m].chars
       /\ agent[m].failed \subseteq Keys
  /\ \A r \in DOMAIN run :
       /\ run[r].of \in Readers /\ run[r].has \subseteq Keys
       /\ \A k \in Keys : run[r].floor[k] \in 0..disk[k]
       /\ run[r].todo + Cardinality(flying[r]) <= MaxBatch
       /\ run[r].at = "on" => run[r].todo + Cardinality(flying[r]) <= run[r].used
       /\ run[r].at = "over" => run[r].todo = 0 /\ flying[r] = {}

(* A stub tells the member that it has the text already.  It is given only *)
(* to a run that began a generation and has had that text in full, and not *)
(* from before the member's last edit of it failed: not for what another   *)
(* member, or an earlier run of the same one, was given.                   *)
StubsStandForWhatTheRunHas ==
  \A r \in DOMAIN run : run[r].fresh /\ run[r].plain => ~run[r].misled

(* The same of every run that was alone, which is what the comment at the  *)
(* serve limit says: a separate delegation starts a fresh bucket.          *)
NewDelegationsGetTheText == \A r \in DOMAIN run : run[r].plain => ~run[r].misled

(* The budget is checked before a read and charged after it, so that the   *)
(* reads of one reply pass together; a member goes over it by no more than *)
(* those.                                                                  *)
ReadsStayBounded ==
  \A m \in Readers :
    \/ \E r \in DOMAIN run : run[r].of = m /\ ~run[r].plain
    \/ agent[m].chars <= Budget
    \/ \E k \in Keys : agent[m].chars < Budget + MaxBatch * SizeOf[k]

(* A run that is turned away again and again, by stubs and by refusals in  *)
(* whatever order, loses its tools before it has been turned away more     *)
(* often than both limits allow; the refusals of a cap, which never end    *)
(* (the two checks at 20944 and 21012), are not counted here, and neither  *)
(* are those of a search that has to come first (21931) and of a failure   *)
(* that is repeated (20772).                                               *)
RefusalsEnd ==
  \A r \in Active : run[r].plain /\ run[r].row >= MaxRefusals + StubLimit => agent[Of(r)].silent

(* The guard forces an answer before agno refuses a call: a run agno       *)
(* refused is one some of whose calls the guard did not count, as they     *)
(* were cached or refused reads, repeated failures or sent to a search, or *)
(* it is not the first of its member, for which the guard no longer fires. *)
(* The reserve has to be what a reply may ask for and less than the limit. *)
CountedRunsAreNotRefused ==
  MaxBatch <= Reserve + 1 /\ Reserve < ToolLimit =>
    \A r \in DOMAIN run : run[r].refused =>
      \/ run[r].unseen \/ ~run[r].plain
      \/ \E s \in 1..(r - 1) : run[s].of = run[r].of
=============================================================================

--------------------------- MODULE DelegationGate ---------------------------
(***************************************************************************)
(* The delegations of the coordinator, in swarm/team.py: the gate that     *)
(* serves, stops or lets through a call (_duplicate_delegation_gate_hook), *)
(* the run of the member it starts, and the two ways its text comes back:  *)
(* as the result of the entry the gate has logged for it, which answers    *)
(* the next call that asks the same (_claim_pending_entry_for_run,         *)
(* _finalise_member_chunks), and through forward_member_answer.  agno runs *)
(* the calls of one reply concurrently, and begins the next reply when all *)
(* of them have returned.  A text is the set of the calls whose runs wrote *)
(* it.  Broadcasts (no member, no result kept) are left out.               *)
(***************************************************************************)
EXTENDS Naturals, Sequences, FiniteSets, SequencesExt

CONSTANTS
  Members,
  Tasks,        \* records [tool, text, file, audited, subject, checked]
  MaxCalls,
  RepeatLimit,  \* 3: n >= 3
  VolumeLimit,  \* _MEMBER_DELEGATION_LIMIT
  MaxRedirects, \* _MAX_TARGET_REDIRECTS
  ForwardRequired  \* the policy of the team requires forward_member_answer

ASSUME GateAssumption ==
  /\ {MaxCalls, RepeatLimit, VolumeLimit} \subseteq Nat \ {0}
  /\ MaxRedirects \in Nat /\ ForwardRequired \in BOOLEAN

VARIABLES
  calls,     \* those that have come to the gate, [to, task]
  stage,     \* of each
  coming,    \* how many more of this reply are on their way to it
  log,       \* the calls the gate has let through, in order
  entry,     \* of each logged call: its result, its run_id, its carried text
  member,    \* per member: queue of pending entries, chunks, counters
  table,     \* entries by the run id expected, by the run id claimed
  spent,     \* corrective reads granted, targets redirected, files read
  choice,    \* tool_choice of the coordinator, whether a tool is required
  patched,   \* Agent.arun carries the run id the gate has made
  mixed,     \* history: calls whose runs had company in their member
  crowded    \* history: members with two calls under way at once

vars == <<calls, stage, coming, log, entry, member, table, spent, choice, patched, mixed, crowded>>

Ids == 1..MaxCalls
NoRun == 0
To(c) == calls[c].to
Task(c) == calls[c].task

UnderWay == {"checking", "logged", "running"}
Over == {"done", "served", "stopped", "redirected", "lost", "cut"}
ReplyOver == coming = 0 /\ \A c \in DOMAIN calls : stage[c] \in Over
InFlight(m) == {c \in DOMAIN calls : To(c) = m /\ stage[c] \in UnderWay}

Init ==
  /\ calls = << >> /\ stage = [c \in Ids |-> "unasked"] /\ coming = 0 /\ log = << >>
  /\ entry = [c \in Ids |-> [result |-> {}, run |-> NoRun, carried |-> FALSE]]
  /\ member = [m \in Members |->
       [queue |-> << >>, chunks |-> {}, latest |-> {}, generation |-> 0,
        captured |-> 0, repeats |-> 0]]
  /\ table = [expected |-> {}, claimed |-> {}]
  /\ spent = [granted |-> {}, redirected |-> {}, read |-> {}]
  /\ choice = [tool |-> "auto", armed |-> FALSE, fired |-> FALSE]
  /\ patched \in BOOLEAN /\ mixed = {} /\ crowded = {}

(* The model replies with calls, all of which agno starts at once.         *)
Reply(k) ==
  /\ ReplyOver /\ choice.tool = "auto" /\ Len(calls) + k <= MaxCalls
  /\ coming' = k
  /\ UNCHANGED <<calls, stage, log, entry, member, table, spent, choice, patched, mixed, crowded>>

-----------------------------------------------------------------------------
(* The gate.  The target of an audit is the file the task names; without   *)
(* an audit it is made of the text itself.                                 *)
Target(t) == IF t.audited THEN t.file ELSE t.text
Earliest(S) == CHOOSE e \in S : \A f \in S :
  (CHOOSE i \in DOMAIN log : log[i] = e) <= (CHOOSE i \in DOMAIN log : log[i] = f)
LoggedFor(m) == {e \in ToSet(log) : To(e) = m}

(* The same words: an entry keeps the text the member was given, which is  *)
(* no longer the coordinator's when findings were carried into it.         *)
SameWords(m, t) ==
  {e \in LoggedFor(m) : t.tool = "task" /\ Task(e) = t /\ ~entry[e].carried}
SameTarget(m, t) ==
  {e \in LoggedFor(m) :
     /\ Task(e).tool = t.tool /\ Task(e).file = t.file /\ Task(e).audited /\ t.audited
     /\ t.tool = "structured" => Task(e).subject = t.subject}

(* The entry's own result, or the last text of the member whatever it was  *)
(* about.                                                                  *)
Prior(e) ==
  IF entry[e].result # {} THEN entry[e].result ELSE member[To(e)].latest

(* What becomes of a call that repeats e, n repeats into the run.          *)
Corrective(m, t, e) ==
  /\ t.tool = "task" /\ Prior(e) # {}
  /\ <<m, Target(t)>> \notin spent.granted \cup spent.read
Settled(m, t, e, n) ==
  [do |-> CASE Corrective(m, t, e) -> "correct"
            [] ~Corrective(m, t, e) /\ n + 1 >= RepeatLimit -> "stopped"
            [] ~Corrective(m, t, e) /\ n + 1 < RepeatLimit /\ Prior(e) # {} -> "served"
            [] OTHER -> "retry",
   repeats |-> n + 1]

(* Both tiers look at a call, the second at what the first let through.    *)
Judged(m, t) ==
  LET first == Settled(m, t, Earliest(SameWords(m, t)), member[m].repeats)
      through == IF SameWords(m, t) = {}
                 THEN [do |-> "new", repeats |-> member[m].repeats] ELSE first
  IN  IF through.do \in {"new", "retry"} /\ SameTarget(m, t) # {}
      THEN Settled(m, t, Earliest(SameTarget(m, t)), through.repeats)
      ELSE through

OverVolume(m) == Cardinality(LoggedFor(m)) >= VolumeLimit

(* _force_text_only and the tool the protocol requires share one slot.     *)
Forced == [choice EXCEPT !.tool = "none"]
BugCleared == [choice EXCEPT !.armed = FALSE]
Cleared ==
  IF choice.armed THEN [choice EXCEPT !.tool = "auto", !.armed = FALSE] ELSE choice

(* _carry_prior_findings: the one file the task names has been read by     *)
(* this member, who has said something.                                    *)
Carries(m, t) ==
  t.tool = "task" /\ <<m, t.file>> \in spent.read /\ member[m].latest # {}

(* The call runs: it returns a generator nobody has consumed yet.  changed *)
(* is the record of the member as the gate leaves it.                      *)
Registered(c, m, t, changed) ==
  /\ stage' = [stage EXCEPT ![c] = "logged"] /\ log' = Append(log, c)
  /\ entry' = [entry EXCEPT ![c].carried = Carries(m, t)]
  /\ member' = [member EXCEPT ![m] = [changed EXCEPT !.queue = Append(@, c)]]
  /\ table' = [table EXCEPT !.expected = @ \cup {c}]
  /\ choice' = Cleared

Refused(c, m, how, changed) ==
  /\ stage' = [stage EXCEPT ![c] = how] /\ member' = [member EXCEPT ![m] = changed]
  /\ choice' = IF how = "stopped" THEN Forced ELSE choice
  /\ UNCHANGED <<log, entry, table>>

(* _read_cache_tool_hook, outside the gate, has begun a new generation     *)
(* before the gate has decided anything.                                   *)
BugBegun(m) == member[m]
Begun(m) == [member[m] EXCEPT !.generation = @ + 1]

Gate(m, t) ==
  LET c == Len(calls) + 1
      j == Judged(m, t)
      counted == [Begun(m) EXCEPT !.repeats = j.repeats]
      passes == ~OverVolume(m) /\ j.do \in {"new", "retry", "correct"}
  IN  /\ coming > 0 /\ coming' = coming - 1
      /\ calls' = Append(calls, [to |-> m, task |-> t])
      /\ \/ OverVolume(m) /\ Refused(c, m, "stopped", Begun(m))
         \/ /\ ~OverVolume(m) /\ j.do \in {"served", "stopped"}
            /\ Refused(c, m, j.do, counted)
         \/ passes /\ ~t.checked /\ Registered(c, m, t, counted)
         \/ passes /\ t.checked /\ Refused(c, m, "checking", counted)
      /\ spent' = [spent EXCEPT !.granted = @ \cup
           IF passes /\ j.do = "correct" THEN {<<m, Target(t)>>} ELSE {}]
      /\ crowded' = IF passes /\ InFlight(m) # {} THEN crowded \cup {m} ELSE crowded
      /\ UNCHANGED <<patched, mixed>>

(* find_files answers: the path is there, or the coordinator is told so,   *)
(* once; the second time the call runs all the same.                       *)
LookUp(c) ==
  LET times == Cardinality({d \in spent.redirected : Task(d).file = Task(c).file})
      told_so == [spent EXCEPT !.redirected = @ \cup {c}]
  IN  /\ stage[c] = "checking"
      /\ \/ Registered(c, To(c), Task(c), member[To(c)]) /\ UNCHANGED spent
         \/ /\ times >= MaxRedirects /\ spent' = told_so
            /\ Registered(c, To(c), Task(c), member[To(c)])
         \/ /\ times < MaxRedirects /\ spent' = told_so
            /\ Refused(c, To(c), "redirected", member[To(c)])
      /\ UNCHANGED <<calls, coming, patched, mixed, crowded>>

-----------------------------------------------------------------------------
(* The run of the member.  RunStarted: the entry whose run id this is, or  *)
(* else the oldest that nobody has claimed.                                *)
Unclaimed(m) == {e \in ToSet(member[m].queue) : entry[e].run = NoRun}
BugStartedBy(c) == {Earliest(Unclaimed(To(c))) : e \in Unclaimed(To(c))}
StartedBy(c) ==
  IF patched THEN {c} \cap table.expected
  ELSE {Earliest(Unclaimed(To(c))) : e \in Unclaimed(To(c))}

RunStarted(c) ==
  LET claims == {e \in StartedBy(c) : entry[e].run = NoRun}
      company == {d \in InFlight(To(c)) : stage[d] = "running"}
  IN  /\ stage[c] = "logged" /\ stage' = [stage EXCEPT ![c] = "running"]
      /\ entry' = [e \in Ids |-> IF e \in claims THEN [entry[e] EXCEPT !.run = c] ELSE entry[e]]
      /\ table' = [expected |-> IF patched THEN table.expected \ {c} ELSE table.expected,
                   claimed |-> table.claimed \cup ({c} \X claims)]
      /\ mixed' = IF company = {} THEN mixed ELSE mixed \cup company \cup {c}
      /\ UNCHANGED <<calls, coming, log, member, spent, choice, patched, crowded>>

(* agno finds no member of that id: _member_key takes more spellings for   *)
(* one member than agno does.                                              *)
NoSuchMember(c) ==
  /\ stage[c] = "logged" /\ stage' = [stage EXCEPT ![c] = "lost"]
  /\ UNCHANGED <<calls, coming, log, entry, member, table, spent, choice, patched, mixed, crowded>>

(* _accumulate_member_chunk, and a read of the file its task names.        *)
Works(c) ==
  /\ stage[c] = "running"
  /\ member' = [member EXCEPT ![To(c)].chunks = @ \cup {c}]
  /\ spent' \in {spent, [spent EXCEPT !.read = @ \cup {<<To(c), Task(c).file>>}]}
  /\ UNCHANGED <<calls, stage, coming, log, entry, table, choice, patched, mixed, crowded>>

(* _finalise_member_chunks: the entry is found by the run id, or else the  *)
(* oldest one pending is taken.                                            *)
Finished(c, m) ==
  LET mine == {p[2] : p \in {q \in table.claimed : q[1] = c}}
  IN  IF mine # {} \/ member[m].queue = << >> THEN mine ELSE {Head(member[m].queue)}

(* The first result of the run makes the coordinator forward it.           *)
RunCompleted(c) ==
  LET m == To(c)
      text == member[m].chunks
      found == Finished(c, m)
  IN  /\ stage[c] = "running" /\ stage' = [stage EXCEPT ![c] = "done"]
      /\ \/ text = {} /\ UNCHANGED <<entry, member, table, choice>>
         \/ /\ text # {}
            /\ entry' = [e \in Ids |-> IF e \in found THEN [entry[e] EXCEPT !.result = text] ELSE entry[e]]
            /\ member' = [member EXCEPT ![m] = [@ EXCEPT !.chunks = {}, !.latest = text,
                 !.captured = member[m].generation,
                 !.queue = SelectSeq(@, LAMBDA e : e \notin found)]]
            /\ table' = [table EXCEPT !.claimed =
                 {p \in @ : p[1] # c /\ ~(p[2] \in found /\ p[1] = entry[p[2]].run)}]
            /\ choice' = IF ForwardRequired /\ ~choice.fired
                         THEN [tool |-> "forward", armed |-> TRUE, fired |-> TRUE] ELSE choice
      /\ UNCHANGED <<calls, coming, log, spent, patched, mixed, crowded>>

(* The stream is closed before its end: a stall guard has stopped it, a run *)
(* has failed or no event has come for too long.  The calls of the reply   *)
(* end with it, those at the gate too; what they have left behind stays,   *)
(* the chunks of the members among it, and the next pass replies anew.     *)
CutOff(m) == {c \in DOMAIN calls : To(c) = m /\ stage[c] = "cut"}
BrokenOff ==
  /\ ~ReplyOver /\ coming' = 0
  /\ stage' = [c \in Ids |-> IF stage[c] \in UnderWay THEN "cut" ELSE stage[c]]
  /\ UNCHANGED <<calls, log, entry, member, table, spent, choice, patched, mixed, crowded>>

(* forward_member_answer, in a reply of its own or next to delegations.    *)
Stale(m) == member[m].generation > member[m].captured
Forwards(m) == ~Stale(m) /\ member[m].latest # {}
Forward ==
  /\ choice.tool # "none" \/ ~ReplyOver
  /\ choice' = Cleared
  /\ UNCHANGED <<calls, stage, coming, log, entry, member, table, spent, patched, mixed, crowded>>

Next ==
  \/ Forward \/ BrokenOff \/ \E k \in Ids : Reply(k)
  \/ \E m \in Members, t \in Tasks : Gate(m, t)
  \/ \E c \in DOMAIN calls :
       \/ LookUp(c) \/ RunStarted(c) \/ NoSuchMember(c)
       \/ Works(c) \/ RunCompleted(c)

Spec == Init /\ [][Next]_vars

-----------------------------------------------------------------------------
TypeOK ==
  /\ calls \in Seq([to : Members, task : Tasks]) /\ Len(calls) <= MaxCalls
  /\ stage \in [Ids -> UnderWay \cup Over \cup {"unasked"}]
  /\ ToSet(log) \subseteq DOMAIN calls
  /\ entry \in [Ids -> [result : SUBSET Ids, run : Ids \cup {NoRun}, carried : BOOLEAN]]
  /\ \A m \in Members : ToSet(member[m].queue) \subseteq LoggedFor(m)
  /\ choice.tool \in {"auto", "none", "forward"}
  /\ choice.tool = "forward" => choice.armed /\ choice.fired

(* A run that had its member for itself leaves its own text and nothing    *)
(* else in its own entry, and no run leaves any in the entry of a call     *)
(* that was refused, lost or cut off and is still pending, whatever order  *)
(* the calls were let through in, when the patch that gives a run the id   *)
(* of the gate is installed.  The exception is what a run the stream was   *)
(* closed on has left in the chunks of the member.                         *)
OwnTextInOwnEntry ==
  patched =>
    /\ \A c \in Ids \ mixed :
         stage[c] = "done" => entry[c].result \ CutOff(To(c)) \in {{c}, {}}
    /\ \A c \in Ids : stage[c] # "done" => entry[c].result = {}

(* "a member delegated to twice must not have its second answer            *)
(* concatenated onto its first" (team.py:26024-26025), whatever became of  *)
(* the first.                                                              *)
NothingOfTheFirstAnswer ==
  \A c \in Ids \ mixed :
    stage[c] = "done" /\ patched => entry[c].result \in {{c}, {}}

(* What is forwarded answers the question asked last, unless the member    *)
(* was given two questions at once.                                        *)
ForwardedIsNotStale ==
  \A m \in Members \ crowded : Forwards(m) => InFlight(m) = {}

(* The docstring of forward_member_answer: a generation newer than that of *)
(* the stored answer "means that newer delegation has not finished yet".   *)
(* The generation also begins for a call the gate refuses, for one agno    *)
(* finds no member for and for a run that says nothing.                    *)
NotYetMeansRunning ==
  \A m \in Members : Stale(m) /\ member[m].latest # {} => InFlight(m) # {}

(* "ALREADY DONE: m was given this exact task earlier this run and         *)
(* returned": the text a repeat would be given is that of a run of the     *)
(* task, and not whatever the member has said last.                        *)
ServedIsTheAnswer ==
  \A m \in Members, t \in Tasks : SameWords(m, t) # {} =>
    \A c \in Prior(Earliest(SameWords(m, t))) : Task(c) = t
=============================================================================

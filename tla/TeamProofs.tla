----------------------------- MODULE TeamProofs -----------------------------
(***************************************************************************)
(* What stands around the members of a team, for any members, tasks, keys  *)
(* and limits.  Of the delegations of the coordinator: a run files its     *)
(* text under its own entry, and what is forwarded is not stale.  Of the   *)
(* reads of the members: stubs stand for what the run has, budgets are     *)
(* exceeded by one reply at most, refusals come to an end, and a run whose *)
(* calls are counted is not refused by agno.  Of the answer of the team:   *)
(* what leaves the guards is verified or says that it is not, and a cut    *)
(* text, an invented symbol and a file that was written are not passed     *)
(* over.                                                                   *)
(***************************************************************************)
EXTENDS DelegationGate, ReadCache, AnswerGuards, FiniteSetTheorems, SequenceTheorems,
        TLAPS

-----------------------------------------------------------------------------
(* The delegations of the coordinator                                      *)

(* What the steps are computed from has its type.  Nothing is said of the  *)
(* queues, in which only a run without a run id of its own is looked for.  *)
Calls ==
  /\ calls \in Seq([to : Members, task : Tasks])
  /\ coming \in Nat /\ Len(calls) + coming <= MaxCalls
  /\ stage \in [Ids -> UnderWay \cup Over \cup {"unasked"}]
  /\ \A c \in Ids : stage[c] = "unasked" <=> c > Len(calls)
  /\ DOMAIN entry = Ids
  /\ \A c \in Ids : {"result", "run", "carried"} \subseteq DOMAIN entry[c]

MembersOf ==
  /\ DOMAIN member = Members
  /\ \A m \in Members :
       /\ {"queue", "chunks", "latest", "generation", "captured", "repeats"} \subseteq DOMAIN member[m]
       /\ member[m].generation \in Nat /\ member[m].captured \in Nat

Tables == {"expected", "claimed"} \subseteq DOMAIN table
Shape == Calls /\ MembersOf /\ Tables

(* A call that has come to the gate has a number and a member.             *)
LEMMA CallFacts ==
  ASSUME Shape, NEW c \in DOMAIN calls
  PROVE  c \in Ids /\ c <= Len(calls) /\ To(c) \in Members
<1>1. calls \in Seq([to : Members, task : Tasks]) /\ Len(calls) <= MaxCalls /\ MaxCalls \in Nat
  BY GateAssumption DEF Shape, Calls
<1>2. c \in 1..Len(calls) /\ Len(calls) \in Nat
  BY <1>1
<1>3. calls[c] \in [to : Members, task : Tasks]
  BY <1>1, <1>2, ElementOfSeq
<1>. QED
  BY <1>1, <1>2, <1>3 DEF Ids, To

-----------------------------------------------------------------------------
(* What the gate changes, whether it refuses a call or lets it through: a  *)
(* new call that is nowhere near a run, and a new generation.              *)
LEMMA GateStep ==
  ASSUME Shape, NEW m \in Members, NEW t \in Tasks, Gate(m, t)
  PROVE  LET c == Len(calls) + 1
         IN  /\ c \in Ids /\ coming \in Nat \ {0} /\ coming' = coming - 1
             /\ calls' = Append(calls, [to |-> m, task |-> t])
             /\ \E how \in {"stopped", "served", "checking", "logged"} :
                  /\ stage' = [stage EXCEPT ![c] = how]
                  /\ how # "logged" => entry' = entry /\ table' = table
                  /\ how = "logged" =>
                       /\ \E b \in BOOLEAN : entry' = [entry EXCEPT ![c].carried = b]
                       /\ table' = [table EXCEPT !.expected = @ \cup {c}]
                  /\ how \in UnderWay /\ InFlight(m) # {} => m \in crowded'
             /\ crowded \subseteq crowded'
             /\ DOMAIN member' = Members
             /\ \A x \in Members :
                  /\ DOMAIN member'[x] = DOMAIN member[x]
                  /\ member'[x].chunks = member[x].chunks
                  /\ member'[x].latest = member[x].latest
                  /\ member'[x].captured = member[x].captured
                  /\ member'[x].generation = IF x = m THEN member[x].generation + 1
                                             ELSE member[x].generation
<1>. DEFINE c == Len(calls) + 1
            j == Judged(m, t)
            counted == [Begun(m) EXCEPT !.repeats = j.repeats]
            passes == ~OverVolume(m) /\ j.do \in {"new", "retry", "correct"}
<1>1. /\ coming > 0 /\ coming' = coming - 1
      /\ calls' = Append(calls, [to |-> m, task |-> t])
      /\ \/ OverVolume(m) /\ Refused(c, m, "stopped", Begun(m))
         \/ /\ ~OverVolume(m) /\ j.do \in {"served", "stopped"}
            /\ Refused(c, m, j.do, counted)
         \/ passes /\ ~t.checked /\ Registered(c, m, t, counted)
         \/ passes /\ t.checked /\ Refused(c, m, "checking", counted)
      /\ crowded' = IF passes /\ InFlight(m) # {} THEN crowded \cup {m} ELSE crowded
  BY DEF Gate
<1>2. c \in Ids
  BY <1>1, GateAssumption DEF Shape, Calls, Ids
<1>. HIDE DEF c, j, passes
<1>3. \A ch \in {Begun(m), counted} :
        /\ DOMAIN ch = DOMAIN member[m]
        /\ ch.chunks = member[m].chunks /\ ch.latest = member[m].latest
        /\ ch.captured = member[m].captured
        /\ ch.generation = member[m].generation + 1
  BY DEF Begun, Shape, MembersOf
<1>4. ASSUME NEW ch \in {Begun(m), counted}, NEW how \in {"stopped", "served", "checking"},
             Refused(c, m, how, ch)
      PROVE  /\ stage' = [stage EXCEPT ![c] = how] /\ entry' = entry /\ table' = table
             /\ member' = [member EXCEPT ![m] = ch]
  BY <1>4 DEF Refused
<1>5. ASSUME Registered(c, m, t, counted)
      PROVE  /\ stage' = [stage EXCEPT ![c] = "logged"]
             /\ \E b \in BOOLEAN : entry' = [entry EXCEPT ![c].carried = b]
             /\ table' = [table EXCEPT !.expected = @ \cup {c}]
             /\ member' = [member EXCEPT ![m] = [counted EXCEPT !.queue = Append(@, c)]]
  <2>1. Carries(m, t) \in BOOLEAN
    BY DEF Carries
  <2>. QED
    BY <1>5, <2>1 DEF Registered
<1>. HIDE DEF counted
<1>6. \E ch \in {Begun(m), counted} :
        \/ member' = [member EXCEPT ![m] = ch]
        \/ member' = [member EXCEPT ![m] = [ch EXCEPT !.queue = Append(@, c)]]
  BY <1>1, <1>4, <1>5
<1>7. /\ DOMAIN member' = Members
      /\ \A x \in Members :
           /\ DOMAIN member'[x] = DOMAIN member[x]
           /\ member'[x].chunks = member[x].chunks
           /\ member'[x].latest = member[x].latest
           /\ member'[x].captured = member[x].captured
           /\ member'[x].generation = IF x = m THEN member[x].generation + 1
                                      ELSE member[x].generation
  BY <1>3, <1>6 DEF Shape, MembersOf
<1>8. \E how \in {"stopped", "served", "checking", "logged"} :
        /\ stage' = [stage EXCEPT ![c] = how]
        /\ how # "logged" => entry' = entry /\ table' = table
        /\ how = "logged" =>
             /\ \E b \in BOOLEAN : entry' = [entry EXCEPT ![c].carried = b]
             /\ table' = [table EXCEPT !.expected = @ \cup {c}]
        /\ how \in UnderWay => passes
  BY <1>1, <1>4, <1>5 DEF UnderWay
<1>9. coming \in Nat \ {0} /\ crowded \subseteq crowded' /\ (passes /\ InFlight(m) # {} => m \in crowded')
  BY <1>1 DEF Shape, Calls
<1>10. \E how \in {"stopped", "served", "checking", "logged"} :
        /\ stage' = [stage EXCEPT ![c] = how]
        /\ how # "logged" => entry' = entry /\ table' = table
        /\ how = "logged" =>
             /\ \E b \in BOOLEAN : entry' = [entry EXCEPT ![c].carried = b]
             /\ table' = [table EXCEPT !.expected = @ \cup {c}]
        /\ how \in UnderWay /\ InFlight(m) # {} => m \in crowded'
  BY <1>8, <1>9
<1>. QED
  BY <1>1, <1>2, <1>7, <1>9, <1>10, Zenon DEF c

(* The lookup of a target sends the call on or back, and leaves what its   *)
(* member has said alone.                                                  *)
LEMMA LookUpStep ==
  ASSUME Shape, NEW c \in DOMAIN calls, To(c) \in Members, LookUp(c)
  PROVE  /\ stage[c] = "checking"
         /\ \E how \in {"redirected", "logged"} :
              /\ stage' = [stage EXCEPT ![c] = how]
              /\ how = "redirected" => entry' = entry /\ table' = table
              /\ how = "logged" =>
                   /\ \E b \in BOOLEAN : entry' = [entry EXCEPT ![c].carried = b]
                   /\ table' = [table EXCEPT !.expected = @ \cup {c}]
         /\ DOMAIN member' = Members
         /\ \A x \in Members :
              /\ DOMAIN member'[x] = DOMAIN member[x]
              /\ member'[x].chunks = member[x].chunks
              /\ member'[x].latest = member[x].latest
              /\ member'[x].captured = member[x].captured
              /\ member'[x].generation = member[x].generation
         /\ UNCHANGED <<calls, coming, patched, mixed, crowded>>
<1>1. /\ stage[c] = "checking" /\ UNCHANGED <<calls, coming, patched, mixed, crowded>>
      /\ \/ Registered(c, To(c), Task(c), member[To(c)])
         \/ Refused(c, To(c), "redirected", member[To(c)])
  BY DEF LookUp
<1>2. Carries(To(c), Task(c)) \in BOOLEAN
  BY DEF Carries
<1>3. CASE Registered(c, To(c), Task(c), member[To(c)])
  <2>1. /\ stage' = [stage EXCEPT ![c] = "logged"]
        /\ \E b \in BOOLEAN : entry' = [entry EXCEPT ![c].carried = b]
        /\ table' = [table EXCEPT !.expected = @ \cup {c}]
        /\ member' = [member EXCEPT ![To(c)] = [member[To(c)] EXCEPT !.queue = Append(@, c)]]
    BY <1>2, <1>3 DEF Registered
  <2>. QED
    BY <1>1, <2>1 DEF Shape, MembersOf
<1>4. CASE Refused(c, To(c), "redirected", member[To(c)])
  <2>1. /\ stage' = [stage EXCEPT ![c] = "redirected"] /\ entry' = entry /\ table' = table
        /\ member' = [member EXCEPT ![To(c)] = member[To(c)]]
    BY <1>4 DEF Refused
  <2>. QED
    BY <1>1, <2>1 DEF Shape, MembersOf
<1>. QED
  BY <1>1, <1>3, <1>4

(* A completed run leaves its text as the last of its member, with the     *)
(* generation of that moment, unless it has no text.                       *)
LEMMA CompletedStep ==
  ASSUME Shape, NEW c \in DOMAIN calls, To(c) \in Members, RunCompleted(c)
  PROVE  LET m == To(c)
             words == member[m].chunks
         IN  /\ stage[c] = "running" /\ stage' = [stage EXCEPT ![c] = "done"]
             /\ UNCHANGED <<calls, coming, patched, mixed, crowded>>
             /\ words = {} => UNCHANGED <<entry, member, table>>
             /\ words # {} =>
                  /\ entry' = [e \in Ids |-> IF e \in Finished(c, m)
                                             THEN [entry[e] EXCEPT !.result = words] ELSE entry[e]]
                  /\ DOMAIN table' = DOMAIN table
                  /\ table'.expected = table.expected
                  /\ table'.claimed = {p \in table.claimed : p[1] # c /\
                       ~(p[2] \in Finished(c, m) /\ p[1] = entry[p[2]].run)}
                  /\ DOMAIN member' = Members
                  /\ \A x \in Members : DOMAIN member'[x] = DOMAIN member[x]
                  /\ \A x \in Members \ {m} : member'[x] = member[x]
                  /\ member'[m].chunks = {} /\ member'[m].latest = words
                  /\ member'[m].captured = member[m].generation
                  /\ member'[m].generation = member[m].generation
<1>. DEFINE m == To(c)
            words == member[m].chunks
<1>1. /\ stage[c] = "running" /\ stage' = [stage EXCEPT ![c] = "done"]
      /\ UNCHANGED <<calls, coming, patched, mixed, crowded>>
      /\ words = {} => UNCHANGED <<entry, member, table>>
  BY DEF RunCompleted
<1>2. ASSUME words # {}
      PROVE  /\ entry' = [e \in Ids |-> IF e \in Finished(c, m)
                                        THEN [entry[e] EXCEPT !.result = words] ELSE entry[e]]
             /\ table' = [table EXCEPT !.claimed =
                  {p \in @ : p[1] # c /\ ~(p[2] \in Finished(c, m) /\ p[1] = entry[p[2]].run)}]
             /\ \E left : member' = [member EXCEPT ![m] = [@ EXCEPT !.chunks = {},
                  !.latest = words, !.captured = member[m].generation, !.queue = left]]
  <2>1. entry' = [e \in Ids |-> IF e \in Finished(c, m)
                               THEN [entry[e] EXCEPT !.result = words] ELSE entry[e]]
    BY <1>2 DEF RunCompleted
  <2>2. table' = [table EXCEPT !.claimed =
          {p \in @ : p[1] # c /\ ~(p[2] \in Finished(c, m) /\ p[1] = entry[p[2]].run)}]
    BY <1>2 DEF RunCompleted
  <2>3. member' = [member EXCEPT ![m] = [@ EXCEPT !.chunks = {},
          !.latest = words, !.captured = member[m].generation,
          !.queue = SelectSeq(@, LAMBDA e : e \notin Finished(c, m))]]
    BY <1>2, Zenon DEF RunCompleted
  <2>. QED
    BY <2>1, <2>2, <2>3
<1>3. ASSUME words # {}
      PROVE  /\ DOMAIN member' = Members
             /\ \A x \in Members : DOMAIN member'[x] = DOMAIN member[x]
             /\ \A x \in Members \ {m} : member'[x] = member[x]
             /\ member'[m].chunks = {} /\ member'[m].latest = words
             /\ member'[m].captured = member[m].generation
             /\ member'[m].generation = member[m].generation
  <2>. PICK left : member' = [member EXCEPT ![m] = [member[m] EXCEPT !.chunks = {},
                     !.latest = words, !.captured = member[m].generation, !.queue = left]]
    BY <1>2, <1>3
  <2>. HIDE DEF words
  <2>1. DOMAIN member = Members /\ m \in Members
        /\ {"queue", "chunks", "latest", "generation", "captured"} \subseteq DOMAIN member[m]
    BY DEF Shape, MembersOf
  <2>. HIDE DEF m
  <2>2. /\ DOMAIN member' = Members
        /\ \A x \in Members \ {m} : member'[x] = member[x]
        /\ member'[m] = [member[m] EXCEPT !.chunks = {},
             !.latest = words, !.captured = member[m].generation, !.queue = left]
    BY <2>1
  <2>. QED
    BY <2>1, <2>2
<1>4. ASSUME words # {}
      PROVE  /\ DOMAIN table' = DOMAIN table
             /\ table'.expected = table.expected
             /\ table'.claimed = {p \in table.claimed : p[1] # c /\
                  ~(p[2] \in Finished(c, m) /\ p[1] = entry[p[2]].run)}
  BY <1>2, <1>4 DEF Shape, Tables
<1>. QED
  BY <1>1, <1>2, <1>3, <1>4

-----------------------------------------------------------------------------
(* The run begins with no call and nothing said.                           *)
LEMMA InitShape == Init => Shape
<1>. SUFFICES ASSUME Init PROVE Shape
  OBVIOUS
<1>1. calls = << >> /\ DOMAIN calls = {}
  BY DEF Init
<1>2. Calls
  BY <1>1, GateAssumption DEF Init, Calls, Ids
<1>3. MembersOf /\ Tables
  BY DEF Init, MembersOf, Tables
<1>. QED
  BY <1>2, <1>3 DEF Shape

(* The types are kept: no call has a place it did not take, and there is   *)
(* room for those still to come.                                           *)
LEMMA NextShape == Shape /\ [Next]_vars => Shape'
<1>. SUFFICES ASSUME Shape, [Next]_vars PROVE Shape'
  OBVIOUS
<1>. USE GateAssumption
<1>1. CASE Forward
  BY <1>1 DEF Forward, Shape, Calls, MembersOf, Tables
<1>2. ASSUME NEW k \in Ids, Reply(k) PROVE Shape'
  BY <1>2 DEF Reply, Shape, Calls, MembersOf, Tables, Ids
<1>3. ASSUME NEW m \in Members, NEW t \in Tasks, Gate(m, t) PROVE Shape'
  <2>. DEFINE c == Len(calls) + 1
  <2>1. /\ c \in Ids /\ coming \in Nat \ {0} /\ coming' = coming - 1
        /\ calls' = Append(calls, [to |-> m, task |-> t])
    BY <1>3, GateStep
  <2>2. PICK how \in {"stopped", "served", "checking", "logged"} :
          /\ stage' = [stage EXCEPT ![c] = how]
          /\ how # "logged" => entry' = entry /\ table' = table
          /\ how = "logged" =>
               /\ \E b \in BOOLEAN : entry' = [entry EXCEPT ![c].carried = b]
               /\ table' = [table EXCEPT !.expected = @ \cup {c}]
    BY <1>3, GateStep
  <2>3. /\ calls' \in Seq([to : Members, task : Tasks]) /\ Len(calls') = c
        /\ coming' \in Nat /\ Len(calls') + coming' <= MaxCalls
    BY <2>1 DEF Shape, Calls
  <2>4. /\ stage' \in [Ids -> UnderWay \cup Over \cup {"unasked"}]
        /\ \A d \in Ids : stage'[d] = "unasked" <=> d > Len(calls')
    BY <2>1, <2>2, <2>3 DEF Shape, Calls, Ids, UnderWay, Over
  <2>. HIDE DEF c
  <2>5. /\ DOMAIN entry' = Ids
        /\ \A d \in Ids : {"result", "run", "carried"} \subseteq DOMAIN entry'[d]
    BY <2>2 DEF Shape, Calls
  <2>6. Tables'
    BY <2>2 DEF Shape, Tables
  <2>7. MembersOf'
    <3>1. /\ DOMAIN member' = Members
          /\ \A x \in Members :
               /\ DOMAIN member'[x] = DOMAIN member[x]
               /\ member'[x].captured = member[x].captured
               /\ member'[x].generation = IF x = m THEN member[x].generation + 1
                                          ELSE member[x].generation
      BY <1>3, GateStep
    <3>. QED
      BY <3>1 DEF Shape, MembersOf
  <2>. QED
    BY <2>3, <2>4, <2>5, <2>6, <2>7 DEF Shape, Calls
<1>4. ASSUME NEW c \in DOMAIN calls, LookUp(c) PROVE Shape'
  <2>1. c \in Ids /\ c <= Len(calls) /\ To(c) \in Members
    BY CallFacts
  <2>2. PICK how \in {"redirected", "logged"} :
          /\ stage' = [stage EXCEPT ![c] = how]
          /\ how = "redirected" => entry' = entry /\ table' = table
          /\ how = "logged" =>
               /\ \E b \in BOOLEAN : entry' = [entry EXCEPT ![c].carried = b]
               /\ table' = [table EXCEPT !.expected = @ \cup {c}]
    BY <1>4, <2>1, LookUpStep
  <2>3. stage[c] = "checking" /\ calls' = calls /\ coming' = coming
    BY <1>4, <2>1, LookUpStep
  <2>4. /\ stage' \in [Ids -> UnderWay \cup Over \cup {"unasked"}]
        /\ \A d \in Ids : stage'[d] = "unasked" <=> d > Len(calls')
    BY <2>1, <2>2, <2>3 DEF Shape, Calls, UnderWay, Over
  <2>5. /\ DOMAIN entry' = Ids
        /\ \A d \in Ids : {"result", "run", "carried"} \subseteq DOMAIN entry'[d]
    BY <2>2 DEF Shape, Calls
  <2>6. Tables'
    BY <2>2 DEF Shape, Tables
  <2>7. MembersOf'
    <3>1. /\ DOMAIN member' = Members
          /\ \A x \in Members :
               /\ DOMAIN member'[x] = DOMAIN member[x]
               /\ member'[x].captured = member[x].captured
               /\ member'[x].generation = member[x].generation
      BY <1>4, <2>1, LookUpStep
    <3>. QED
      BY <3>1 DEF Shape, MembersOf
  <2>. QED
    BY <2>3, <2>4, <2>5, <2>6, <2>7 DEF Shape, Calls
<1>5. ASSUME NEW c \in DOMAIN calls, RunStarted(c) PROVE Shape'
  <2>1. c \in Ids /\ c <= Len(calls) /\ To(c) \in Members
    BY CallFacts
  <2>2. /\ stage[c] = "logged" /\ stage' = [stage EXCEPT ![c] = "running"]
        /\ UNCHANGED <<calls, coming, member>>
        /\ \E S : entry' = [e \in Ids |-> IF e \in S THEN [entry[e] EXCEPT !.run = c] ELSE entry[e]]
        /\ \E X, Y : table' = [expected |-> X, claimed |-> Y]
    BY <1>5 DEF RunStarted
  <2>3. Calls'
    BY <2>1, <2>2 DEF Shape, Calls, UnderWay, Over
  <2>. QED
    BY <2>2, <2>3 DEF Shape, MembersOf, Tables
<1>6. ASSUME NEW c \in DOMAIN calls, NoSuchMember(c) PROVE Shape'
  BY <1>6, CallFacts DEF NoSuchMember, Shape, Calls, MembersOf, Tables, UnderWay, Over
<1>7. ASSUME NEW c \in DOMAIN calls, Works(c) PROVE Shape'
  BY <1>7, CallFacts DEF Works, Shape, Calls, MembersOf, Tables
<1>8. ASSUME NEW c \in DOMAIN calls, RunCompleted(c) PROVE Shape'
  <2>1. c \in Ids /\ c <= Len(calls) /\ To(c) \in Members
    BY CallFacts
  <2>. DEFINE m == To(c)
              words == member[m].chunks
  <2>2. /\ stage[c] = "running" /\ stage' = [stage EXCEPT ![c] = "done"]
        /\ UNCHANGED <<calls, coming>>
        /\ words = {} => UNCHANGED <<entry, member, table>>
        /\ words # {} =>
             /\ \E S : entry' = [e \in Ids |-> IF e \in S
                                        THEN [entry[e] EXCEPT !.result = words] ELSE entry[e]]
             /\ DOMAIN table' = DOMAIN table
             /\ DOMAIN member' = Members
             /\ \A x \in Members : DOMAIN member'[x] = DOMAIN member[x]
             /\ \A x \in Members \ {m} : member'[x] = member[x]
             /\ member'[m].captured = member[m].generation
             /\ member'[m].generation = member[m].generation
    BY <1>8, <2>1, CompletedStep
  <2>. HIDE DEF m, words
  <2>3. Calls'
    BY <2>1, <2>2 DEF Shape, Calls, UnderWay, Over
  <2>4. MembersOf' /\ Tables'
    BY <2>1, <2>2 DEF Shape, MembersOf, Tables, m
  <2>. QED
    BY <2>3, <2>4 DEF Shape
<1>9. CASE BrokenOff
  <2>1. Calls'
    BY <1>9 DEF BrokenOff, Shape, Calls, UnderWay, Over
  <2>. QED
    BY <1>9, <2>1 DEF BrokenOff, Shape, MembersOf, Tables
<1>10. CASE UNCHANGED vars
  BY <1>10 DEF vars, Shape, Calls, MembersOf, Tables
<1>. QED
  BY <1>1, <1>2, <1>3, <1>4, <1>5, <1>6, <1>7, <1>8, <1>9, <1>10 DEF Next
-----------------------------------------------------------------------------
(* What is forwarded.  A member that is not crowded has one call under way *)
(* at most, and its generation began after its last text was captured.     *)
StaleInv ==
  /\ \A m \in Members : member[m].captured <= member[m].generation
  /\ \A m \in Members \ crowded :
       /\ \A c, d \in InFlight(m) : c = d
       /\ InFlight(m) # {} => member[m].generation > member[m].captured

(* A call that goes on, or ends, is not a new one of its member.           *)
LEMMA NotMoreInFlight ==
  ASSUME Shape, NEW c \in DOMAIN calls, stage[c] \in UnderWay, calls' = calls,
         NEW how, stage' = [stage EXCEPT ![c] = how], NEW x
  PROVE  /\ InFlight(x)' \subseteq InFlight(x)
         /\ how \notin UnderWay => c \notin InFlight(x)'
<1>1. c \in Ids /\ stage \in [Ids -> UnderWay \cup Over \cup {"unasked"}]
  BY CallFacts DEF Shape, Calls
<1>2. \A d : To(d)' = To(d)
  BY DEF To
<1>3. \A d \in DOMAIN calls : d \in Ids
  BY CallFacts
<1>. QED
  BY <1>1, <1>2, <1>3 DEF InFlight

(* Every step keeps it: the gate begins a generation with every call, and  *)
(* a run catches up with it when it completes, its member's only one.      *)
LEMMA NextStale == Shape /\ StaleInv /\ [Next]_vars => StaleInv'
<1>. SUFFICES ASSUME Shape, StaleInv, [Next]_vars PROVE StaleInv'
  OBVIOUS
<1>0. \A x \in Members : member[x].generation \in Nat /\ member[x].captured \in Nat
  BY DEF Shape, MembersOf
<1>1. CASE Forward \/ (\E k \in Ids : Reply(k)) \/ UNCHANGED vars
  <2>1. UNCHANGED <<calls, stage, member, crowded>>
    BY <1>1 DEF Forward, Reply, vars
  <2>. QED
    BY <2>1 DEF StaleInv, InFlight, To
<1>2. ASSUME NEW m \in Members, NEW t \in Tasks, Gate(m, t) PROVE StaleInv'
  <2>. PICK c : c = Len(calls) + 1
    OBVIOUS
  <2>1. /\ c \in Ids /\ calls' = Append(calls, [to |-> m, task |-> t])
        /\ crowded \subseteq crowded'
        /\ \A x \in Members :
             /\ member'[x].captured = member[x].captured
             /\ member'[x].generation = IF x = m THEN member[x].generation + 1
                                        ELSE member[x].generation
    BY <1>2, GateStep
  <2>2. PICK how : /\ stage' = [stage EXCEPT ![c] = how]
                   /\ how \in UnderWay /\ InFlight(m) # {} => m \in crowded'
    BY <1>2, GateStep
  <2>3. /\ calls \in Seq([to : Members, task : Tasks]) /\ stage \in [Ids -> UnderWay \cup Over \cup {"unasked"}]
        /\ Len(calls) \in Nat
    BY DEF Shape, Calls
  <2>4. /\ DOMAIN calls' = DOMAIN calls \cup {c} /\ c \notin DOMAIN calls
        /\ \A d \in DOMAIN calls : To(d)' = To(d)
        /\ To(c)' = m
    <3>1. /\ Len(calls') = c /\ calls'[c] = [to |-> m, task |-> t]
          /\ \A d \in 1..Len(calls) : calls'[d] = calls[d]
      BY <2>1, <2>3
    <3>2. DOMAIN calls = 1..Len(calls) /\ DOMAIN calls' = 1..c
      BY <2>1, <2>3
    <3>. QED
      BY <2>3, <3>1, <3>2 DEF To
  <2>5. \A d \in DOMAIN calls : d \in Ids /\ stage'[d] = stage[d]
    BY <2>2, <2>3, <2>4, CallFacts
  <2>6. /\ InFlight(m)' \subseteq InFlight(m) \cup {c}
        /\ c \in InFlight(m)' => how \in UnderWay
        /\ \A x \in Members \ {m} : InFlight(x)' = InFlight(x)
    <3>1. stage'[c] = how
      BY <2>1, <2>2, <2>3
    <3>2. \A x \in Members : InFlight(x)' =
            {d \in DOMAIN calls' : To(d)' = x /\ stage'[d] \in UnderWay}
      BY DEF InFlight
    <3>3. \A x \in Members : InFlight(x) =
            {d \in DOMAIN calls : To(d) = x /\ stage[d] \in UnderWay}
      BY DEF InFlight
    <3>4. \A x \in Members : InFlight(x)' \ {c} = InFlight(x)
      BY <2>4, <2>5, <3>2, <3>3
    <3>5. \A x \in Members : c \in InFlight(x)' => x = m /\ how \in UnderWay
      BY <2>4, <3>1, <3>2
    <3>. QED
      BY <3>4, <3>5
  <2>7. \A x \in Members : member'[x].captured <= member'[x].generation
    BY <1>0, <2>1 DEF StaleInv
  <2>8. ASSUME NEW x \in Members \ crowded'
        PROVE  /\ \A d, e \in InFlight(x)' : d = e
               /\ InFlight(x)' # {} => member'[x].generation > member'[x].captured
    <3>1. CASE x = m
      <4>1. member'[m].generation > member'[m].captured
        BY <1>0, <2>1 DEF StaleInv
      <4>2. \A d, e \in InFlight(m) : d = e
        BY <2>1, <2>8, <3>1 DEF StaleInv
      <4>3. how \in UnderWay => InFlight(m) = {}
        BY <2>2, <2>8, <3>1
      <4>. QED
        BY <3>1, <4>1, <4>2, <4>3, <2>6
    <3>2. CASE x # m
      <4>1. InFlight(x)' = InFlight(x) /\ x \in Members \ crowded
        BY <2>1, <2>6, <2>8, <3>2
      <4>2. member'[x].generation = member[x].generation /\ member'[x].captured = member[x].captured
        BY <2>1, <2>8, <3>2
      <4>. QED
        BY <4>1, <4>2 DEF StaleInv
    <3>. QED
      BY <3>1, <3>2
  <2>. QED
    BY <2>7, <2>8 DEF StaleInv
<1>3. ASSUME NEW c \in DOMAIN calls, LookUp(c) \/ RunStarted(c) \/ NoSuchMember(c) \/ Works(c)
      PROVE  StaleInv'
  <2>1. To(c) \in Members /\ c \in Ids
    BY CallFacts
  <2>2. /\ calls' = calls /\ crowded' = crowded
        /\ \A x \in Members : /\ member'[x].captured = member[x].captured
                              /\ member'[x].generation = member[x].generation
    <3>1. CASE LookUp(c)
      BY <2>1, <3>1, LookUpStep
    <3>2. CASE RunStarted(c) \/ NoSuchMember(c)
      BY <3>2 DEF RunStarted, NoSuchMember
    <3>3. CASE Works(c)
      BY <2>1, <3>3 DEF Works, Shape, MembersOf
    <3>. QED
      BY <1>3, <3>1, <3>2, <3>3
  <2>3. \A x \in Members : InFlight(x)' \subseteq InFlight(x)
    <3>1. CASE Works(c)
      BY <3>1 DEF Works, InFlight, To
    <3>2. CASE ~Works(c)
      <4>1. stage[c] \in UnderWay /\ \E how : stage' = [stage EXCEPT ![c] = how]
        <5>1. CASE LookUp(c)
          BY <2>1, <5>1, LookUpStep DEF UnderWay
        <5>2. CASE RunStarted(c) \/ NoSuchMember(c)
          BY <5>2 DEF RunStarted, NoSuchMember, UnderWay
        <5>. QED
          BY <1>3, <3>2, <5>1, <5>2
      <4>. QED
        BY <2>2, <4>1, NotMoreInFlight
    <3>. QED
      BY <3>1, <3>2
  <2>. QED
    BY <2>2, <2>3 DEF StaleInv
<1>4. ASSUME NEW c \in DOMAIN calls, RunCompleted(c) PROVE StaleInv'
  <2>. PICK m \in Members : m = To(c)
    BY CallFacts
  <2>1. To(c) \in Members /\ c \in Ids
    BY CallFacts
  <2>2. /\ stage[c] = "running" /\ stage' = [stage EXCEPT ![c] = "done"]
        /\ calls' = calls /\ crowded' = crowded
        /\ \/ member' = member
           \/ /\ \A x \in Members \ {m} : member'[x] = member[x]
              /\ member'[m].captured = member[m].generation
              /\ member'[m].generation = member[m].generation
    BY <1>4, <2>1, CompletedStep
  <2>3. c \in InFlight(m)
    BY <2>2 DEF InFlight, UnderWay
  <2>4. \A x \in Members : InFlight(x)' \subseteq InFlight(x) /\ c \notin InFlight(x)'
    <3>1. stage[c] \in UnderWay /\ "done" \notin UnderWay
      BY <2>2 DEF UnderWay
    <3>. QED
      BY <2>2, <3>1, NotMoreInFlight
  <2>5. \A x \in Members : member'[x].captured <= member'[x].generation
    BY <1>0, <2>1, <2>2 DEF StaleInv
  <2>6. m \notin crowded => InFlight(m)' = {}
    BY <2>1, <2>3, <2>4 DEF StaleInv
  <2>7. \A x \in Members \ {m} : member'[x] = member[x]
    BY <2>2
  <2>. QED
    BY <2>1, <2>2, <2>4, <2>5, <2>6, <2>7 DEF StaleInv
<1>5. CASE BrokenOff
  <2>1. UNCHANGED <<calls, member, crowded>> /\ \A d \in Ids : stage'[d] \notin UnderWay
    BY <1>5 DEF BrokenOff, UnderWay
  <2>2. \A d \in DOMAIN calls : d \in Ids
    BY CallFacts
  <2>3. \A x \in Members : InFlight(x)' = {}
    BY <2>1, <2>2 DEF InFlight
  <2>. QED
    BY <2>1, <2>3 DEF StaleInv
<1>. QED
  BY <1>1, <1>2, <1>3, <1>4, <1>5 DEF Next

(* An answer that can be forwarded was captured in the newest generation   *)
(* of its member, so that no question asked since is without its answer.   *)
THEOREM ForwardedNotStale == Spec => []ForwardedIsNotStale
<1>1. Init => Shape /\ StaleInv
  BY InitShape DEF Init, StaleInv, InFlight
<1>2. Shape /\ StaleInv => ForwardedIsNotStale
  BY DEF StaleInv, ForwardedIsNotStale, Forwards, Stale
<1>. QED
  BY <1>1, <1>2, NextShape, NextStale, PTL DEF Spec

-----------------------------------------------------------------------------
(* Whose text is whose.  With the run ids of the gate no run claims the    *)
(* entry of another.                                                       *)
Running(m) == {c \in DOMAIN calls : To(c) = m /\ stage[c] = "running"}

Attributed ==
  patched =>
    /\ \A c \in Ids : stage[c] \in {"unasked", "checking", "logged"} => entry[c].run = NoRun
    /\ \A c \in Ids : stage[c] = "logged" => c \in table.expected
    /\ \A c \in Ids : stage[c] = "running" => <<c, c>> \in table.claimed
    /\ \A p \in table.claimed : p[1] = p[2]

(* The chunks of a member are those of its runs and of those that were cut *)
(* off; a run that is not mixed with another is the only one.              *)
Alone ==
  \A m \in Members :
    /\ member[m].chunks \subseteq Running(m) \cup CutOff(m)
    /\ \A c \in Running(m) \ mixed : Running(m) = {c}

OwnInv == Attributed /\ Alone /\ OwnTextInOwnEntry

(* What has been cut off stays so, and what a run has filed stays as much  *)
(* its own while only entries of other calls are filled.                   *)
LEMMA FiledStays ==
  ASSUME Shape, OwnTextInOwnEntry, patched' = patched, mixed \subseteq mixed',
         \A d \in DOMAIN calls : d \in DOMAIN calls' /\ To(d)' = To(d),
         \A d \in Ids : stage[d] = "cut" => stage'[d] = "cut",
         NEW done, done \subseteq Ids,
         \A d \in Ids \ done : entry'[d].result = entry[d].result
                             /\ (stage'[d] = "done" <=> stage[d] = "done"),
         \A d \in done : stage'[d] = "done",
         patched => \A d \in done \ mixed' : entry'[d].result \ CutOff(To(d))' \in {{d}, {}}
  PROVE  OwnTextInOwnEntry'
<1>. SUFFICES ASSUME patched PROVE OwnTextInOwnEntry'
  BY DEF OwnTextInOwnEntry
<1>1. \A d \in Ids : stage'[d] # "done" => entry'[d].result = {}
  BY DEF OwnTextInOwnEntry
<1>2. ASSUME NEW d \in Ids \ mixed', stage'[d] = "done", d \notin done
      PROVE  entry'[d].result \ CutOff(To(d))' \in {{d}, {}}
  <2>1. stage[d] = "done" /\ entry'[d].result = entry[d].result /\ d \notin mixed
    BY <1>2
  <2>2. entry[d].result \ CutOff(To(d)) \in {{d}, {}}
    BY <2>1 DEF OwnTextInOwnEntry
  <2>3. d \in DOMAIN calls
    BY <2>1 DEF Shape, Calls, Ids
  <2>4. CutOff(To(d)) \subseteq CutOff(To(d))'
    <3>1. \A e \in DOMAIN calls : e \in Ids
      BY CallFacts
    <3>. QED
      BY <2>3, <3>1 DEF CutOff
  <2>5. d \notin CutOff(To(d))'
    BY <1>2 DEF CutOff
  <2>. QED
    BY <2>1, <2>2, <2>4, <2>5
<1>. QED
  BY <1>1, <1>2 DEF OwnTextInOwnEntry

(* Nor does a step that files nothing change that.                        *)
LEMMA NothingFiled ==
  ASSUME Shape, OwnTextInOwnEntry, patched' = patched, mixed \subseteq mixed',
         \A d \in DOMAIN calls : d \in DOMAIN calls' /\ To(d)' = To(d),
         \A d \in Ids : stage[d] = "cut" => stage'[d] = "cut",
         \A d \in Ids : entry'[d].result = entry[d].result
                     /\ (stage'[d] = "done" <=> stage[d] = "done")
  PROVE  OwnTextInOwnEntry'
<1>. DEFINE none == {}
<1>1. none \subseteq Ids /\ \A d : d \notin none
  OBVIOUS
<1>. HIDE DEF none
<1>2. /\ \A d \in Ids \ none : entry'[d].result = entry[d].result
                            /\ (stage'[d] = "done" <=> stage[d] = "done")
      /\ \A d \in none : stage'[d] = "done"
      /\ patched => \A d \in none \ mixed' : entry'[d].result \ CutOff(To(d))' \in {{d}, {}}
  BY <1>1
<1>. QED
  BY <1>1, <1>2, FiledStays

(* A call that is not running and does not start leaves the runs as they   *)
(* were.                                                                   *)
LEMMA SameRuns ==
  ASSUME Shape, NEW c \in DOMAIN calls, stage[c] \notin {"running", "cut"}, calls' = calls,
         NEW how, how \notin {"running", "cut"}, stage' = [stage EXCEPT ![c] = how], NEW x
  PROVE  Running(x)' = Running(x) /\ CutOff(x)' = CutOff(x)
<1>1. c \in Ids /\ stage \in [Ids -> UnderWay \cup Over \cup {"unasked"}]
  BY CallFacts DEF Shape, Calls
<1>2. \A d \in DOMAIN calls : d \in Ids /\ To(d)' = To(d)
  BY CallFacts DEF To
<1>. QED
  BY <1>1, <1>2 DEF Running, CutOff

(* The gate and the lookup: an entry is expected before its run can start. *)
LEMMA EntryIsExpected ==
  ASSUME Shape, Attributed, OwnTextInOwnEntry, NEW c \in Ids,
         stage[c] \in {"unasked", "checking"}, patched' = patched, mixed' = mixed,
         \A d \in DOMAIN calls : d \in DOMAIN calls' /\ To(d)' = To(d),
         NEW how \in {"stopped", "served", "checking", "redirected", "logged"},
         stage' = [stage EXCEPT ![c] = how],
         how # "logged" => entry' = entry /\ table' = table,
         how = "logged" =>
           /\ \E b \in BOOLEAN : entry' = [entry EXCEPT ![c].carried = b]
           /\ table' = [table EXCEPT !.expected = @ \cup {c}]
  PROVE  Attributed' /\ OwnTextInOwnEntry'
<1>1. /\ stage \in [Ids -> UnderWay \cup Over \cup {"unasked"}] /\ DOMAIN entry = Ids
      /\ {"expected", "claimed"} \subseteq DOMAIN table
      /\ \A d \in Ids : {"result", "run", "carried"} \subseteq DOMAIN entry[d]
  BY DEF Shape, Calls, Tables
<1>2. \A d \in Ids : entry'[d].result = entry[d].result /\ entry'[d].run = entry[d].run
  BY <1>1
<1>3. table'.claimed = table.claimed /\ table.expected \subseteq table'.expected
      /\ (how = "logged" => c \in table'.expected)
  BY <1>1
<1>4. stage'[c] = how /\ \A d \in Ids \ {c} : stage'[d] = stage[d]
  BY <1>1
<1>5. Attributed'
  BY <1>2, <1>3, <1>4 DEF Attributed
<1>6. /\ \A d \in Ids : stage[d] = "cut" => stage'[d] = "cut"
      /\ \A d \in Ids : stage'[d] = "done" <=> stage[d] = "done"
  BY <1>4
<1>7. OwnTextInOwnEntry'
  <2>1. mixed \subseteq mixed'
    OBVIOUS
  <2>. QED
    BY <1>2, <1>6, <2>1, NothingFiled
<1>. QED
  BY <1>5, <1>7

(* A run that starts claims the entry the gate has made for it.            *)
LEMMA StartOwn ==
  ASSUME Shape, OwnInv, NEW c \in DOMAIN calls, RunStarted(c)
  PROVE  OwnInv'
<1>. DEFINE claims == {e \in StartedBy(c) : entry[e].run = NoRun}
<1>. PICK m \in Members : m = To(c)
  BY CallFacts
<1>0. c \in Ids /\ \A d \in DOMAIN calls : d \in Ids
  BY CallFacts
<1>1. /\ stage[c] = "logged" /\ stage' = [stage EXCEPT ![c] = "running"]
      /\ entry' = [e \in Ids |-> IF e \in claims THEN [entry[e] EXCEPT !.run = c] ELSE entry[e]]
      /\ table' = [expected |-> IF patched THEN table.expected \ {c} ELSE table.expected,
                   claimed |-> table.claimed \cup ({c} \X claims)]
      /\ UNCHANGED <<calls, member, patched>>
  BY DEF RunStarted
<1>2. mixed' = IF Running(m) = {} THEN mixed ELSE mixed \cup Running(m) \cup {c}
  <2>1. {d \in InFlight(m) : stage[d] = "running"} = Running(m)
    BY DEF InFlight, Running, UnderWay
  <2>. QED
    BY <2>1 DEF RunStarted
<1>3. /\ stage \in [Ids -> UnderWay \cup Over \cup {"unasked"}] /\ DOMAIN entry = Ids
      /\ \A d \in Ids : {"result", "run", "carried"} \subseteq DOMAIN entry[d]
  BY DEF Shape, Calls
<1>4. stage'[c] = "running" /\ \A d \in Ids \ {c} : stage'[d] = stage[d]
  BY <1>0, <1>1, <1>3
<1>5. patched => claims = {c}
  BY <1>0, <1>1 DEF StartedBy, OwnInv, Attributed
<1>. HIDE DEF claims
<1>6. \A d \in Ids : /\ entry'[d].result = entry[d].result
                     /\ d \notin claims => entry'[d].run = entry[d].run
  BY <1>1, <1>3
<1>7. Attributed'
  <2>. SUFFICES ASSUME patched PROVE Attributed'
    BY <1>1 DEF Attributed
  <2>1. table'.expected = table.expected \ {c} /\ table'.claimed = table.claimed \cup {<<c, c>>}
    BY <1>1, <1>5
  <2>2. \A p \in table'.claimed : p[1] = p[2]
    BY <2>1 DEF OwnInv, Attributed
  <2>3. \A d \in Ids : stage'[d] = "running" => <<d, d>> \in table'.claimed
    BY <1>4, <2>1 DEF OwnInv, Attributed
  <2>4. \A d \in Ids : stage'[d] = "logged" => d \in table'.expected
    BY <1>4, <2>1 DEF OwnInv, Attributed
  <2>5. \A d \in Ids : stage'[d] \in {"unasked", "checking", "logged"} => entry'[d].run = NoRun
    BY <1>4, <1>5, <1>6 DEF OwnInv, Attributed
  <2>. QED
    BY <2>2, <2>3, <2>4, <2>5 DEF Attributed
<1>8. Alone'
  <2>1. \A x \in Members :
          /\ Running(x)' = IF x = m THEN Running(x) \cup {c} ELSE Running(x)
          /\ CutOff(x)' = CutOff(x)
    <3>1. \A d \in DOMAIN calls : To(d)' = To(d)
      BY <1>1 DEF To
    <3>. QED
      BY <1>0, <1>1, <1>4, <3>1 DEF Running, CutOff
  <2>2. mixed \subseteq mixed' /\ (Running(m) # {} => Running(m) \cup {c} \subseteq mixed')
    BY <1>2
  <2>3. \A x \in Members : member'[x].chunks = member[x].chunks
    BY <1>1
  <2>. QED
    BY <2>1, <2>2, <2>3 DEF OwnInv, Alone
<1>9. OwnTextInOwnEntry'
  <2>1. mixed \subseteq mixed' /\ patched' = patched
    BY <1>1, <1>2
  <2>2. \A d \in DOMAIN calls : d \in DOMAIN calls' /\ To(d)' = To(d)
    BY <1>1 DEF To
  <2>3. (\A d \in Ids : stage[d] = "cut" => stage'[d] = "cut")
        /\ (\A d \in Ids : stage'[d] = "done" <=> stage[d] = "done")
    BY <1>1, <1>4
  <2>. QED
    BY <1>6, <2>1, <2>2, <2>3, NothingFiled DEF OwnInv
<1>. QED
  BY <1>7, <1>8, <1>9 DEF OwnInv

(* A run that ends finds its own entry by its run id, and what it finds in *)
(* the chunks of its member is its own.                                    *)
LEMMA CompleteOwn ==
  ASSUME Shape, OwnInv, NEW c \in DOMAIN calls, RunCompleted(c)
  PROVE  OwnInv'
<1>. PICK m \in Members : m = To(c)
  BY CallFacts
<1>. DEFINE words == member[m].chunks
            found == Finished(c, m)
<1>0. c \in Ids /\ (\A d \in DOMAIN calls : d \in Ids) /\ To(c) \in Members
  BY CallFacts
<1>1. /\ stage[c] = "running" /\ stage' = [stage EXCEPT ![c] = "done"]
      /\ UNCHANGED <<calls, patched, mixed>>
      /\ words = {} => UNCHANGED <<entry, member, table>>
      /\ words # {} =>
           /\ entry' = [e \in Ids |-> IF e \in found
                                      THEN [entry[e] EXCEPT !.result = words] ELSE entry[e]]
           /\ table'.expected = table.expected
           /\ table'.claimed = {p \in table.claimed : p[1] # c /\
                ~(p[2] \in found /\ p[1] = entry[p[2]].run)}
           /\ \A x \in Members \ {m} : member'[x] = member[x]
           /\ member'[m].chunks = {}
  BY <1>0, CompletedStep
<1>2. /\ stage \in [Ids -> UnderWay \cup Over \cup {"unasked"}] /\ DOMAIN entry = Ids
      /\ \A d \in Ids : {"result", "run", "carried"} \subseteq DOMAIN entry[d]
  BY DEF Shape, Calls
<1>3. stage'[c] = "done" /\ \A d \in Ids \ {c} : stage'[d] = stage[d]
  BY <1>0, <1>1, <1>2
<1>4. patched => found = {c}
  <2>. DEFINE own == {q \in table.claimed : q[1] = c}
              mine == {p[2] : p \in own}
  <2>1. patched => <<c, c>> \in own /\ \A p \in own : p[2] = c
    BY <1>0, <1>1 DEF OwnInv, Attributed
  <2>2. patched => mine = {c}
    BY <2>1
  <2>. QED
    BY <2>2 DEF Finished
<1>5. c \in Running(m)
  BY <1>1 DEF Running
<1>. HIDE DEF found
<1>6. \A d \in Ids \ found : entry'[d] = entry[d]
  BY <1>1
<1>7. c \in found => entry'[c].result = words \/ (words = {} /\ entry'[c].result = entry[c].result)
  BY <1>0, <1>1, <1>2
<1>8. Attributed'
  <2>. SUFFICES ASSUME patched PROVE Attributed'
    BY <1>1 DEF Attributed
  <2>1. \A d \in Ids \ {c} : entry'[d] = entry[d]
    BY <1>4, <1>6
  <2>2. /\ table'.expected = table.expected /\ table'.claimed \subseteq table.claimed
        /\ \A d \in Ids \ {c} : <<d, d>> \in table.claimed => <<d, d>> \in table'.claimed
    BY <1>1, <1>4
  <2>. QED
    BY <1>3, <2>1, <2>2 DEF OwnInv, Attributed
<1>9. Alone'
  <2>1. \A x \in Members : Running(x)' = Running(x) \ {c} /\ CutOff(x)' = CutOff(x)
    <3>1. \A d \in DOMAIN calls : To(d)' = To(d)
      BY <1>1 DEF To
    <3>. QED
      BY <1>0, <1>1, <1>3, <3>1 DEF Running, CutOff
  <2>2. member'[m].chunks = {} /\ \A x \in Members \ {m} : member'[x] = member[x]
    BY <1>1
  <2>3. \A x \in Members \ {m} : c \notin Running(x)
    BY DEF Running
  <2>4. mixed' = mixed
    BY <1>1
  <2>. QED
    BY <2>1, <2>2, <2>3, <2>4, <1>5 DEF OwnInv, Alone
<1>10. OwnTextInOwnEntry'
  <2>1. /\ patched' = patched /\ mixed \subseteq mixed' /\ mixed' = mixed
        /\ \A d \in DOMAIN calls : d \in DOMAIN calls' /\ To(d)' = To(d)
    BY <1>1 DEF To
  <2>2. \A d \in Ids : stage[d] = "cut" => stage'[d] = "cut"
    BY <1>1, <1>3
  <2>3. CASE patched
    <3>1. c \notin mixed => words \subseteq {c} \cup CutOff(m)
      BY <1>5 DEF OwnInv, Alone
    <3>2. entry[c].result = {}
      BY <1>0, <1>1, <2>3 DEF OwnInv, OwnTextInOwnEntry
    <3>3. CutOff(To(c))' = CutOff(m) /\ c \notin CutOff(m)
      BY <1>0, <1>1, <1>3, <2>1 DEF CutOff
    <3>4. entry'[c].result = words \/ entry'[c].result = {}
      BY <1>4, <1>7, <2>3, <3>2
    <3>5. c \notin mixed => entry'[c].result \ CutOff(To(c))' \in {{c}, {}}
      BY <3>1, <3>3, <3>4
    <3>6. \A d \in Ids \ {c} : entry'[d].result = entry[d].result
                             /\ (stage'[d] = "done" <=> stage[d] = "done")
      BY <1>3, <1>4, <1>6, <2>3
    <3>7. {c} \subseteq Ids /\ (\A d \in {c} : stage'[d] = "done")
          /\ (patched => \A d \in {c} \ mixed' : entry'[d].result \ CutOff(To(d))' \in {{d}, {}})
      BY <1>0, <1>3, <2>1, <3>5
    <3>. QED
      BY <2>1, <2>2, <3>6, <3>7, FiledStays DEF OwnInv
  <2>4. CASE ~patched
    BY <2>1, <2>4 DEF OwnTextInOwnEntry
  <2>. QED
    BY <2>3, <2>4
<1>. QED
  BY <1>8, <1>9, <1>10 DEF OwnInv

(* When the stream is closed the runs become runs that were cut off, and   *)
(* what they have said stays in the chunks.                                *)
LEMMA CutOwn ==
  ASSUME Shape, OwnInv, BrokenOff
  PROVE  OwnInv'
<1>1. /\ stage' = [c \in Ids |-> IF stage[c] \in UnderWay THEN "cut" ELSE stage[c]]
      /\ UNCHANGED <<calls, entry, member, table, patched, mixed>>
  BY DEF BrokenOff
<1>2. \A d \in DOMAIN calls : d \in Ids /\ d \in DOMAIN calls' /\ To(d)' = To(d)
  BY <1>1, CallFacts DEF To
<1>3. \A d \in Ids : /\ stage[d] = "cut" => stage'[d] = "cut"
                     /\ stage'[d] = "done" <=> stage[d] = "done"
                     /\ stage'[d] \notin UnderWay
                     /\ stage'[d] = "unasked" => stage[d] = "unasked"
                     /\ stage[d] = "running" => stage'[d] = "cut"
  BY <1>1 DEF UnderWay
<1>4. Attributed'
  BY <1>1, <1>3 DEF OwnInv, Attributed, UnderWay
<1>5. Alone'
  <2>1. \A x \in Members : Running(x)' = {} /\ Running(x) \cup CutOff(x) \subseteq CutOff(x)'
    BY <1>1, <1>2, <1>3 DEF Running, CutOff, UnderWay
  <2>. QED
    BY <1>1, <2>1 DEF OwnInv, Alone
<1>6. OwnTextInOwnEntry'
  <2>1. patched' = patched /\ mixed \subseteq mixed'
        /\ \A d \in Ids : entry'[d].result = entry[d].result
    BY <1>1
  <2>. QED
    BY <1>2, <1>3, <2>1, NothingFiled DEF OwnInv
<1>. QED
  BY <1>4, <1>5, <1>6 DEF OwnInv

(* Every step keeps what is known of the texts.                            *)
LEMMA NextOwn == Shape /\ OwnInv /\ [Next]_vars => OwnInv'
<1>. SUFFICES ASSUME Shape, OwnInv, [Next]_vars PROVE OwnInv'
  OBVIOUS
<1>1. CASE Forward \/ (\E k \in Ids : Reply(k)) \/ UNCHANGED vars
  <2>1. UNCHANGED <<calls, stage, entry, member, table, patched, mixed>>
    BY <1>1 DEF Forward, Reply, vars
  <2>. QED
    BY <2>1 DEF OwnInv, Attributed, Alone, OwnTextInOwnEntry, Running, CutOff, To
<1>2. ASSUME NEW m \in Members, NEW t \in Tasks, Gate(m, t) PROVE OwnInv'
  <2>. PICK c : c = Len(calls) + 1
    OBVIOUS
  <2>1. /\ c \in Ids /\ calls' = Append(calls, [to |-> m, task |-> t])
        /\ \A x \in Members : member'[x].chunks = member[x].chunks
    BY <1>2, GateStep
  <2>2. patched' = patched /\ mixed' = mixed
    BY <1>2 DEF Gate
  <2>3. PICK how \in {"stopped", "served", "checking", "logged"} :
          /\ stage' = [stage EXCEPT ![c] = how]
          /\ how # "logged" => entry' = entry /\ table' = table
          /\ how = "logged" =>
               /\ \E b \in BOOLEAN : entry' = [entry EXCEPT ![c].carried = b]
               /\ table' = [table EXCEPT !.expected = @ \cup {c}]
    BY <1>2, GateStep
  <2>4. /\ calls \in Seq([to : Members, task : Tasks]) /\ Len(calls) \in Nat
        /\ stage \in [Ids -> UnderWay \cup Over \cup {"unasked"}] /\ stage[c] = "unasked"
    BY <2>1 DEF Shape, Calls
  <2>5. Attributed' /\ OwnTextInOwnEntry'
    <3>1. \A d \in DOMAIN calls : d \in DOMAIN calls' /\ To(d)' = To(d)
      BY <2>1, <2>4 DEF To
    <3>. QED
      BY <2>1, <2>2, <2>3, <2>4, <3>1, EntryIsExpected DEF OwnInv
  <2>6. Alone'
    <3>1. /\ DOMAIN calls' = DOMAIN calls \cup {c} /\ c \notin DOMAIN calls
          /\ \A d \in DOMAIN calls : calls'[d] = calls[d]
      BY <2>1, <2>4
    <3>2. \A d \in DOMAIN calls : d \in Ids /\ To(d)' = To(d)
      BY <3>1, CallFacts DEF To
    <3>3. stage'[c] \notin {"running", "cut"} /\ \A d \in DOMAIN calls : stage'[d] = stage[d]
      BY <2>1, <2>3, <2>4, <3>1, <3>2
    <3>4. \A x \in Members : Running(x)' = Running(x) /\ CutOff(x)' = CutOff(x)
      BY <3>1, <3>2, <3>3 DEF Running, CutOff
    <3>. QED
      BY <2>1, <2>2, <3>4 DEF OwnInv, Alone
  <2>. QED
    BY <2>5, <2>6 DEF OwnInv
<1>3. ASSUME NEW c \in DOMAIN calls, LookUp(c) PROVE OwnInv'
  <2>1. To(c) \in Members /\ c \in Ids
    BY CallFacts
  <2>2. PICK how \in {"redirected", "logged"} :
          /\ stage' = [stage EXCEPT ![c] = how]
          /\ how = "redirected" => entry' = entry /\ table' = table
          /\ how = "logged" =>
               /\ \E b \in BOOLEAN : entry' = [entry EXCEPT ![c].carried = b]
               /\ table' = [table EXCEPT !.expected = @ \cup {c}]
    BY <1>3, <2>1, LookUpStep
  <2>3. /\ stage[c] = "checking" /\ UNCHANGED <<calls, patched, mixed>>
        /\ \A x \in Members : member'[x].chunks = member[x].chunks
    BY <1>3, <2>1, LookUpStep
  <2>4. Attributed' /\ OwnTextInOwnEntry'
    <3>1. \A d \in DOMAIN calls : d \in DOMAIN calls' /\ To(d)' = To(d)
      BY <2>3 DEF To
    <3>. QED
      BY <2>1, <2>2, <2>3, <3>1, EntryIsExpected DEF OwnInv
  <2>5. \A x \in Members : Running(x)' = Running(x) /\ CutOff(x)' = CutOff(x)
    BY <2>2, <2>3, SameRuns
  <2>6. Alone'
    BY <2>3, <2>5 DEF OwnInv, Alone
  <2>. QED
    BY <2>4, <2>6 DEF OwnInv
<1>4. ASSUME NEW c \in DOMAIN calls, NoSuchMember(c) PROVE OwnInv'
  <2>1. /\ stage[c] = "logged" /\ stage' = [stage EXCEPT ![c] = "lost"]
        /\ UNCHANGED <<calls, entry, member, table, patched, mixed>>
    BY <1>4 DEF NoSuchMember
  <2>2. c \in Ids /\ stage \in [Ids -> UnderWay \cup Over \cup {"unasked"}]
    BY CallFacts DEF Shape, Calls
  <2>3. \A x \in Members : Running(x)' = Running(x) /\ CutOff(x)' = CutOff(x)
    BY <2>1, SameRuns
  <2>4. stage'[c] = "lost" /\ \A d \in Ids \ {c} : stage'[d] = stage[d]
    BY <2>1, <2>2
  <2>5. Attributed' /\ Alone'
    BY <2>1, <2>3, <2>4 DEF OwnInv, Attributed, Alone
  <2>6. OwnTextInOwnEntry'
    <3>1. patched' = patched /\ mixed \subseteq mixed'
          /\ \A d \in DOMAIN calls : d \in DOMAIN calls' /\ To(d)' = To(d)
      BY <2>1 DEF To
    <3>2. \A d \in Ids : /\ stage[d] = "cut" => stage'[d] = "cut"
                         /\ stage'[d] = "done" <=> stage[d] = "done"
                         /\ entry'[d].result = entry[d].result
      BY <2>1, <2>4
    <3>. QED
      BY <3>1, <3>2, NothingFiled DEF OwnInv
  <2>. QED
    BY <2>5, <2>6 DEF OwnInv
<1>5. ASSUME NEW c \in DOMAIN calls, RunStarted(c) PROVE OwnInv'
  BY <1>5, StartOwn
<1>6. ASSUME NEW c \in DOMAIN calls, Works(c) PROVE OwnInv'
  <2>. PICK m \in Members : m = To(c)
    BY CallFacts
  <2>1. /\ stage[c] = "running" /\ member' = [member EXCEPT ![m].chunks = @ \cup {c}]
        /\ UNCHANGED <<calls, stage, entry, table, patched, mixed>>
    BY <1>6 DEF Works
  <2>2. /\ member'[m].chunks = member[m].chunks \cup {c}
        /\ \A x \in Members \ {m} : member'[x] = member[x]
    BY <2>1 DEF Shape, MembersOf
  <2>3. \A x \in Members : Running(x)' = Running(x) /\ CutOff(x)' = CutOff(x)
    BY <2>1 DEF Running, CutOff, To
  <2>4. c \in Running(m)
    BY <2>1 DEF Running
  <2>5. Alone'
    BY <2>1, <2>2, <2>3, <2>4 DEF OwnInv, Alone
  <2>. QED
    BY <2>1, <2>5 DEF OwnInv, Attributed, OwnTextInOwnEntry, CutOff, To
<1>7. ASSUME NEW c \in DOMAIN calls, RunCompleted(c) PROVE OwnInv'
  BY <1>7, CompleteOwn
<1>8. CASE BrokenOff
  BY <1>8, CutOwn
<1>. QED
  BY <1>1, <1>2, <1>3, <1>4, <1>5, <1>6, <1>7, <1>8 DEF Next

(* A run that had its member for itself leaves its own text in its own     *)
(* entry, which is what the next call that asks the same is given, beside  *)
(* what was left of runs the stream was closed on; the entry of a call     *)
(* that never finished stays empty.                                        *)
THEOREM OwnTextFiled == Spec => []OwnTextInOwnEntry
<1>1. Init => Shape /\ OwnInv
  <2>. SUFFICES ASSUME Init PROVE Shape /\ OwnInv
    OBVIOUS
  <2>1. Shape
    BY InitShape
  <2>2. Attributed
    BY DEF Init, Attributed
  <2>3. Alone
    BY DEF Init, Alone, Running
  <2>. QED
    BY <2>1, <2>2, <2>3 DEF Init, OwnInv, OwnTextInOwnEntry
<1>2. Shape /\ OwnInv => OwnTextInOwnEntry
  BY DEF OwnInv
<1>. QED
  BY <1>1, <1>2, NextShape, NextOwn, PTL DEF Spec

-----------------------------------------------------------------------------
(* The reads of the members                                                *)

(* What the variables are made of.                                         *)
AgentType ==
  [streak : 0..StubLimit, chars : Nat, here : Nat, refusals : 0..(MaxRefusals + 1),
   silent : BOOLEAN, known : BOOLEAN, counted : 0..Threshold, fired : BOOLEAN, failing : 0..MaxFailures,
   fetched : [{"batch", "recall"} -> Nat], failed : SUBSET Keys]
RunType ==
  [of : Readers, at : {"on", "over"}, todo : 0..MaxBatch, used : 0..ToolLimit,
   has : SUBSET Keys, floor : [Keys -> Nat], row : Nat, unseen : BOOLEAN, refused : BOOLEAN,
   misled : BOOLEAN, fresh : BOOLEAN, plain : BOOLEAN]
FlightType ==
  [key : Keys, nth : Nat, in : 0..MaxAsked, count : 0..Threshold, since : Nat]

(* The assumptions on the constants, as they are used below.               *)
LEMMA Limits ==
  /\ IsFiniteSet(Readers) /\ Cardinality(Readers) \in Nat
  /\ Kind \in [Keys -> {"file", "batch", "recall"}] /\ SizeOf \in [Keys -> Nat]
  /\ Budget \in Nat /\ Ceiling \in Nat /\ Cap \in Nat /\ MaxRefusals \in Nat /\ MaxFailures \in Nat
  /\ StubLimit \in Nat \ {0} /\ ToolLimit \in Nat /\ Reserve \in Nat /\ MaxBatch \in Nat
  /\ MaxAsked \in Nat /\ MaxVersion \in Nat \ {0} /\ Threshold \in Nat \ {0}
<1>1. Threshold \in Nat \ {0}
  BY ReadCacheAssumption DEF Threshold, Larger
<1>2. Cardinality(Readers) \in Nat
  BY ReadCacheAssumption, FS_CardinalityType
<1>. QED
  BY <1>1, <1>2, ReadCacheAssumption

(* A counter that stops at its last value.                                 *)
LEMMA UpIs ==
  ASSUME NEW last \in Nat, NEW x \in 0..last
  PROVE  Up(x, last) = (IF x < last THEN x + 1 ELSE last) /\ Up(x, last) \in 0..last
  BY DEF Up

(* A stub counts, and with the last of them the tools are taken away.      *)
LEMMA BumpedIs ==
  ASSUME NEW a \in AgentType
  PROVE  /\ Bumped(a) \in AgentType
         /\ Bumped(a).streak = IF a.streak < StubLimit THEN a.streak + 1 ELSE StubLimit
         /\ (Bumped(a).silent <=> a.silent \/ a.streak + 1 >= StubLimit)
         /\ Bumped(a).chars = a.chars /\ Bumped(a).here = a.here /\ Bumped(a).refusals = a.refusals
         /\ Bumped(a).counted = a.counted /\ Bumped(a).fired = a.fired /\ Bumped(a).failed = a.failed
<1>1. a.streak \in 0..StubLimit /\ StubLimit \in Nat
  BY Limits DEF AgentType
<1>2. Up(a.streak, StubLimit) = (IF a.streak < StubLimit THEN a.streak + 1 ELSE StubLimit)
      /\ Up(a.streak, StubLimit) \in 0..StubLimit
  BY <1>1, UpIs
<1>. QED
  BY <1>1, <1>2 DEF Bumped, AgentType

(* The guard fires at its threshold, once.                                 *)
LEMMA GuardedIs ==
  ASSUME NEW a \in AgentType, NEW n \in 0..Threshold
  PROVE  /\ Guarded(a, n) \in AgentType
         /\ (Guarded(a, n).fired <=> a.fired \/ n >= Threshold)
         /\ (Guarded(a, n).silent <=> a.silent \/ (~a.fired /\ n >= Threshold))
         /\ Guarded(a, n).streak = a.streak /\ Guarded(a, n).refusals = a.refusals
         /\ Guarded(a, n).chars = a.chars /\ Guarded(a, n).here = a.here
         /\ Guarded(a, n).counted = a.counted /\ Guarded(a, n).failed = a.failed
         /\ Guarded(a, n).fetched = a.fetched
  BY DEF Guarded, AgentType

(* A read that is not in the cache is refused for a reason.                *)
LEMMA TurnedAwayIs ==
  ASSUME NEW a \in AgentType, NEW why \in {"budget", "capped", "ceiling"}
  PROVE  /\ TurnedAway(a, why) \in AgentType
         /\ a.silent => TurnedAway(a, why).silent
         /\ why = "budget" => TurnedAway(a, why).silent
         /\ why = "capped" => TurnedAway(a, why) = a
         /\ why = "ceiling" => 
              \/ a.refusals < MaxRefusals /\ TurnedAway(a, why).refusals = a.refusals + 1
                 /\ TurnedAway(a, why).streak = a.streak
              \/ a.refusals >= MaxRefusals /\ TurnedAway(a, why).refusals = MaxRefusals + 1
                 /\ TurnedAway(a, why).streak = Bumped(a).streak
                 /\ (TurnedAway(a, why).silent <=> Bumped(a).silent)
         /\ why # "ceiling" => TurnedAway(a, why).refusals = a.refusals /\ TurnedAway(a, why).streak = a.streak
         /\ TurnedAway(a, why).chars = a.chars /\ TurnedAway(a, why).here = a.here
         /\ TurnedAway(a, why).counted = a.counted /\ TurnedAway(a, why).fired = a.fired
         /\ TurnedAway(a, why).failed = a.failed
<1>. DEFINE b == [a EXCEPT !.refusals = Up(@, MaxRefusals + 1)]
<1>1. Up(a.refusals, MaxRefusals + 1) = (IF a.refusals < MaxRefusals + 1 THEN a.refusals + 1 ELSE MaxRefusals + 1)
      /\ Up(a.refusals, MaxRefusals + 1) \in 0..(MaxRefusals + 1) /\ a.refusals \in 0..(MaxRefusals + 1)
  BY UpIs, Limits DEF AgentType
<1>2. b \in AgentType /\ b.refusals = Up(a.refusals, MaxRefusals + 1)
      /\ b.streak = a.streak /\ b.silent = a.silent /\ b.chars = a.chars /\ b.here = a.here
      /\ b.counted = a.counted /\ b.fired = a.fired /\ b.failed = a.failed
  BY <1>1 DEF AgentType
<1>3. CASE why = "ceiling"
  <2>1. TurnedAway(a, why) = IF b.refusals > MaxRefusals THEN Bumped(b) ELSE b
    BY <1>3 DEF TurnedAway
  <2>. HIDE DEF b
  <2>2. Bumped(a).streak = Bumped(b).streak /\ (Bumped(a).silent <=> Bumped(b).silent)
    <3>1. /\ Bumped(a).streak = IF a.streak < StubLimit THEN a.streak + 1 ELSE StubLimit
          /\ (Bumped(a).silent <=> a.silent \/ a.streak + 1 >= StubLimit)
      BY BumpedIs
    <3>2. /\ Bumped(b).streak = IF b.streak < StubLimit THEN b.streak + 1 ELSE StubLimit
          /\ (Bumped(b).silent <=> b.silent \/ b.streak + 1 >= StubLimit)
      BY <1>2, BumpedIs
    <3>. QED
      BY <1>2, <3>1, <3>2
  <2>3. CASE b.refusals > MaxRefusals
    <3>1. TurnedAway(a, why) = Bumped(b)
      BY <2>1, <2>3
    <3>2. a.refusals >= MaxRefusals /\ b.refusals = MaxRefusals + 1
      BY <1>1, <1>2, <2>3, Limits
    <3>. QED
      BY <1>2, <1>3, <2>2, <3>1, <3>2, BumpedIs
  <2>4. CASE ~(b.refusals > MaxRefusals)
    <3>1. TurnedAway(a, why) = b
      BY <2>1, <2>4
    <3>2. a.refusals < MaxRefusals /\ b.refusals = a.refusals + 1
      BY <1>1, <1>2, <2>4, Limits
    <3>. QED
      BY <1>2, <1>3, <3>1, <3>2
  <2>. QED
    BY <2>3, <2>4
<1>4. CASE why = "budget"
  BY <1>4 DEF TurnedAway, AgentType
<1>5. CASE why = "capped"
  BY <1>5 DEF TurnedAway
<1>. QED
  BY <1>3, <1>4, <1>5

(* What a read costs.                                                      *)
LEMMA ChargedIs ==
  ASSUME NEW a \in AgentType, NEW k \in Keys
  PROVE  /\ Charged(a, k) \in AgentType
         /\ Charged(a, k).chars = a.chars + SizeOf[k] /\ Charged(a, k).here = a.here + SizeOf[k]
         /\ Charged(a, k).streak = a.streak /\ Charged(a, k).refusals = a.refusals
         /\ Charged(a, k).silent = a.silent /\ Charged(a, k).counted = a.counted
         /\ Charged(a, k).fired = a.fired /\ Charged(a, k).failed = a.failed
<1>1. SizeOf[k] \in Nat /\ a.fetched \in [{"batch", "recall"} -> Nat]
  BY Limits DEF AgentType
<1>2. [x \in DOMAIN a.fetched |-> IF x = Kind[k] THEN a.fetched[x] + 1 ELSE a.fetched[x]]
        \in [{"batch", "recall"} -> Nat]
  BY <1>1
<1>. DEFINE fetched == [x \in DOMAIN a.fetched |-> IF x = Kind[k] THEN a.fetched[x] + 1 ELSE a.fetched[x]]
<1>3. Charged(a, k) = [a EXCEPT !.chars = a.chars + SizeOf[k], !.here = a.here + SizeOf[k], !.fetched = fetched]
  BY DEF Charged
<1>. HIDE DEF fetched
<1>4. fetched \in [{"batch", "recall"} -> Nat]
  BY <1>2 DEF fetched
<1>5. a.chars + SizeOf[k] \in Nat /\ a.here + SizeOf[k] \in Nat
  BY <1>1 DEF AgentType
<1>. DEFINE c == [a EXCEPT !.chars = a.chars + SizeOf[k], !.here = a.here + SizeOf[k]]
<1>7. c \in AgentType /\ Charged(a, k) = [c EXCEPT !.fetched = fetched]
  BY <1>3, <1>5 DEF AgentType
<1>6. Charged(a, k) \in AgentType
  BY <1>4, <1>7 DEF AgentType
<1>. QED
  BY <1>3, <1>6 DEF AgentType

-----------------------------------------------------------------------------
(* What a run has under way, and that a member that is not shared has one  *)
(* run at a time.                                                          *)
Smaller(x, y) == IF x < y THEN x ELSE y

ReadTypes ==
  /\ disk \in [Keys -> 1..MaxVersion] /\ cache \in [Keys -> Nat]
  /\ begun \in [own : [Readers -> 0..MaxAsked], all : 0..MaxAsked]
  /\ serves \in [Readers \X (0..MaxAsked) \X Keys -> Nat]
  /\ agent \in [Readers -> AgentType] /\ run \in Seq(RunType)
  /\ flying \in [Runs -> SUBSET FlightType] /\ extra \in {0, 1} /\ asked \in 0..MaxAsked
Bounds ==
  /\ \A k \in Keys : cache[k] <= disk[k]
  /\ \A m \in Readers : begun.own[m] <= asked /\ agent[m].here <= agent[m].chars
  /\ begun.all <= asked
  /\ Len(run) <= asked * Cardinality(Readers)
Sound(r) ==
  /\ \A k \in Keys : run[r].floor[k] <= disk[k]
  /\ IsFiniteSet(flying[r]) /\ run[r].todo + Cardinality(flying[r]) <= MaxBatch
  /\ run[r].at = "on" => run[r].todo + Cardinality(flying[r]) <= run[r].used
  /\ run[r].at = "over" => run[r].todo = 0 /\ flying[r] = {}
  /\ \A x \in flying[r] : x.since \in 1..disk[x.key] /\ x.in <= Generation(Of(r))
Single ==
  /\ \A r, s \in Active : r # s /\ Of(r) = Of(s) => ~run[r].plain
  /\ \A r \in Runs \ DOMAIN run : flying[r] = {}

Core == ReadTypes /\ Bounds /\ (\A r \in DOMAIN run : Sound(r)) /\ Single

(* A step of one run: it writes its own record, the agent of its member    *)
(* and its own calls.                                                      *)
OneRun(r, new, a, air) ==
  /\ r \in Active /\ new \in RunType /\ a \in AgentType /\ air \subseteq FlightType
  /\ new.of = Of(r) /\ new.fresh = run[r].fresh /\ (new.plain => run[r].plain)
  /\ run' = [run EXCEPT ![r] = new] /\ agent' = [agent EXCEPT ![Of(r)] = a]
  /\ flying' = [flying EXCEPT ![r] = air] /\ UNCHANGED <<disk, begun, extra, asked>>

(* A product is no smaller when a factor is not.                           *)
LEMMA Products ==
  ASSUME NEW x \in Nat, NEW y \in Nat, NEW z \in Nat
  PROVE  /\ x * z \in Nat /\ (x + 1) * z = x * z + z
         /\ x <= y => x * z <= y * z
<1>1. x * z \in Nat /\ (x + 1) * z = x * z + z
  BY SMT
<1>2. ASSUME x <= y PROVE x * z <= y * z
  <2>1. PICK d \in Nat : y = x + d
    BY <1>2
  <2>2. y * z = x * z + d * z /\ d * z \in Nat /\ x * z \in Nat
    BY <2>1
  <2>. QED
    BY <2>2
<1>. QED
  BY <1>1, <1>2

(* Every run has its place for calls, and its member.                      *)
LEMMA RunIs ==
  ASSUME ReadTypes, Bounds, NEW r \in DOMAIN run
  PROVE  /\ r \in 1..Len(run) /\ r \in Runs /\ run[r] \in RunType /\ Of(r) \in Readers
         /\ agent[Of(r)] \in AgentType /\ flying[r] \subseteq FlightType
         /\ Generation(Of(r)) \in 0..MaxAsked /\ Generation(Of(r)) <= asked
<1>1. r \in 1..Len(run) /\ Len(run) \in Nat /\ run[r] \in RunType
  BY ElementOfSeq, LenProperties DEF ReadTypes
<1>2. r \in Runs
  <2>1. asked * Cardinality(Readers) <= MaxAsked * Cardinality(Readers)
        /\ asked * Cardinality(Readers) \in Nat /\ MaxAsked * Cardinality(Readers) \in Nat
    BY Limits, Products DEF ReadTypes
  <2>2. Len(run) <= asked * Cardinality(Readers)
    BY DEF Bounds
  <2>3. r <= MaxAsked * Cardinality(Readers)
    BY <1>1, <2>1, <2>2
  <2>. QED
    BY <1>1, <2>1, <2>3 DEF Runs
<1>3. Of(r) \in Readers
  BY <1>1 DEF Of, RunType
<1>4. agent[Of(r)] \in AgentType /\ flying[r] \subseteq FlightType
  BY <1>2, <1>3 DEF ReadTypes
<1>5. Generation(Of(r)) \in 0..MaxAsked /\ Generation(Of(r)) <= asked
  BY <1>3 DEF Generation, Larger, ReadTypes, Bounds
<1>. QED
  BY <1>1, <1>2, <1>3, <1>4, <1>5

(* What such a step leaves alone.                                          *)
LEMMA OneRunIs ==
  ASSUME Core, NEW r, NEW new, NEW a, NEW air, OneRun(r, new, a, air)
  PROVE  /\ r \in DOMAIN run /\ r \in Runs /\ Of(r) \in Readers /\ run' \in Seq(RunType)
         /\ DOMAIN run' = DOMAIN run /\ Len(run') = Len(run) /\ DOMAIN run = 1..Len(run) /\ Len(run) \in Nat
         /\ \A s \in DOMAIN run : run'[s] = (IF s = r THEN new ELSE run[s]) /\ run'[s].of = Of(s)
         /\ agent' \in [Readers -> AgentType]
         /\ \A m \in Readers : agent'[m] = IF m = Of(r) THEN a ELSE agent[m]
         /\ flying' \in [Runs -> SUBSET FlightType]
         /\ \A s \in Runs : flying'[s] = IF s = r THEN air ELSE flying[s]
         /\ Active' = {s \in DOMAIN run : (s = r /\ new.at = "on") \/ (s # r /\ s \in Active)}
         /\ \A s \in Active : s # r /\ Of(s) = Of(r) => ~run[s].plain
<1>. USE DEF Core
<1>1. r \in DOMAIN run /\ r \in Runs /\ Of(r) \in Readers /\ r \in Active
  BY RunIs DEF OneRun, Active
<1>2. DOMAIN run = 1..Len(run) /\ Len(run) \in Nat /\ run \in [1..Len(run) -> RunType]
  BY LenProperties DEF ReadTypes
<1>3. run' \in [1..Len(run) -> RunType] /\ \A s \in DOMAIN run : run'[s] = IF s = r THEN new ELSE run[s]
  BY <1>1, <1>2 DEF OneRun
<1>4. run' \in Seq(RunType) /\ Len(run') = Len(run) /\ DOMAIN run' = DOMAIN run
  <2>1. run' \in Seq(RunType) /\ DOMAIN run' = 1..Len(run)
    BY <1>2, <1>3, SeqDef
  <2>. QED
    BY <1>2, <2>1, LenProperties
<1>5. \A s \in DOMAIN run : run'[s].of = Of(s)
  BY <1>3 DEF Of, OneRun
<1>6. agent' \in [Readers -> AgentType] /\ \A m \in Readers : agent'[m] = IF m = Of(r) THEN a ELSE agent[m]
  BY <1>1 DEF OneRun, ReadTypes
<1>7. flying' \in [Runs -> SUBSET FlightType] /\ \A s \in Runs : flying'[s] = IF s = r THEN air ELSE flying[s]
  BY <1>1 DEF OneRun, ReadTypes
<1>8. Active' = {s \in DOMAIN run : (s = r /\ new.at = "on") \/ (s # r /\ s \in Active)}
  BY <1>3, <1>4 DEF Active
<1>9. \A s \in Active : s # r /\ Of(s) = Of(r) => ~run[s].plain
  BY <1>1 DEF Single
<1>. QED
  BY <1>1, <1>2, <1>3, <1>4, <1>5, <1>6, <1>7, <1>8, <1>9

(* Such a step keeps the core when its own run stays within its limits.    *)
LEMMA OneRunKeeps ==
  ASSUME Core, NEW r, NEW new, NEW a, NEW air, OneRun(r, new, a, air),
         cache' \in [Keys -> Nat], \A k \in Keys : cache'[k] <= disk[k],
         serves' \in [Readers \X (0..MaxAsked) \X Keys -> Nat],
         a.here <= a.chars, \A k \in Keys : new.floor[k] <= disk[k],
         IsFiniteSet(air), new.todo + Cardinality(air) <= MaxBatch,
         new.at = "on" => new.todo + Cardinality(air) <= new.used,
         new.at = "over" => new.todo = 0 /\ air = {},
         \A x \in air : x.since \in 1..disk[x.key] /\ x.in <= Generation(Of(r))
  PROVE  Core'
<1>. USE DEF Core
<1>1. /\ r \in DOMAIN run /\ r \in Runs /\ Of(r) \in Readers /\ run' \in Seq(RunType)
      /\ DOMAIN run' = DOMAIN run /\ Len(run') = Len(run) /\ DOMAIN run = 1..Len(run) /\ Len(run) \in Nat
      /\ \A s \in DOMAIN run : run'[s] = (IF s = r THEN new ELSE run[s]) /\ run'[s].of = Of(s)
      /\ agent' \in [Readers -> AgentType]
      /\ \A m \in Readers : agent'[m] = IF m = Of(r) THEN a ELSE agent[m]
      /\ flying' \in [Runs -> SUBSET FlightType]
      /\ \A s \in Runs : flying'[s] = IF s = r THEN air ELSE flying[s]
      /\ Active' = {s \in DOMAIN run : (s = r /\ new.at = "on") \/ (s # r /\ s \in Active)}
      /\ \A s \in Active : s # r /\ Of(s) = Of(r) => ~run[s].plain
  BY OneRunIs
<1>2. UNCHANGED <<disk, begun, extra, asked>> /\ r \in Active /\ (new.plain => run[r].plain)
  BY DEF OneRun
<1>3. ReadTypes'
  BY <1>1, <1>2 DEF ReadTypes, Runs
<1>4. Bounds'
  BY <1>1, <1>2 DEF Bounds
<1>5. \A m : Generation(m)' = Generation(m)
  BY <1>2 DEF Generation, Larger
<1>6. ASSUME NEW s \in DOMAIN run PROVE Sound(s)'
  <2>1. s \in Runs /\ Sound(s)
    BY RunIs
  <2>2. Generation(Of(s))' = Generation(Of(s))
    BY <1>1, <1>2 DEF Of, Generation, Larger
  <2>3. CASE s = r
    <3>1. run'[s] = new /\ flying'[s] = air
      BY <1>1, <2>1, <2>3
    <3>. QED
      BY <1>2, <2>2, <2>3, <3>1 DEF Sound
  <2>4. CASE s # r
    <3>1. run'[s] = run[s] /\ flying'[s] = flying[s]
      BY <1>1, <2>1, <2>4
    <3>. QED
      BY <1>2, <2>1, <2>2, <3>1 DEF Sound
  <2>. QED
    BY <2>3, <2>4
<1>7. Single'
  <2>1. ASSUME NEW s \in Active', NEW t \in Active', s # t, run'[s].of = run'[t].of PROVE ~run'[s].plain
    <3>1. s \in Active /\ t \in Active /\ s \in DOMAIN run /\ Of(s) = Of(t)
      BY <1>1, <1>2, <2>1 DEF Active
    <3>2. ~run[s].plain
      BY <2>1, <3>1 DEF Single
    <3>. QED
      BY <1>1, <1>2, <3>1, <3>2
  <2>2. \A s \in Runs \ DOMAIN run : flying'[s] = {}
    BY <1>1 DEF Single
  <2>. QED
    BY <1>1, <2>1, <2>2 DEF Single, Of, Runs
<1>. QED
  BY <1>1, <1>3, <1>4, <1>6, <1>7

-----------------------------------------------------------------------------
(* What each of these steps writes                                         *)

(* A reply and its calls, as many as agno lets through.                    *)
RepliesTo(r, n, new, goes) ==
  /\ OneRun(r, new, agent[Of(r)], flying[r]) /\ UNCHANGED <<cache, serves>>
  /\ Between(r) /\ ~agent[Of(r)].silent /\ ~run[r].refused
  /\ new.at = "on" /\ new.todo = goes /\ new.used = run[r].used + goes
  /\ goes = (IF run[r].used + n <= ToolLimit THEN n ELSE ToolLimit - run[r].used)
  /\ (new.refused <=> goes < n)
  /\ new.has = run[r].has /\ new.floor = run[r].floor /\ new.row = run[r].row
  /\ new.unseen = run[r].unseen /\ new.misled = run[r].misled /\ new.plain = run[r].plain
(* That is what the step writes.                                          *)
LEMMA RepliesAre ==
  ASSUME Core, NEW r \in DOMAIN run, NEW n \in 1..MaxBatch, RepliesWith(r, n)
  PROVE  \E new \in RunType, goes \in 0..n : RepliesTo(r, n, new, goes)
<1>. USE DEF Core
<1>. DEFINE goes == IF run[r].used + n <= ToolLimit THEN n ELSE ToolLimit - run[r].used
            new == [run[r] EXCEPT !.todo = goes, !.used = run[r].used + goes, !.refused = goes < n]
<1>1. r \in Runs /\ run[r] \in RunType /\ Of(r) \in Readers /\ agent[Of(r)] \in AgentType
      /\ flying[r] \subseteq FlightType
  BY RunIs
<1>2. r \in Active /\ run[r].at = "on" /\ Between(r) /\ ~agent[Of(r)].silent /\ ~run[r].refused
      /\ UNCHANGED <<disk, cache, begun, serves, agent, flying, extra, asked>>
      /\ run' = [run EXCEPT ![r] = new]
  BY DEF RepliesWith, Between, Active
<1>3. goes \in 0..n /\ goes \in 0..MaxBatch /\ run[r].used + goes \in 0..ToolLimit /\ (goes < n) \in BOOLEAN
  BY <1>1, Limits DEF RunType
<1>. HIDE DEF goes
<1>4. /\ new \in RunType /\ new.of = run[r].of /\ new.at = run[r].at /\ new.todo = goes
      /\ new.used = run[r].used + goes /\ (new.refused <=> goes < n)
      /\ new.has = run[r].has /\ new.floor = run[r].floor /\ new.row = run[r].row
      /\ new.unseen = run[r].unseen /\ new.misled = run[r].misled /\ new.plain = run[r].plain
      /\ new.fresh = run[r].fresh
  BY <1>1, <1>3 DEF RunType
<1>. HIDE DEF new
<1>5. OneRun(r, new, agent[Of(r)], flying[r])
  BY <1>1, <1>2, <1>4 DEF OneRun, Of, ReadTypes
<1>. QED
  BY <1>2, <1>3, <1>4, <1>5 DEF goes, RepliesTo

(* The end of a run.                                                       *)
AnswersTo(r, new) ==
  /\ OneRun(r, new, agent[Of(r)], flying[r]) /\ UNCHANGED <<cache, serves>>
  /\ Between(r) /\ new.at = "over" /\ new.todo = 0 /\ new.row = 0
  /\ new.floor = [k \in Keys |-> Nothing]
  /\ new.refused = run[r].refused /\ new.unseen = run[r].unseen
  /\ new.misled = run[r].misled /\ new.plain = run[r].plain
(* That is what the step writes.                                          *)
LEMMA AnswersAre ==
  ASSUME Core, NEW r \in DOMAIN run, Answers(r)
  PROVE  \E new \in RunType : AnswersTo(r, new)
<1>. USE DEF Core
<1>. DEFINE none == [k \in Keys |-> Nothing]
            new == [run[r] EXCEPT !.at = "over", !.used = 0, !.has = {}, !.floor = none, !.row = 0]
<1>1. r \in Runs /\ run[r] \in RunType /\ Of(r) \in Readers /\ agent[Of(r)] \in AgentType
      /\ flying[r] \subseteq FlightType
  BY RunIs
<1>2. r \in Active /\ Between(r) /\ run[r].todo = 0
      /\ UNCHANGED <<disk, cache, begun, serves, agent, flying, extra, asked>>
      /\ run' = [run EXCEPT ![r] = new]
  BY DEF Answers, Between
<1>3. none \in [Keys -> Nat]
  BY DEF Nothing
<1>. HIDE DEF none
<1>6. {} \in SUBSET Keys /\ 0 \in 0..ToolLimit /\ 0 \in Nat /\ "over" \in {"on", "over"}
  BY Limits
<1>4. /\ new \in RunType /\ new.of = run[r].of /\ new.at = "over" /\ new.todo = run[r].todo
      /\ new.row = 0 /\ new.floor = none /\ new.refused = run[r].refused
      /\ new.unseen = run[r].unseen /\ new.misled = run[r].misled /\ new.plain = run[r].plain
      /\ new.fresh = run[r].fresh
  BY <1>1, <1>3, <1>6 DEF RunType
<1>. HIDE DEF new
<1>5. OneRun(r, new, agent[Of(r)], flying[r])
  BY <1>1, <1>2, <1>4 DEF OneRun, Of, ReadTypes
<1>. QED
  BY <1>2, <1>4, <1>5 DEF none, AnswersTo

(* An edit, which the guard counts; one that failed changes what its run   *)
(* has.                                                                    *)
EditsTo(r, k, new, a) ==
  /\ OneRun(r, new, a, flying[r]) /\ UNCHANGED <<cache, serves>>
  /\ run[r].todo > 0 /\ new.at = "on" /\ new.todo = run[r].todo - 1
  /\ new.used = run[r].used /\ new.row = run[r].row /\ new.unseen = run[r].unseen
  /\ new.refused = run[r].refused /\ new.misled = run[r].misled
  /\ a.chars = agent[Of(r)].chars /\ a.here = agent[Of(r)].here
  /\ a.streak = agent[Of(r)].streak /\ a.refusals = agent[Of(r)].refusals
  /\ a.counted = Up(agent[Of(r)].counted, Threshold)
  /\ (a.fired <=> agent[Of(r)].fired \/ a.counted >= Threshold)
  /\ (a.silent <=> agent[Of(r)].silent \/ (~agent[Of(r)].fired /\ a.counted >= Threshold))
  /\ \/ /\ a.failed = agent[Of(r)].failed /\ new.has = run[r].has
        /\ new.floor = run[r].floor /\ new.plain = run[r].plain
     \/ /\ a.failed = agent[Of(r)].failed \cup {k} /\ new.has = run[r].has \ {k}
        /\ new.floor = [run[r].floor EXCEPT ![k] = disk[k]]
        /\ (new.plain <=> run[r].plain /\ ~\E s \in Active : \E x \in flying[s] : x.key = k)
(* That is what the step writes.                                          *)
LEMMA EditsAre ==
  ASSUME Core, NEW r \in DOMAIN run, NEW k \in Keys, Edit(r, k)
  PROVE  \E new \in RunType, a \in AgentType : EditsTo(r, k, new, a)
<1>. USE DEF Core
<1>. DEFINE m == Of(r)
            n == Up(agent[m].counted, Threshold)
            crossed == \E s \in Active : \E x \in flying[s] : x.key = k
<1>1. r \in Runs /\ run[r] \in RunType /\ m \in Readers /\ agent[m] \in AgentType
      /\ flying[r] \subseteq FlightType /\ disk[k] \in Nat
  BY RunIs DEF ReadTypes
<1>2. n \in 0..Threshold
  <2>1. agent[m].counted \in 0..Threshold
    BY <1>1 DEF AgentType
  <2>. QED
    BY <2>1, UpIs, Limits
<1>3. /\ r \in Active /\ run[r].at = "on" /\ run[r].todo > 0
      /\ UNCHANGED <<disk, cache, begun, serves, flying, extra, asked>>
      /\ \/ /\ agent' = [agent EXCEPT ![m] = Guarded([agent[m] EXCEPT !.counted = n, !.failed = @ \cup {k}], n)]
            /\ run' = [run EXCEPT ![r].todo = @ - 1, ![r].has = @ \ {k},
                           ![r].floor[k] = disk[k], ![r].plain = @ /\ ~crossed]
         \/ /\ \E times \in Failing(m) :
                 agent' = [agent EXCEPT ![m] = Guarded([agent[m] EXCEPT !.counted = n, !.failing = times], n)]
            /\ run' = [run EXCEPT ![r].todo = @ - 1]
  BY DEF Edit, Active
<1>. HIDE DEF n, crossed
<1>30. /\ r \in Active /\ run[r].at = "on" /\ run[r].todo > 0
       /\ UNCHANGED <<disk, cache, begun, serves, flying, extra, asked>>
  BY <1>3
<1>4. run[r].todo - 1 \in 0..MaxBatch /\ crossed \in BOOLEAN
  BY <1>1, <1>30, Limits DEF RunType, crossed
<1>5. CASE /\ agent' = [agent EXCEPT ![m] = Guarded([agent[m] EXCEPT !.counted = n, !.failed = @ \cup {k}], n)]
           /\ run' = [run EXCEPT ![r].todo = @ - 1, ![r].has = @ \ {k},
                          ![r].floor[k] = disk[k], ![r].plain = @ /\ ~crossed]
  <2>. DEFINE b == [agent[m] EXCEPT !.counted = n, !.failed = agent[m].failed \cup {k}]
              floor == [run[r].floor EXCEPT ![k] = disk[k]]
              plain == run[r].plain /\ ~crossed
              new == [run[r] EXCEPT !.todo = run[r].todo - 1, !.has = run[r].has \ {k},
                                    !.floor = floor, !.plain = plain]
  <2>1. b \in AgentType /\ b.counted = n /\ b.failed = agent[m].failed \cup {k}
        /\ b.chars = agent[m].chars /\ b.here = agent[m].here /\ b.streak = agent[m].streak
        /\ b.refusals = agent[m].refusals /\ b.fired = agent[m].fired /\ b.silent = agent[m].silent
    BY <1>1, <1>2 DEF AgentType
  <2>2. agent' = [agent EXCEPT ![m] = Guarded(b, n)]
    BY <1>5
  <2>3. floor \in [Keys -> Nat] /\ plain \in BOOLEAN /\ (plain => run[r].plain)
    BY <1>1, <1>4 DEF RunType
  <2>4. run' = [run EXCEPT ![r] = new]
    BY <1>5
  <2>. HIDE DEF b, floor, plain
  <2>5. /\ new \in RunType /\ new.of = run[r].of /\ new.at = run[r].at /\ new.todo = run[r].todo - 1
        /\ new.used = run[r].used /\ new.row = run[r].row /\ new.unseen = run[r].unseen
        /\ new.refused = run[r].refused /\ new.misled = run[r].misled /\ new.fresh = run[r].fresh
        /\ new.has = run[r].has \ {k} /\ new.floor = floor /\ new.plain = plain
    BY <1>1, <1>4, <2>3 DEF RunType
  <2>. HIDE DEF new
  <2>6. Guarded(b, n) \in AgentType
    BY <1>2, <2>1, GuardedIs
  <2>7. OneRun(r, new, Guarded(b, n), flying[r])
    <3>1. flying' = [flying EXCEPT ![r] = flying[r]]
      BY <1>1, <1>30 DEF ReadTypes
    <3>. QED
      BY <1>1, <1>30, <2>2, <2>3, <2>4, <2>5, <2>6, <3>1 DEF OneRun, Of
  <2>8. /\ (Guarded(b, n).fired <=> b.fired \/ n >= Threshold)
        /\ (Guarded(b, n).silent <=> b.silent \/ (~b.fired /\ n >= Threshold))
        /\ Guarded(b, n).streak = b.streak /\ Guarded(b, n).refusals = b.refusals
        /\ Guarded(b, n).chars = b.chars /\ Guarded(b, n).here = b.here
        /\ Guarded(b, n).counted = b.counted /\ Guarded(b, n).failed = b.failed
    BY <1>2, <2>1, GuardedIs
  <2>9. new.floor = [run[r].floor EXCEPT ![k] = disk[k]]
    BY <2>5 DEF floor
  <2>10. new.plain <=> run[r].plain /\ ~\E s \in Active : \E x \in flying[s] : x.key = k
    BY <2>5 DEF plain, crossed
  <2>. DEFINE a == Guarded(b, n)
  <2>11. /\ a.chars = agent[m].chars /\ a.here = agent[m].here
         /\ a.streak = agent[m].streak /\ a.refusals = agent[m].refusals
         /\ a.counted = Up(agent[m].counted, Threshold)
         /\ (a.fired <=> agent[m].fired \/ a.counted >= Threshold)
         /\ (a.silent <=> agent[m].silent \/ (~agent[m].fired /\ a.counted >= Threshold))
         /\ a.failed = agent[m].failed \cup {k}
    BY <2>1, <2>8 DEF n
  <2>. HIDE DEF a
  <2>12. OneRun(r, new, a, flying[r]) /\ a \in AgentType
    BY <2>6, <2>7 DEF a
  <2>. QED
    BY <1>30, <2>5, <2>9, <2>10, <2>11, <2>12 DEF EditsTo
<1>6. ASSUME NEW times \in Failing(m), run' = [run EXCEPT ![r].todo = @ - 1],
             agent' = [agent EXCEPT ![m] = Guarded([agent[m] EXCEPT !.counted = n, !.failing = times], n)]
      PROVE  \E new \in RunType, a \in AgentType : EditsTo(r, k, new, a)
  <2>0. times \in 0..MaxFailures
    <3>1. agent[m].failing \in 0..MaxFailures /\ MaxFailures \in Nat
      BY <1>1, Limits DEF AgentType
    <3>. QED
      BY <1>6, <3>1 DEF Failing
  <2>. DEFINE b == [agent[m] EXCEPT !.counted = n, !.failing = times]
              new == [run[r] EXCEPT !.todo = run[r].todo - 1]
  <2>1. b \in AgentType /\ b.counted = n /\ b.failed = agent[m].failed
        /\ b.chars = agent[m].chars /\ b.here = agent[m].here /\ b.streak = agent[m].streak
        /\ b.refusals = agent[m].refusals /\ b.fired = agent[m].fired /\ b.silent = agent[m].silent
    BY <1>1, <1>2, <2>0 DEF AgentType
  <2>2. agent' = [agent EXCEPT ![m] = Guarded(b, n)]
    BY <1>6
  <2>4. run' = [run EXCEPT ![r] = new]
    BY <1>6
  <2>. HIDE DEF b
  <2>5. /\ new \in RunType /\ new.of = run[r].of /\ new.at = run[r].at /\ new.todo = run[r].todo - 1
        /\ new.used = run[r].used /\ new.row = run[r].row /\ new.unseen = run[r].unseen
        /\ new.refused = run[r].refused /\ new.misled = run[r].misled /\ new.fresh = run[r].fresh
        /\ new.has = run[r].has /\ new.floor = run[r].floor /\ new.plain = run[r].plain
    BY <1>1, <1>4 DEF RunType
  <2>. HIDE DEF new
  <2>6. Guarded(b, n) \in AgentType
    BY <1>2, <2>1, GuardedIs
  <2>7. OneRun(r, new, Guarded(b, n), flying[r])
    <3>1. flying' = [flying EXCEPT ![r] = flying[r]]
      BY <1>1, <1>30 DEF ReadTypes
    <3>. QED
      BY <1>1, <1>30, <2>2, <2>4, <2>5, <2>6, <3>1 DEF OneRun, Of
  <2>8. /\ (Guarded(b, n).fired <=> b.fired \/ n >= Threshold)
        /\ (Guarded(b, n).silent <=> b.silent \/ (~b.fired /\ n >= Threshold))
        /\ Guarded(b, n).streak = b.streak /\ Guarded(b, n).refusals = b.refusals
        /\ Guarded(b, n).chars = b.chars /\ Guarded(b, n).here = b.here
        /\ Guarded(b, n).counted = b.counted /\ Guarded(b, n).failed = b.failed
    BY <1>2, <2>1, GuardedIs
  <2>. QED
    BY <1>30, <2>1, <2>5, <2>6, <2>7, <2>8 DEF n, EditsTo
<1>. QED
  BY <1>3, <1>5, <1>6

(* A call that never reaches the guard.                                    *)
UnpassedTo(r, new) ==
  /\ OneRun(r, new, agent[Of(r)], flying[r]) /\ UNCHANGED <<cache, serves>>
  /\ run[r].todo > 0 /\ new.at = "on" /\ new.todo = run[r].todo - 1
  /\ new.used = run[r].used /\ new.row = run[r].row /\ new.unseen
  /\ new.refused = run[r].refused /\ new.misled = run[r].misled
  /\ new.has = run[r].has /\ new.floor = run[r].floor /\ new.plain = run[r].plain
(* That is what the step writes.                                          *)
LEMMA UnpassedIs ==
  ASSUME Core, NEW r \in DOMAIN run, Unpassed(r)
  PROVE  \E new \in RunType : UnpassedTo(r, new)
<1>. USE DEF Core
<1>. DEFINE new == [run[r] EXCEPT !.todo = run[r].todo - 1, !.unseen = TRUE]
<1>1. r \in Runs /\ run[r] \in RunType /\ Of(r) \in Readers /\ agent[Of(r)] \in AgentType
      /\ flying[r] \subseteq FlightType
  BY RunIs
<1>2. /\ r \in Active /\ run[r].at = "on" /\ run[r].todo > 0 /\ run' = [run EXCEPT ![r] = new]
      /\ UNCHANGED <<disk, cache, begun, serves, agent, flying, extra, asked>>
  BY DEF Unpassed, Active
<1>3. run[r].todo - 1 \in 0..MaxBatch
  BY <1>1, <1>2, Limits DEF RunType
<1>4. /\ new \in RunType /\ new.of = run[r].of /\ new.at = run[r].at /\ new.todo = run[r].todo - 1
      /\ new.used = run[r].used /\ new.row = run[r].row /\ new.unseen
      /\ new.refused = run[r].refused /\ new.misled = run[r].misled /\ new.fresh = run[r].fresh
      /\ new.has = run[r].has /\ new.floor = run[r].floor /\ new.plain = run[r].plain
  BY <1>1, <1>3 DEF RunType
<1>. HIDE DEF new
<1>5. OneRun(r, new, agent[Of(r)], flying[r])
  <2>1. flying' = [flying EXCEPT ![r] = flying[r]] /\ agent' = [agent EXCEPT ![Of(r)] = agent[Of(r)]]
    BY <1>1, <1>2 DEF ReadTypes
  <2>. QED
    BY <1>1, <1>2, <1>4, <2>1 DEF OneRun, Of
<1>. QED
  BY <1>2, <1>4, <1>5 DEF UnpassedTo

(* What the hook forgets before a read that follows a failed edit.         *)
LEMMA StartIs ==
  ASSUME Core, NEW m \in Readers, NEW k \in Keys, Generation(m) \in 0..MaxAsked
  PROVE  /\ Forgotten(m, k) \in [Keys -> Nat] /\ Recounted(m, k) \in [Readers \X (0..MaxAsked) \X Keys -> Nat]
         /\ \A j \in Keys : Forgotten(m, k)[j] = IF j = k /\ k \in agent[m].failed THEN Nothing ELSE cache[j]
         /\ \A j \in Keys : Forgotten(m, k)[j] <= disk[j]
         /\ \A p \in Readers, g \in 0..MaxAsked, j \in Keys :
              Recounted(m, k)[<<p, g, j>>] =
                IF p = m /\ g = Generation(m) /\ j = k /\ k \in agent[m].failed
                THEN 0 ELSE serves[<<p, g, j>>]
         /\ Seen(m, k) \in AgentType /\ Seen(m, k).failed = agent[m].failed \ {k}
         /\ Seen(m, k).streak = agent[m].streak /\ Seen(m, k).silent = agent[m].silent
         /\ Seen(m, k).chars = agent[m].chars /\ Seen(m, k).here = agent[m].here
         /\ Seen(m, k).refusals = agent[m].refusals /\ Seen(m, k).counted = agent[m].counted
         /\ Seen(m, k).fired = agent[m].fired
<1>. USE DEF Core
<1>1. cache \in [Keys -> Nat] /\ agent[m] \in AgentType
      /\ serves \in [Readers \X (0..MaxAsked) \X Keys -> Nat] /\ disk \in [Keys -> 1..MaxVersion]
      /\ \A j \in Keys : cache[j] <= disk[j]
  BY DEF ReadTypes, Bounds
<1>2. Seen(m, k) \in AgentType /\ Seen(m, k).failed = agent[m].failed \ {k}
      /\ Seen(m, k).streak = agent[m].streak /\ Seen(m, k).silent = agent[m].silent
      /\ Seen(m, k).chars = agent[m].chars /\ Seen(m, k).here = agent[m].here
      /\ Seen(m, k).refusals = agent[m].refusals /\ Seen(m, k).counted = agent[m].counted
      /\ Seen(m, k).fired = agent[m].fired
  BY <1>1 DEF Seen, AgentType
<1>3. /\ Forgotten(m, k) \in [Keys -> Nat]
      /\ \A j \in Keys : Forgotten(m, k)[j] = IF j = k /\ k \in agent[m].failed THEN Nothing ELSE cache[j]
  BY <1>1 DEF Forgotten, Retried, Nothing
<1>4. \A j \in Keys : Forgotten(m, k)[j] <= disk[j]
  BY <1>1, <1>3 DEF Nothing
<1>5. Recounted(m, k) \in [Readers \X (0..MaxAsked) \X Keys -> Nat]
  BY <1>1 DEF Recounted, Retried
<1>6. ASSUME NEW p \in Readers, NEW g \in 0..MaxAsked, NEW j \in Keys
      PROVE  Recounted(m, k)[<<p, g, j>>] =
                IF p = m /\ g = Generation(m) /\ j = k /\ k \in agent[m].failed
                THEN 0 ELSE serves[<<p, g, j>>]
  BY <1>1 DEF Recounted, Retried
<1>. QED
  BY <1>2, <1>3, <1>4, <1>5, <1>6

(* A refusal has one of three reasons.                                     *)
LEMMA RefusalIs ==
  ASSUME NEW m, NEW k
  PROVE  /\ Refusal(m, k) \in {"budget", "capped", "ceiling", "none"}
         /\ Refusal(m, k) = "none" => ~(agent[m].chars >= Budget)
  BY DEF Refusal, OverBudget

(* A read that is refused.                                                 *)
RefusesTo(r, k, new, why) ==
  /\ OneRun(r, new, TurnedAway(Seen(Of(r), k), why), flying[r])
  /\ cache' = Forgotten(Of(r), k) /\ serves' = Recounted(Of(r), k) /\ cache'[k] = Nothing
  /\ run[r].todo > 0 /\ new.at = "on" /\ new.todo = run[r].todo - 1
  /\ new.used = run[r].used /\ new.unseen
  /\ new.row = (IF why = "capped" THEN run[r].row ELSE Up(run[r].row, MaxRefusals + StubLimit))
  /\ new.refused = run[r].refused /\ new.misled = run[r].misled
  /\ new.has = run[r].has /\ new.floor = run[r].floor /\ new.plain = run[r].plain
(* That is what the step writes.                                          *)
LEMMA RefusesAre ==
  ASSUME Core, NEW r \in DOMAIN run, NEW k \in Keys, Refuse(r, k)
  PROVE  \E new \in RunType, why \in {"budget", "capped", "ceiling"} : RefusesTo(r, k, new, why)
<1>. USE DEF Core
<1>. DEFINE m == Of(r)
            why == Refusal(m, k)
            row == IF why = "capped" THEN run[r].row ELSE Up(run[r].row, MaxRefusals + StubLimit)
            new == [run[r] EXCEPT !.todo = run[r].todo - 1, !.unseen = TRUE, !.row = row]
            a == TurnedAway(Seen(m, k), why)
<1>1. r \in Runs /\ run[r] \in RunType /\ m \in Readers /\ flying[r] \subseteq FlightType
      /\ Generation(m) \in 0..MaxAsked
  BY RunIs
<1>2. /\ r \in Active /\ run[r].at = "on" /\ run[r].todo > 0 /\ cache' = Forgotten(m, k)
      /\ cache'[k] = Nothing /\ serves' = Recounted(m, k) /\ why # "none"
      /\ agent' = [agent EXCEPT ![m] = a] /\ run' = [run EXCEPT ![r] = new]
      /\ UNCHANGED <<disk, begun, flying, extra, asked>>
  BY DEF Refuse, Starts, Active
<1>3. why \in {"budget", "capped", "ceiling"}
  BY <1>2, RefusalIs
<1>4. row \in Nat
  BY <1>1, Limits DEF RunType, Up
<1>. HIDE DEF why, row
<1>5. Seen(m, k) \in AgentType /\ a \in AgentType
  BY <1>1, <1>3, StartIs, TurnedAwayIs
<1>6. run[r].todo - 1 \in 0..MaxBatch
  BY <1>1, <1>2, Limits DEF RunType
<1>7. /\ new \in RunType /\ new.of = run[r].of /\ new.at = run[r].at /\ new.todo = run[r].todo - 1
      /\ new.used = run[r].used /\ new.row = row /\ new.unseen
      /\ new.refused = run[r].refused /\ new.misled = run[r].misled /\ new.fresh = run[r].fresh
      /\ new.has = run[r].has /\ new.floor = run[r].floor /\ new.plain = run[r].plain
  BY <1>1, <1>4, <1>6 DEF RunType
<1>. HIDE DEF new, a
<1>8. OneRun(r, new, a, flying[r])
  <2>1. flying' = [flying EXCEPT ![r] = flying[r]]
    BY <1>1, <1>2 DEF ReadTypes
  <2>. QED
    BY <1>1, <1>2, <1>5, <1>7, <2>1 DEF OneRun, Of
<1>. QED
  BY <1>2, <1>3, <1>7, <1>8 DEF a, row, RefusesTo

(* The end of the hook.                                                    *)
ServeCounts == [Readers \X (0..MaxAsked) \X Keys -> Nat]
GivenTo(r, k, v, g, kept, b, used, new, a) ==
  /\ run' = [run EXCEPT ![r] = new] /\ agent' = [agent EXCEPT ![Of(r)] = a] /\ serves' \in ServeCounts
  /\ \A p \in Readers, h \in 0..MaxAsked, j \in Keys :
       <<p, h, j>> # <<Of(r), g, k>> => serves'[<<p, h, j>>] = kept[<<p, h, j>>]
  /\ new.of = used.of /\ new.at = used.at /\ new.todo = used.todo /\ new.used = used.used
  /\ new.floor = used.floor /\ new.unseen = used.unseen /\ new.refused = used.refused
  /\ new.fresh = used.fresh /\ new.plain = used.plain
  /\ a.chars = b.chars /\ a.here = b.here /\ a.refusals = b.refusals
  /\ a.counted = b.counted /\ a.fired = b.fired /\ a.failed = b.failed
  /\ \/ /\ kept[<<Of(r), g, k>>] # 0 /\ a = Bumped(b) /\ new.has = used.has
        /\ new.row <= used.row + 1 /\ (new.misled <=> used.misled \/ k \notin used.has)
     \/ /\ a.streak = 0 /\ a.silent = b.silent /\ new.row = 0 /\ new.misled = used.misled
        /\ new.has = IF v >= used.floor[k] THEN used.has \cup {k} ELSE used.has

(* A text that is given is counted, and it is the text or a stub for it.   *)
LEMMA GivenIs ==
  ASSUME Core, NEW r \in DOMAIN run, NEW k \in Keys, NEW v, NEW g \in 0..MaxAsked, NEW kept \in ServeCounts,
         NEW b \in AgentType, NEW used \in RunType, Given(r, k, v, g, kept, b, used)
  PROVE  \E new \in RunType, a \in AgentType : GivenTo(r, k, v, g, kept, b, used, new, a)
<1>. USE DEF Core
<1>. DEFINE m == Of(r)
            n == Up(kept[<<m, g, k>>], 2 + extra)
            stub == n > 1 + extra
<1>1. m \in Readers /\ <<m, g, k>> \in Readers \X (0..MaxAsked) \X Keys /\ kept[<<m, g, k>>] \in Nat
  BY RunIs DEF ServeCounts
<1>2. n \in Nat /\ (stub => kept[<<m, g, k>>] # 0)
  <2>1. \A x \in Nat, y \in {0, 1} : Up(x, 2 + y) \in Nat /\ (Up(x, 2 + y) > 1 + y => x # 0)
    BY DEF Up
  <2>2. extra \in {0, 1}
    BY DEF ReadTypes
  <2>. HIDE DEF Core
  <2>. QED
    BY <1>1, <2>1, <2>2
<1>3. /\ serves' = [kept EXCEPT ![<<m, g, k>>] = n]
      /\ agent' = [agent EXCEPT ![m] = IF stub THEN Bumped(b) ELSE [b EXCEPT !.streak = 0]]
      /\ run' = [run EXCEPT ![r] =
           IF stub THEN [used EXCEPT !.row = Up(@, MaxRefusals + StubLimit), !.misled = @ \/ k \notin used.has]
           ELSE [used EXCEPT !.row = 0, !.has = IF v >= used.floor[k] THEN @ \cup {k} ELSE @]]
  BY DEF Given
<1>. HIDE DEF n
<1>4. serves' \in ServeCounts /\ \A p \in Readers, h \in 0..MaxAsked, j \in Keys :
        <<p, h, j>> # <<m, g, k>> => serves'[<<p, h, j>>] = kept[<<p, h, j>>]
  BY <1>1, <1>2, <1>3 DEF ServeCounts
<1>. HIDE DEF stub
<1>5. CASE stub
  <2>. DEFINE row == Up(used.row, MaxRefusals + StubLimit)
              misled == used.misled \/ k \notin used.has
              new == [used EXCEPT !.row = row, !.misled = misled]
              a == Bumped(b)
  <2>1. run' = [run EXCEPT ![r] = new] /\ agent' = [agent EXCEPT ![m] = a]
    BY <1>3, <1>5
  <2>2. row \in Nat /\ row <= used.row + 1 /\ misled \in BOOLEAN
    BY Limits DEF RunType, Up
  <2>. HIDE DEF row
  <2>3. /\ new \in RunType /\ new.of = used.of /\ new.at = used.at /\ new.todo = used.todo /\ new.used = used.used
        /\ new.floor = used.floor /\ new.unseen = used.unseen /\ new.refused = used.refused
        /\ new.fresh = used.fresh /\ new.plain = used.plain /\ new.has = used.has
        /\ new.row = row /\ (new.misled <=> misled)
    BY <2>2 DEF RunType
  <2>. HIDE DEF new
  <2>4. /\ a \in AgentType /\ a.chars = b.chars /\ a.here = b.here /\ a.refusals = b.refusals
        /\ a.counted = b.counted /\ a.fired = b.fired /\ a.failed = b.failed
    BY BumpedIs
  <2>. HIDE DEF a
  <2>5. a = Bumped(b)
    BY DEF a
  <2>6. GivenTo(r, k, v, g, kept, b, used, new, a)
    BY <1>2, <1>4, <1>5, <2>1, <2>2, <2>3, <2>4, <2>5 DEF GivenTo
  <2>. QED
    BY <2>3, <2>4, <2>6
<1>6. CASE ~stub
  <2>. DEFINE has == IF v >= used.floor[k] THEN used.has \cup {k} ELSE used.has
              new == [used EXCEPT !.row = 0, !.has = has]
              a == [b EXCEPT !.streak = 0]
  <2>1. run' = [run EXCEPT ![r] = new] /\ agent' = [agent EXCEPT ![m] = a]
    BY <1>3, <1>6
  <2>2. has \in SUBSET Keys
    BY DEF RunType
  <2>. HIDE DEF has
  <2>3. /\ new \in RunType /\ new.of = used.of /\ new.at = used.at /\ new.todo = used.todo /\ new.used = used.used
        /\ new.floor = used.floor /\ new.unseen = used.unseen /\ new.refused = used.refused
        /\ new.fresh = used.fresh /\ new.plain = used.plain /\ new.has = has
        /\ new.row = 0 /\ new.misled = used.misled
    BY <2>2 DEF RunType
  <2>. HIDE DEF new
  <2>4. /\ a \in AgentType /\ a.chars = b.chars /\ a.here = b.here /\ a.refusals = b.refusals
        /\ a.counted = b.counted /\ a.fired = b.fired /\ a.failed = b.failed
        /\ a.streak = 0 /\ a.silent = b.silent
    BY Limits DEF AgentType
  <2>. HIDE DEF a
  <2>5. GivenTo(r, k, v, g, kept, b, used, new, a)
    BY <1>4, <2>1, <2>3, <2>4 DEF has, GivenTo
  <2>. QED
    BY <2>3, <2>4, <2>5
<1>. QED
  BY <1>5, <1>6

(* A read that is in the cache.                                            *)
HitsTo(r, k, new, a, used) ==
  /\ OneRun(r, new, a, flying[r])
  /\ GivenTo(r, k, cache'[k], Generation(Of(r)), Recounted(Of(r), k), Seen(Of(r), k), used, new, a)
  /\ cache' = Forgotten(Of(r), k) /\ cache'[k] # Nothing
  /\ run[r].todo > 0 /\ used.at = "on" /\ used.todo = run[r].todo - 1 /\ used.unseen
  /\ used.used = run[r].used /\ used.row = run[r].row /\ used.refused = run[r].refused
  /\ used.misled = run[r].misled /\ used.fresh = run[r].fresh /\ used.has = run[r].has
  /\ used.floor = run[r].floor /\ used.plain = run[r].plain
(* That is what the step writes.                                          *)
LEMMA HitsAre ==
  ASSUME Core, NEW r \in DOMAIN run, NEW k \in Keys, Hit(r, k)
  PROVE  \E new \in RunType, a \in AgentType, used \in RunType : HitsTo(r, k, new, a, used)
<1>. USE DEF Core
<1>. DEFINE m == Of(r)
            b == Seen(m, k)
            kept == Recounted(m, k)
            used == [run[r] EXCEPT !.todo = run[r].todo - 1, !.unseen = TRUE]
<1>1. r \in Runs /\ run[r] \in RunType /\ m \in Readers /\ flying[r] \subseteq FlightType
      /\ Generation(m) \in 0..MaxAsked
  BY RunIs
<1>2. /\ r \in Active /\ run[r].at = "on" /\ run[r].todo > 0 /\ cache' = Forgotten(m, k)
      /\ cache'[k] # Nothing /\ UNCHANGED <<disk, begun, flying, extra, asked>>
      /\ Given(r, k, cache'[k], Generation(m), kept, b, used)
  BY DEF Hit, Starts, Active
<1>3. b \in AgentType /\ kept \in ServeCounts
  BY <1>1, StartIs DEF ServeCounts
<1>4. run[r].todo - 1 \in 0..MaxBatch
  BY <1>1, <1>2, Limits DEF RunType
<1>5. /\ used \in RunType /\ used.of = run[r].of /\ used.at = run[r].at /\ used.todo = run[r].todo - 1
      /\ used.used = run[r].used /\ used.row = run[r].row /\ used.unseen
      /\ used.refused = run[r].refused /\ used.misled = run[r].misled /\ used.fresh = run[r].fresh
      /\ used.has = run[r].has /\ used.floor = run[r].floor /\ used.plain = run[r].plain
  BY <1>1, <1>4 DEF RunType
<1>. HIDE DEF b, kept, used
<1>6. PICK new \in RunType, a \in AgentType : GivenTo(r, k, cache'[k], Generation(m), kept, b, used, new, a)
  BY <1>1, <1>2, <1>3, <1>5, GivenIs
<1>7. OneRun(r, new, a, flying[r])
  <2>1. flying' = [flying EXCEPT ![r] = flying[r]]
    BY <1>1, <1>2 DEF ReadTypes
  <2>. QED
    BY <1>1, <1>2, <1>5, <1>6, <2>1 DEF OneRun, Of, GivenTo
<1>. QED
  BY <1>2, <1>5, <1>6, <1>7 DEF b, kept, HitsTo

(* A read that goes to its tool.                                           *)
FetchesTo(r, k, new, a, x) ==
  /\ OneRun(r, new, a, flying[r] \cup {x})
  /\ cache' = Forgotten(Of(r), k) /\ serves' = Recounted(Of(r), k) /\ cache'[k] = Nothing
  /\ run[r].todo > 0 /\ new.at = "on" /\ new.todo = run[r].todo - 1
  /\ new.used = run[r].used /\ new.unseen = run[r].unseen /\ new.row = run[r].row
  /\ new.refused = run[r].refused /\ new.misled = run[r].misled
  /\ new.has = run[r].has /\ new.floor = run[r].floor /\ new.plain = run[r].plain
  /\ a.counted = Up(agent[Of(r)].counted, Threshold) /\ agent[Of(r)].chars < Budget
  /\ a.chars = agent[Of(r)].chars /\ a.here = agent[Of(r)].here
  /\ a.refusals = agent[Of(r)].refusals /\ a.streak = agent[Of(r)].streak
  /\ a.fired = agent[Of(r)].fired /\ a.silent = agent[Of(r)].silent
  /\ a.failed = agent[Of(r)].failed \ {k}
  /\ x.key = k /\ x.in = Generation(Of(r)) /\ x.count = a.counted /\ x.since = disk[k]
(* That is what the step writes.                                          *)
LEMMA FetchesAre ==
  ASSUME Core, NEW r \in DOMAIN run, NEW k \in Keys, Fetch(r, k)
  PROVE  \E new \in RunType, a \in AgentType, x \in FlightType : FetchesTo(r, k, new, a, x)
<1>. USE DEF Core
<1>. DEFINE m == Of(r)
            n == Up(agent[m].counted, Threshold)
            b == Seen(m, k)
            a == [b EXCEPT !.counted = n]
            new == [run[r] EXCEPT !.todo = run[r].todo - 1]
            x == [key |-> k, nth |-> run[r].todo, in |-> Generation(m), count |-> n, since |-> disk[k]]
<1>1. r \in Runs /\ run[r] \in RunType /\ m \in Readers /\ flying[r] \subseteq FlightType
      /\ Generation(m) \in 0..MaxAsked /\ disk[k] \in Nat /\ agent[m] \in AgentType
  BY RunIs DEF ReadTypes
<1>2. /\ r \in Active /\ run[r].at = "on" /\ run[r].todo > 0 /\ cache' = Forgotten(m, k)
      /\ cache'[k] = Nothing /\ Refusal(m, k) = "none" /\ serves' = Recounted(m, k)
      /\ agent' = [agent EXCEPT ![m] = a] /\ run' = [run EXCEPT ![r] = new]
      /\ flying' = [flying EXCEPT ![r] = flying[r] \cup {x}]
      /\ UNCHANGED <<disk, begun, extra, asked>>
  BY DEF Fetch, Starts, Active
<1>3. agent[m].chars < Budget
  BY <1>1, <1>2, RefusalIs, Limits DEF AgentType
<1>4. n \in 0..Threshold
  <2>1. agent[m].counted \in 0..Threshold
    BY <1>1 DEF AgentType
  <2>. QED
    BY <2>1, UpIs, Limits
<1>. HIDE DEF n
<1>5. run[r].todo - 1 \in 0..MaxBatch /\ run[r].todo \in Nat
  BY <1>1, <1>2, Limits DEF RunType
<1>6. x \in FlightType /\ x.key = k /\ x.in = Generation(m) /\ x.count = n /\ x.since = disk[k]
  BY <1>1, <1>4, <1>5 DEF FlightType
<1>7. /\ b \in AgentType /\ b.failed = agent[m].failed \ {k}
      /\ b.streak = agent[m].streak /\ b.silent = agent[m].silent
      /\ b.chars = agent[m].chars /\ b.here = agent[m].here
      /\ b.refusals = agent[m].refusals /\ b.fired = agent[m].fired
  BY <1>1, StartIs
<1>. HIDE DEF x, b
<1>8. /\ a \in AgentType /\ a.counted = n /\ a.failed = agent[m].failed \ {k}
      /\ a.streak = agent[m].streak /\ a.silent = agent[m].silent
      /\ a.chars = agent[m].chars /\ a.here = agent[m].here
      /\ a.refusals = agent[m].refusals /\ a.fired = agent[m].fired
  BY <1>4, <1>7 DEF AgentType
<1>9. /\ new \in RunType /\ new.of = run[r].of /\ new.at = run[r].at /\ new.todo = run[r].todo - 1
      /\ new.used = run[r].used /\ new.row = run[r].row /\ new.unseen = run[r].unseen
      /\ new.refused = run[r].refused /\ new.misled = run[r].misled /\ new.fresh = run[r].fresh
      /\ new.has = run[r].has /\ new.floor = run[r].floor /\ new.plain = run[r].plain
  BY <1>1, <1>5 DEF RunType
<1>. HIDE DEF a, new
<1>10. OneRun(r, new, a, flying[r] \cup {x})
  BY <1>1, <1>2, <1>6, <1>8, <1>9 DEF OneRun, Of
<1>. QED
  BY <1>2, <1>3, <1>6, <1>8, <1>9, <1>10 DEF n, FetchesTo

(* A tool that has returned.                                               *)
FetchedTo(r, x, new, a, b, v) ==
  /\ OneRun(r, new, a, flying[r] \ {x})
  /\ GivenTo(r, x.key, v, x.in, serves, b, run[r], new, a)
  /\ cache' = [cache EXCEPT ![x.key] = v]
  /\ b.chars = agent[Of(r)].chars + SizeOf[x.key] /\ b.here = agent[Of(r)].here + SizeOf[x.key]
  /\ b.streak = agent[Of(r)].streak /\ b.refusals = agent[Of(r)].refusals
  /\ b.counted = agent[Of(r)].counted /\ b.failed = agent[Of(r)].failed
  /\ (b.fired <=> agent[Of(r)].fired \/ x.count >= Threshold)
  /\ (b.silent <=> agent[Of(r)].silent \/ (~agent[Of(r)].fired /\ x.count >= Threshold))
(* That is what the step writes.                                          *)
LEMMA FetchedIs ==
  ASSUME Core, NEW r \in DOMAIN run, NEW x \in flying[r], Fetched(r, x)
  PROVE  /\ x \in FlightType /\ r \in Active
         /\ \E new \in RunType, a \in AgentType, b \in AgentType, v \in x.since..disk[x.key] : FetchedTo(r, x, new, a, b, v)
<1>. USE DEF Core
<1>. DEFINE m == Of(r)
            c == Guarded(agent[m], x.count)
            b == Charged(c, x.key)
<1>1. r \in Runs /\ run[r] \in RunType /\ m \in Readers /\ flying[r] \subseteq FlightType
      /\ agent[m] \in AgentType /\ x \in FlightType
  BY RunIs
<1>2. x.key \in Keys /\ x.in \in 0..MaxAsked /\ x.count \in 0..Threshold
  BY <1>1 DEF FlightType
<1>3. r \in Active
  <2>1. Sound(r) /\ run[r].at \in {"on", "over"}
    BY <1>1 DEF RunType
  <2>. QED
    BY <2>1 DEF Sound, Active
<1>4. PICK v \in x.since..disk[x.key] :
        /\ cache' = [cache EXCEPT ![x.key] = v]
        /\ Given(r, x.key, v, x.in, serves, b, run[r])
  BY DEF Fetched
<1>5. flying' = [flying EXCEPT ![r] = flying[r] \ {x}] /\ UNCHANGED <<disk, begun, extra, asked>>
  BY DEF Fetched
<1>6. /\ c \in AgentType /\ (c.fired <=> agent[m].fired \/ x.count >= Threshold)
      /\ (c.silent <=> agent[m].silent \/ (~agent[m].fired /\ x.count >= Threshold))
      /\ c.streak = agent[m].streak /\ c.refusals = agent[m].refusals
      /\ c.chars = agent[m].chars /\ c.here = agent[m].here
      /\ c.counted = agent[m].counted /\ c.failed = agent[m].failed
  BY <1>1, <1>2, GuardedIs
<1>. HIDE DEF c
<1>7. /\ b \in AgentType /\ b.chars = c.chars + SizeOf[x.key] /\ b.here = c.here + SizeOf[x.key]
      /\ b.streak = c.streak /\ b.refusals = c.refusals /\ b.silent = c.silent
      /\ b.counted = c.counted /\ b.fired = c.fired /\ b.failed = c.failed
  BY <1>2, <1>6, ChargedIs
<1>. HIDE DEF b
<1>8. serves \in ServeCounts
  BY DEF ReadTypes, ServeCounts
<1>9. PICK new \in RunType, a \in AgentType : GivenTo(r, x.key, v, x.in, serves, b, run[r], new, a)
  BY <1>1, <1>2, <1>4, <1>7, <1>8, GivenIs
<1>10. OneRun(r, new, a, flying[r] \ {x})
  BY <1>1, <1>3, <1>5, <1>9 DEF OneRun, Of, GivenTo
<1>. QED
  BY <1>1, <1>3, <1>4, <1>6, <1>7, <1>9, <1>10 DEF FetchedTo

-----------------------------------------------------------------------------
(* The core holds                                                          *)

(* Whatever a run does.                                                    *)
LEMMA RunsKeepCore ==
  ASSUME Core, NEW r \in DOMAIN run,
         \/ Answers(r) \/ Unpassed(r)
         \/ \E n \in 1..MaxBatch : RepliesWith(r, n)
         \/ \E k \in Keys : Edit(r, k) \/ Refuse(r, k) \/ Hit(r, k) \/ Fetch(r, k)
         \/ \E x \in flying[r] : Fetched(r, x)
  PROVE  Core'
<1>1. /\ r \in Runs /\ run[r] \in RunType /\ Of(r) \in Readers /\ agent[Of(r)] \in AgentType
      /\ flying[r] \subseteq FlightType /\ Sound(r) /\ Generation(Of(r)) \in 0..MaxAsked
      /\ agent[Of(r)].here <= agent[Of(r)].chars
  BY RunIs DEF Core, Bounds
<1>2. /\ \A k \in Keys : run[r].floor[k] <= disk[k]
      /\ IsFiniteSet(flying[r]) /\ run[r].todo + Cardinality(flying[r]) <= MaxBatch
      /\ run[r].at = "on" => run[r].todo + Cardinality(flying[r]) <= run[r].used
      /\ \A x \in flying[r] : x.since \in 1..disk[x.key] /\ x.in <= Generation(Of(r))
      /\ Cardinality(flying[r]) \in Nat /\ run[r].todo \in Nat /\ run[r].used \in Nat
  BY <1>1, FS_CardinalityType DEF Sound, RunType
<1>3. /\ cache \in [Keys -> Nat] /\ \A k \in Keys : cache[k] <= disk[k]
      /\ serves \in ServeCounts /\ disk \in [Keys -> 1..MaxVersion]
  BY DEF Core, ReadTypes, Bounds, ServeCounts
<1>4. CASE Answers(r)
  <2>0. PICK new \in RunType : AnswersTo(r, new)
    BY <1>4, AnswersAre
  <2>1. /\ OneRun(r, new, agent[Of(r)], flying[r]) /\ UNCHANGED <<cache, serves>>
        /\ Between(r) /\ new.at = "over" /\ new.todo = 0
        /\ new.floor = [k \in Keys |-> Nothing]
    BY <2>0 DEF AnswersTo
  <2>2. flying[r] = {} /\ Cardinality(flying[r]) = 0
    BY <2>1, FS_EmptySet DEF Between
  <2>3. \A k \in Keys : new.floor[k] <= disk[k]
    BY <1>3, <2>1 DEF Nothing
  <2>. QED
    BY <1>1, <1>2, <1>3, <2>1, <2>2, <2>3, Limits, OneRunKeeps DEF ServeCounts
<1>5. ASSUME NEW n \in 1..MaxBatch, RepliesWith(r, n) PROVE Core'
  <2>0. PICK new \in RunType, goes \in 0..n : RepliesTo(r, n, new, goes)
    BY <1>5, RepliesAre
  <2>1. /\ OneRun(r, new, agent[Of(r)], flying[r]) /\ UNCHANGED <<cache, serves>>
        /\ Between(r) /\ new.at = "on" /\ new.todo = goes /\ new.used = run[r].used + goes
        /\ new.floor = run[r].floor
    BY <2>0 DEF RepliesTo
  <2>2. flying[r] = {} /\ Cardinality(flying[r]) = 0
    BY <2>1, FS_EmptySet DEF Between
  <2>3. new.todo + Cardinality(flying[r]) <= MaxBatch /\ new.todo + Cardinality(flying[r]) <= new.used
    BY <1>2, <2>1, <2>2, Limits
  <2>. QED
    BY <1>1, <1>2, <1>3, <2>1, <2>3, OneRunKeeps DEF ServeCounts
<1>6. ASSUME NEW k \in Keys, Edit(r, k) PROVE Core'
  <2>0. PICK new \in RunType, a \in AgentType : EditsTo(r, k, new, a)
    BY <1>6, EditsAre
  <2>1. /\ OneRun(r, new, a, flying[r]) /\ UNCHANGED <<cache, serves>>
        /\ run[r].todo > 0 /\ new.at = "on" /\ new.todo = run[r].todo - 1 /\ new.used = run[r].used
        /\ a.chars = agent[Of(r)].chars /\ a.here = agent[Of(r)].here
        /\ new.floor = run[r].floor \/ new.floor = [run[r].floor EXCEPT ![k] = disk[k]]
    BY <2>0 DEF EditsTo
  <2>2. \A j \in Keys : new.floor[j] <= disk[j]
    BY <1>1, <1>2, <1>3, <2>1 DEF RunType
  <2>3. new.todo + Cardinality(flying[r]) <= MaxBatch /\ new.todo + Cardinality(flying[r]) <= new.used
    BY <1>1, <1>2, <2>1, Limits DEF OneRun, Active
  <2>. QED
    BY <1>1, <1>2, <1>3, <2>1, <2>2, <2>3, OneRunKeeps DEF ServeCounts
<1>7. ASSUME NEW k \in Keys, Refuse(r, k) PROVE Core'
  <2>0. PICK new \in RunType, why \in {"budget", "capped", "ceiling"} : RefusesTo(r, k, new, why)
    BY <1>7, RefusesAre
  <2>1. /\ OneRun(r, new, TurnedAway(Seen(Of(r), k), why), flying[r])
        /\ cache' = Forgotten(Of(r), k) /\ serves' = Recounted(Of(r), k)
        /\ run[r].todo > 0 /\ new.at = "on" /\ new.todo = run[r].todo - 1
        /\ new.used = run[r].used /\ new.floor = run[r].floor
    BY <2>0 DEF RefusesTo
  <2>. DEFINE a == TurnedAway(Seen(Of(r), k), why)
  <2>2. /\ Seen(Of(r), k) \in AgentType /\ Seen(Of(r), k).chars = agent[Of(r)].chars
        /\ Seen(Of(r), k).here = agent[Of(r)].here
        /\ Forgotten(Of(r), k) \in [Keys -> Nat] /\ Recounted(Of(r), k) \in ServeCounts
        /\ \A j \in Keys : Forgotten(Of(r), k)[j] <= disk[j]
    BY <1>1, StartIs DEF ServeCounts
  <2>3. a \in AgentType /\ a.here <= a.chars
    <3>1. a \in AgentType /\ a.chars = Seen(Of(r), k).chars /\ a.here = Seen(Of(r), k).here
      BY <2>2, TurnedAwayIs
    <3>. QED
      BY <1>1, <2>2, <3>1
  <2>. HIDE DEF a
  <2>4. new.todo + Cardinality(flying[r]) <= MaxBatch /\ new.todo + Cardinality(flying[r]) <= new.used
    BY <1>1, <1>2, <2>1, Limits DEF OneRun, Active
  <2>5. OneRun(r, new, a, flying[r])
    BY <2>1 DEF a
  <2>. QED
    BY <1>1, <1>2, <1>3, <2>1, <2>2, <2>3, <2>4, <2>5, OneRunKeeps DEF ServeCounts
<1>8. ASSUME NEW k \in Keys, Hit(r, k) PROVE Core'
  <2>0. PICK new \in RunType, a \in AgentType, used \in RunType : HitsTo(r, k, new, a, used)
    BY <1>8, HitsAre
  <2>1. /\ OneRun(r, new, a, flying[r])
        /\ GivenTo(r, k, cache'[k], Generation(Of(r)), Recounted(Of(r), k), Seen(Of(r), k), used, new, a)
        /\ cache' = Forgotten(Of(r), k)
        /\ run[r].todo > 0 /\ used.at = "on" /\ used.todo = run[r].todo - 1
        /\ used.used = run[r].used /\ used.floor = run[r].floor
    BY <2>0 DEF HitsTo
  <2>2. /\ Seen(Of(r), k).chars = agent[Of(r)].chars
        /\ Seen(Of(r), k).here = agent[Of(r)].here /\ Forgotten(Of(r), k) \in [Keys -> Nat]
        /\ \A j \in Keys : Forgotten(Of(r), k)[j] <= disk[j]
    BY <1>1, StartIs
  <2>3. /\ new.at = "on" /\ new.todo = run[r].todo - 1 /\ new.used = run[r].used /\ new.floor = run[r].floor
        /\ a.here = agent[Of(r)].here /\ a.chars = agent[Of(r)].chars /\ serves' \in ServeCounts
    BY <2>1, <2>2 DEF GivenTo
  <2>4. new.todo + Cardinality(flying[r]) <= MaxBatch /\ new.todo + Cardinality(flying[r]) <= new.used
    BY <1>1, <1>2, <2>1, <2>3, Limits DEF OneRun, Active
  <2>. QED
    BY <1>1, <1>2, <1>3, <2>1, <2>2, <2>3, <2>4, OneRunKeeps DEF ServeCounts
<1>9. ASSUME NEW k \in Keys, Fetch(r, k) PROVE Core'
  <2>0. PICK new \in RunType, a \in AgentType, x \in FlightType : FetchesTo(r, k, new, a, x)
    BY <1>9, FetchesAre
  <2>1. /\ OneRun(r, new, a, flying[r] \cup {x})
        /\ cache' = Forgotten(Of(r), k) /\ serves' = Recounted(Of(r), k)
        /\ run[r].todo > 0 /\ new.at = "on" /\ new.todo = run[r].todo - 1
        /\ new.used = run[r].used /\ new.floor = run[r].floor
        /\ a.chars = agent[Of(r)].chars /\ a.here = agent[Of(r)].here
        /\ x.key = k /\ x.in = Generation(Of(r)) /\ x.since = disk[k]
    BY <2>0 DEF FetchesTo
  <2>2. /\ Forgotten(Of(r), k) \in [Keys -> Nat] /\ Recounted(Of(r), k) \in ServeCounts
        /\ \A j \in Keys : Forgotten(Of(r), k)[j] <= disk[j]
    BY <1>1, StartIs DEF ServeCounts
  <2>3. /\ IsFiniteSet(flying[r] \cup {x}) /\ Cardinality(flying[r] \cup {x}) \in Nat
        /\ Cardinality(flying[r] \cup {x}) <= Cardinality(flying[r]) + 1
    <3>1. IsFiniteSet(flying[r] \cup {x}) /\ Cardinality(flying[r] \cup {x}) =
            IF x \in flying[r] THEN Cardinality(flying[r]) ELSE Cardinality(flying[r]) + 1
      BY <1>2, FS_AddElement
    <3>. QED
      BY <1>2, <3>1
  <2>4. new.todo + Cardinality(flying[r] \cup {x}) <= MaxBatch /\ new.todo + Cardinality(flying[r] \cup {x}) <= new.used
    BY <1>1, <1>2, <2>1, <2>3, Limits DEF OneRun, Active
  <2>5. \A y \in flying[r] \cup {x} : y.since \in 1..disk[y.key] /\ y.in <= Generation(Of(r))
    BY <1>1, <1>2, <1>3, <2>1
  <2>. QED
    BY <1>1, <1>2, <1>3, <2>1, <2>2, <2>3, <2>4, <2>5, OneRunKeeps DEF ServeCounts
<1>10. ASSUME NEW x \in flying[r], Fetched(r, x) PROVE Core'
  <2>1. x \in FlightType /\ r \in Active /\ x.key \in Keys /\ x.since \in 1..disk[x.key]
    BY <1>2, <1>10, FetchedIs DEF FlightType
  <2>0. PICK new \in RunType, a \in AgentType, b \in AgentType, v \in x.since..disk[x.key] : FetchedTo(r, x, new, a, b, v)
    BY <1>10, FetchedIs
  <2>2. /\ OneRun(r, new, a, flying[r] \ {x})
        /\ GivenTo(r, x.key, v, x.in, serves, b, run[r], new, a)
        /\ cache' = [cache EXCEPT ![x.key] = v]
        /\ b.chars = agent[Of(r)].chars + SizeOf[x.key] /\ b.here = agent[Of(r)].here + SizeOf[x.key]
    BY <2>0 DEF FetchedTo
  <2>3. cache' \in [Keys -> Nat] /\ \A j \in Keys : cache'[j] <= disk[j]
    BY <1>3, <2>1, <2>2
  <2>4. /\ new.at = "on" /\ new.todo = run[r].todo /\ new.used = run[r].used /\ new.floor = run[r].floor
        /\ serves' \in ServeCounts /\ a.here = b.here /\ a.chars = b.chars
    BY <2>1, <2>2 DEF GivenTo, Active
  <2>5. a.here <= a.chars
    <3>1. SizeOf[x.key] \in Nat /\ agent[Of(r)].here \in Nat /\ agent[Of(r)].chars \in Nat
      BY <1>1, <2>1, Limits DEF AgentType
    <3>. QED
      BY <1>1, <2>2, <2>4, <3>1
  <2>6. /\ IsFiniteSet(flying[r] \ {x}) /\ Cardinality(flying[r] \ {x}) = Cardinality(flying[r]) - 1
    BY <1>2, FS_RemoveElement
  <2>7. new.todo + Cardinality(flying[r] \ {x}) <= MaxBatch /\ new.todo + Cardinality(flying[r] \ {x}) <= new.used
    BY <1>1, <1>2, <2>1, <2>4, <2>6, Limits DEF Active
  <2>. QED
    BY <1>1, <1>2, <1>3, <2>2, <2>3, <2>4, <2>5, <2>6, <2>7, OneRunKeeps DEF ServeCounts
<1>11. CASE Unpassed(r)
  <2>0. PICK new \in RunType : UnpassedTo(r, new)
    BY <1>11, UnpassedIs
  <2>1. /\ OneRun(r, new, agent[Of(r)], flying[r]) /\ UNCHANGED <<cache, serves>>
        /\ run[r].todo > 0 /\ new.at = "on" /\ new.todo = run[r].todo - 1
        /\ new.used = run[r].used /\ new.floor = run[r].floor
    BY <2>0 DEF UnpassedTo
  <2>2. new.todo + Cardinality(flying[r]) <= MaxBatch /\ new.todo + Cardinality(flying[r]) <= new.used
    BY <1>1, <1>2, <2>1, Limits DEF OneRun, Active
  <2>. QED
    BY <1>1, <1>2, <1>3, <2>1, <2>2, OneRunKeeps DEF ServeCounts
<1>. QED
  BY <1>4, <1>5, <1>6, <1>7, <1>8, <1>9, <1>10, <1>11

-----------------------------------------------------------------------------
(* A delegation, to one member or to all: the runs of those it names are   *)
(* joined, and each may begin one.                                         *)
Like(a, b) ==
  /\ a.chars = b.chars /\ a.counted = b.counted /\ a.fired = b.fired /\ a.failed = b.failed
  /\ a.here <= b.here
Begins(M) ==
  /\ M \subseteq Readers /\ asked < MaxAsked /\ asked' = asked + 1
  /\ begun' \in [own : [Readers -> 0..MaxAsked], all : 0..MaxAsked]
  /\ \A m \in Readers : /\ begun'.own[m] <= begun.own[m] + 1 /\ Generation(m) <= Generation(m)'
                        /\ m \notin M => Generation(m)' = Generation(m)
  /\ begun'.all <= begun.all + 1
  /\ run' \in Seq(RunType) /\ Len(run) <= Len(run') /\ Len(run') <= Len(run) + Cardinality(Readers)
  /\ \A s \in DOMAIN run :
       run'[s] = IF Of(s) \in M /\ s \in Active THEN [run[s] EXCEPT !.plain = FALSE] ELSE run[s]
  /\ \A s \in DOMAIN run' \ DOMAIN run :
       \E m \in M, fresh \in BOOLEAN :
         run'[s] = NewRun(m, fresh) /\ (fresh => Generation(m) < Generation(m)')
  /\ \A s, t \in DOMAIN run' \ DOMAIN run : run'[s].of = run'[t].of => s = t
  /\ agent' \in [Readers -> AgentType]
  /\ \A m \in Readers : /\ Like(agent'[m], agent[m])
                        /\ agent'[m] = agent[m] \/ (m \in M /\ agent'[m].streak = 0)
  /\ UNCHANGED <<disk, cache, serves, flying, extra>>

(* The runs that are joined.                                               *)
LEMMA JoinedIs ==
  ASSUME ReadTypes, NEW M
  PROVE  /\ Joined(M) \in Seq(RunType) /\ Len(Joined(M)) = Len(run) /\ Len(run) \in Nat
         /\ DOMAIN run = 1..Len(run) /\ DOMAIN Joined(M) = 1..Len(run)
         /\ \A s \in DOMAIN run : Joined(M)[s] =
              IF Of(s) \in M /\ s \in Active THEN [run[s] EXCEPT !.plain = FALSE] ELSE run[s]
<1>1. DOMAIN run = 1..Len(run) /\ Len(run) \in Nat /\ run \in [1..Len(run) -> RunType]
  BY LenProperties DEF ReadTypes
<1>2. \A s \in DOMAIN run : [run[s] EXCEPT !.plain = FALSE] \in RunType
  <2>1. \A x \in RunType : [x EXCEPT !.plain = FALSE] \in RunType
    BY DEF RunType
  <2>. QED
    BY <1>1, <2>1
<1>3. \A s \in DOMAIN run : Joined(M)[s] =
              IF Of(s) \in M /\ s \in Active THEN [run[s] EXCEPT !.plain = FALSE] ELSE run[s]
  BY DEF Joined, Of
<1>4. Joined(M) \in [1..Len(run) -> RunType]
  BY <1>1, <1>2 DEF Joined
<1>5. Joined(M) \in Seq(RunType) /\ DOMAIN Joined(M) = 1..Len(run)
  BY <1>1, <1>4, SeqDef
<1>. QED
  BY <1>1, <1>3, <1>5, LenProperties

(* A run at its beginning.                                                 *)
LEMMA NewRunIs ==
  ASSUME NEW m \in Readers, NEW fresh \in BOOLEAN
  PROVE  /\ NewRun(m, fresh) \in RunType /\ NewRun(m, fresh).of = m /\ NewRun(m, fresh).at = "on"
         /\ NewRun(m, fresh).todo = 0 /\ NewRun(m, fresh).used = 0 /\ NewRun(m, fresh).row = 0
         /\ NewRun(m, fresh).has = {} /\ NewRun(m, fresh).fresh = fresh
         /\ (NewRun(m, fresh).plain <=> ActiveOf(m) = {})
         /\ ~NewRun(m, fresh).unseen /\ ~NewRun(m, fresh).refused /\ ~NewRun(m, fresh).misled
         /\ \A k \in Keys : NewRun(m, fresh).floor[k] = 0
<1>. DEFINE none == [k \in Keys |-> Nothing]
            plain == ActiveOf(m) = {}
<1>1. none \in [Keys -> Nat] /\ \A k \in Keys : none[k] = 0
  BY DEF Nothing
<1>2. plain \in BOOLEAN
  OBVIOUS
<1>3. NewRun(m, fresh) =
        [of |-> m, at |-> "on", todo |-> 0, used |-> 0, has |-> {}, floor |-> none, row |-> 0,
         unseen |-> FALSE, refused |-> FALSE, misled |-> FALSE, fresh |-> fresh, plain |-> plain]
  BY DEF NewRun
<1>. HIDE DEF none, plain
<1>4. {} \in SUBSET Keys /\ 0 \in 0..MaxBatch /\ 0 \in 0..ToolLimit
  BY Limits
<1>5. /\ NewRun(m, fresh) \in RunType /\ NewRun(m, fresh).floor = none
      /\ (NewRun(m, fresh).plain <=> plain)
  BY <1>1, <1>2, <1>3, <1>4 DEF RunType
<1>. QED
  BY <1>1, <1>3, <1>5 DEF plain

(* A delegation to one member.                                             *)
LEMMA DelegateBegins ==
  ASSUME Core, NEW m \in Readers, Delegate(m)
  PROVE  Begins({m})
<1>. USE DEF Core
<1>1. /\ asked < MaxAsked /\ asked' = asked + 1 /\ begun' = [begun EXCEPT !.own = Own(m)]
      /\ agent' = [agent EXCEPT ![m] = Renewed(m)]
      /\ UNCHANGED <<disk, cache, serves, flying, extra>>
  BY DEF Delegate
<1>2. /\ asked \in 0..MaxAsked /\ MaxAsked \in Nat /\ begun \in [own : [Readers -> 0..MaxAsked], all : 0..MaxAsked]
      /\ \A p \in Readers : begun.own[p] <= asked
  BY Limits DEF ReadTypes, Bounds
<1>3. /\ begun'.all = begun.all /\ begun' \in [own : [Readers -> 0..MaxAsked], all : 0..MaxAsked]
      /\ \A p \in Readers : begun'.own[p] = IF p = m /\ m \notin TwoWords THEN begun.own[p] + 1 ELSE begun.own[p]
  <2>1. /\ Own(m) \in [Readers -> 0..MaxAsked]
        /\ \A p \in Readers : Own(m)[p] = IF p = m /\ m \notin TwoWords THEN begun.own[p] + 1 ELSE begun.own[p]
    <3>1. begun.own \in [Readers -> 0..MaxAsked] /\ begun.own[m] + 1 \in 0..MaxAsked
      BY <1>1, <1>2
    <3>. QED
      BY <3>1 DEF Own
  <2>. QED
    BY <1>1, <1>2, <2>1
<1>4. \A p \in Readers : /\ Generation(p) <= Generation(p)' /\ (p # m => Generation(p)' = Generation(p))
                         /\ (p = m /\ m \notin TwoWords /\ begun.all <= begun.own[m] => Generation(p) < Generation(p)')
  <2>. SUFFICES ASSUME NEW p \in Readers
                PROVE  /\ Generation(p) <= Generation(p)' /\ (p # m => Generation(p)' = Generation(p))
                       /\ (p = m /\ m \notin TwoWords /\ begun.all <= begun.own[m] => Generation(p) < Generation(p)')
    OBVIOUS
  <2>1. begun.own[p] \in Nat /\ begun.all \in Nat
    BY <1>2
  <2>. DEFINE own == begun'.own[p]
              all == begun'.all
  <2>2. Generation(p)' = Larger(own, all) /\ Generation(p) = Larger(begun.own[p], begun.all)
    BY DEF Generation
  <2>3. all = begun.all /\ own = IF p = m /\ m \notin TwoWords THEN begun.own[p] + 1 ELSE begun.own[p]
    BY <1>3
  <2>. HIDE DEF own, all
  <2>. QED
    BY <2>1, <2>2, <2>3 DEF Larger
<1>5. /\ agent' \in [Readers -> AgentType]
      /\ \A p \in Readers : /\ Like(agent'[p], agent[p])
                            /\ agent'[p] = agent[p] \/ (p \in {m} /\ agent'[p].streak = 0)
  <2>1. agent \in [Readers -> AgentType] /\ agent[m] \in AgentType
    BY DEF ReadTypes
  <2>2. Renewed(m) \in AgentType /\ Like(Renewed(m), agent[m])
        /\ (Renewed(m) = agent[m] \/ Renewed(m).streak = 0)
    <3>1. CASE m \in TwoWords
      BY <2>1, <3>1 DEF Renewed, Like, AgentType
    <3>2. CASE m \notin TwoWords
      <4>. DEFINE silent == agent[m].silent /\ ~agent[m].known
      <4>1. silent \in BOOLEAN
        OBVIOUS
      <4>2. Renewed(m) = [agent[m] EXCEPT !.streak = 0, !.here = 0, !.refusals = 0, !.silent = silent]
        BY <3>2 DEF Renewed
      <4>. HIDE DEF silent
      <4>3. 0 \in 0..StubLimit /\ 0 \in 0..(MaxRefusals + 1) /\ 0 \in Nat
        BY Limits
      <4>. DEFINE a == [agent[m] EXCEPT !.streak = 0, !.here = 0]
                  b == [a EXCEPT !.refusals = 0, !.silent = silent]
      <4>4. a \in AgentType /\ a.streak = 0 /\ a.here = 0
            /\ a.chars = agent[m].chars /\ a.counted = agent[m].counted
            /\ a.fired = agent[m].fired /\ a.failed = agent[m].failed
        BY <2>1, <4>3 DEF AgentType
      <4>5. b = Renewed(m)
        BY <2>1, <4>2 DEF AgentType
      <4>. HIDE DEF a
      <4>6. b \in AgentType /\ b.streak = a.streak /\ b.here = a.here
            /\ b.chars = a.chars /\ b.counted = a.counted
            /\ b.fired = a.fired /\ b.failed = a.failed
        BY <4>1, <4>3, <4>4 DEF AgentType
      <4>7. agent[m].here \in Nat
        BY <2>1 DEF AgentType
      <4>. HIDE DEF b
      <4>. QED
        BY <4>4, <4>5, <4>6, <4>7 DEF Like
    <3>. QED
      BY <3>1, <3>2
  <2>3. \A p \in Readers : agent'[p] = IF p = m THEN Renewed(m) ELSE agent[p]
    BY <1>1, <2>1
  <2>4. \A p \in Readers : Like(agent[p], agent[p])
    BY <2>1 DEF Like, AgentType
  <2>. QED
    BY <1>1, <2>1, <2>2, <2>3, <2>4
<1>6. Cardinality(Readers) >= 1
  <2>1. Cardinality(Readers) # 0
    BY Limits, FS_EmptySet
  <2>. QED
    BY <2>1, Limits
<1>. DEFINE J == Joined({m})
<1>7. /\ J \in Seq(RunType) /\ Len(J) = Len(run) /\ Len(run) \in Nat
      /\ DOMAIN run = 1..Len(run) /\ DOMAIN J = 1..Len(run)
      /\ \A s \in DOMAIN run : J[s] =
           IF Of(s) \in {m} /\ s \in Active THEN [run[s] EXCEPT !.plain = FALSE] ELSE run[s]
  BY JoinedIs
<1>. HIDE DEF J
<1>10. \A p \in Readers : begun'.own[p] <= begun.own[p] + 1 /\ begun.own[p] \in Nat
  BY <1>2, <1>3
<1>11. /\ begun' \in [own : [Readers -> 0..MaxAsked], all : 0..MaxAsked]
       /\ begun'.all <= begun.all + 1
       /\ \A p \in Readers : /\ begun'.own[p] <= begun.own[p] + 1 /\ Generation(p) <= Generation(p)'
                             /\ p \notin {m} => Generation(p)' = Generation(p)
  BY <1>2, <1>3, <1>4, <1>10
<1>8. CASE run' = J
  <2>1. DOMAIN run' \ DOMAIN run = {} /\ {m} \subseteq Readers
    BY <1>7, <1>8
  <2>2. run' \in Seq(RunType) /\ Len(run) <= Len(run') /\ Len(run') <= Len(run) + Cardinality(Readers)
    BY <1>6, <1>7, <1>8, Limits
  <2>3. \A s \in DOMAIN run : run'[s] =
           IF Of(s) \in {m} /\ s \in Active THEN [run[s] EXCEPT !.plain = FALSE] ELSE run[s]
    BY <1>7, <1>8
  <2>. QED
    BY <1>1, <1>10, <1>11, <1>5, <2>1, <2>2, <2>3 DEF Begins
<1>. DEFINE fresh == m \notin TwoWords /\ begun.all <= begun.own[m]
            new == NewRun(m, fresh)
<1>9. CASE run' = Append(J, new)
  <2>1. fresh \in BOOLEAN /\ (fresh => Generation(m) < Generation(m)')
    BY <1>4
  <2>. HIDE DEF fresh
  <2>2. new \in RunType /\ new.of = m
    BY <2>1, NewRunIs
  <2>3. /\ run' \in Seq(RunType) /\ Len(run') = Len(run) + 1
        /\ \A s \in 1..Len(run) : run'[s] = J[s]
        /\ run'[Len(run) + 1] = new
    BY <1>7, <1>9, <2>2, AppendProperties
  <2>4. DOMAIN run' = 1..(Len(run) + 1)
    BY <2>3, LenProperties
  <2>5. \A s \in DOMAIN run' \ DOMAIN run : s = Len(run) + 1
    BY <1>7, <2>4
  <2>6. \A s \in DOMAIN run' \ DOMAIN run : \E p \in {m}, fr \in BOOLEAN :
          run'[s] = NewRun(p, fr) /\ (fr => Generation(p) < Generation(p)')
    BY <2>1, <2>3, <2>5
  <2>9. \A s, t \in DOMAIN run' \ DOMAIN run : run'[s].of = run'[t].of => s = t
    BY <2>5
  <2>. HIDE DEF new
  <2>7. \A s \in DOMAIN run : run'[s] =
           IF Of(s) \in {m} /\ s \in Active THEN [run[s] EXCEPT !.plain = FALSE] ELSE run[s]
    BY <1>7, <2>3
  <2>8. Len(run) <= Len(run') /\ Len(run') <= Len(run) + Cardinality(Readers)
    BY <1>6, <1>7, <2>3, Limits
  <2>. QED
    BY <1>1, <1>10, <1>11, <1>5, <2>3, <2>6, <2>7, <2>8, <2>9 DEF Begins
<1>. QED
  BY <1>8, <1>9 DEF Delegate, J

(* A delegation to all of them.                                            *)
LEMMA BroadcastBegins ==
  ASSUME Core, Broadcast
  PROVE  Begins(Readers)
<1>. USE DEF Core
<1>1. /\ asked < MaxAsked /\ asked' = asked + 1 /\ begun' = [begun EXCEPT !.all = begun.all + 1]
      /\ agent' = [m \in Readers |->
           [agent[m] EXCEPT !.streak = 0, !.silent = agent[m].silent /\ ~agent[m].known]]
      /\ UNCHANGED <<disk, cache, serves, flying, extra>>
  BY DEF Broadcast
<1>2. PICK order \in [1..Cardinality(Readers) -> Readers] :
       /\ \A i, j \in DOMAIN order : order[i] = order[j] => i = j
       /\ run' = Joined(Readers) \o [i \in DOMAIN order |->
            NewRun(order[i], begun.own[order[i]] <= begun.all)]
  BY DEF Broadcast
<1>3. /\ asked \in 0..MaxAsked /\ MaxAsked \in Nat /\ begun \in [own : [Readers -> 0..MaxAsked], all : 0..MaxAsked]
      /\ begun.all <= asked
  BY Limits DEF ReadTypes, Bounds
<1>4. /\ begun'.all = begun.all + 1 /\ begun' \in [own : [Readers -> 0..MaxAsked], all : 0..MaxAsked]
      /\ begun'.own = begun.own
  <2>0. begun.all \in Nat /\ asked \in Nat /\ begun.all <= asked /\ asked < MaxAsked /\ MaxAsked \in Nat
    <3>1. asked < MaxAsked
      BY <1>1
    <3>2. begun.all \in Nat /\ asked \in Nat /\ begun.all <= asked /\ MaxAsked \in Nat
      BY <1>3
    <3>. QED
      BY <3>1, <3>2
  <2>1. begun.all + 1 \in 0..MaxAsked
    BY <2>0
  <2>. QED
    BY <1>1, <1>3, <2>1
<1>5. /\ begun' \in [own : [Readers -> 0..MaxAsked], all : 0..MaxAsked]
      /\ begun'.all <= begun.all + 1
      /\ \A p \in Readers : /\ begun'.own[p] <= begun.own[p] + 1 /\ Generation(p) <= Generation(p)'
                            /\ p \notin Readers => Generation(p)' = Generation(p)
                            /\ begun.own[p] <= begun.all => Generation(p) < Generation(p)'
  <2>1. SUFFICES ASSUME NEW p \in Readers
                 PROVE  /\ begun'.own[p] <= begun.own[p] + 1 /\ Generation(p) <= Generation(p)'
                        /\ begun.own[p] <= begun.all => Generation(p) < Generation(p)'
    BY <1>3, <1>4
  <2>. DEFINE own == begun'.own[p]
              all == begun'.all
  <2>2. Generation(p)' = Larger(own, all) /\ Generation(p) = Larger(begun.own[p], begun.all)
    BY DEF Generation
  <2>3. all = begun.all + 1 /\ own = begun.own[p] /\ begun.own[p] \in Nat /\ begun.all \in Nat
    BY <1>3, <1>4
  <2>. HIDE DEF own, all
  <2>4. Larger(begun.own[p], begun.all) <= Larger(own, all)
        /\ (begun.own[p] <= begun.all => Larger(begun.own[p], begun.all) < Larger(own, all))
    BY <2>3 DEF Larger
  <2>5. own <= begun.own[p] + 1
    BY <2>3
  <2>. QED
    BY <2>2, <2>4, <2>5 DEF own
<1>6. /\ agent' \in [Readers -> AgentType]
      /\ \A p \in Readers : Like(agent'[p], agent[p]) /\ agent'[p].streak = 0
  <2>1. ASSUME NEW p \in Readers
        PROVE  agent'[p] \in AgentType /\ Like(agent'[p], agent[p]) /\ agent'[p].streak = 0
    <3>. DEFINE silent == agent[p].silent /\ ~agent[p].known
    <3>1. agent'[p] = [agent[p] EXCEPT !.streak = 0, !.silent = silent]
      BY <1>1
    <3>2. silent \in BOOLEAN /\ 0 \in 0..StubLimit /\ agent[p] \in AgentType /\ agent[p].here \in Nat
      BY Limits DEF ReadTypes, AgentType
    <3>. HIDE DEF silent
    <3>3. /\ agent'[p] \in AgentType /\ agent'[p].streak = 0 /\ agent'[p].here = agent[p].here
          /\ agent'[p].chars = agent[p].chars /\ agent'[p].counted = agent[p].counted
          /\ agent'[p].fired = agent[p].fired /\ agent'[p].failed = agent[p].failed
      BY <3>1, <3>2 DEF AgentType
    <3>. QED
      BY <3>2, <3>3 DEF Like
  <2>2. agent' = [p \in Readers |-> agent'[p]]
    BY <1>1
  <2>. QED
    BY <2>1, <2>2
<1>. DEFINE J == Joined(Readers)
            C == Cardinality(Readers)
            T == [i \in DOMAIN order |-> NewRun(order[i], begun.own[order[i]] <= begun.all)]
<1>7. /\ J \in Seq(RunType) /\ Len(J) = Len(run) /\ Len(run) \in Nat
      /\ DOMAIN run = 1..Len(run) /\ DOMAIN J = 1..Len(run)
      /\ \A s \in DOMAIN run : J[s] =
           IF Of(s) \in Readers /\ s \in Active THEN [run[s] EXCEPT !.plain = FALSE] ELSE run[s]
  BY JoinedIs
<1>. HIDE DEF J
<1>8. C \in Nat /\ DOMAIN order = 1..C /\ \A i \in 1..C : order[i] \in Readers
  BY <1>2, Limits
<1>. HIDE DEF C
<1>9. T \in Seq(RunType) /\ Len(T) = C /\ \A i \in 1..C : T[i] = NewRun(order[i], begun.own[order[i]] <= begun.all)
  <2>1. \A i \in 1..C : T[i] = NewRun(order[i], begun.own[order[i]] <= begun.all) /\ T[i] \in RunType
    <3>1. ASSUME NEW i \in 1..C
          PROVE  NewRun(order[i], begun.own[order[i]] <= begun.all) \in RunType
      <4>1. order[i] \in Readers /\ (begun.own[order[i]] <= begun.all) \in BOOLEAN
        BY <1>8
      <4>. QED
        BY <4>1, NewRunIs
    <3>. QED
      BY <1>8, <3>1
  <2>2. T \in [1..C -> RunType]
    BY <1>8, <2>1
  <2>3. T \in Seq(RunType) /\ DOMAIN T = 1..C
    BY <1>8, <2>2, SeqDef
  <2>. HIDE DEF T
  <2>. QED
    BY <1>8, <2>1, <2>3, LenProperties
<1>10. run' = J \o T
  BY <1>2 DEF J
<1>. HIDE DEF T
<1>11. /\ run' \in Seq(RunType) /\ Len(run') = Len(run) + C
       /\ \A s \in 1..(Len(run) + C) : run'[s] = IF s <= Len(run) THEN J[s] ELSE T[s - Len(run)]
  <2>1. /\ J \o T \in Seq(RunType) /\ Len(J \o T) = Len(J) + Len(T)
        /\ \A s \in 1..(Len(J) + Len(T)) : (J \o T)[s] = IF s <= Len(J) THEN J[s] ELSE T[s - Len(J)]
    BY <1>7, <1>9, ConcatProperties
  <2>. QED
    BY <1>7, <1>9, <1>10, <2>1
<1>12. DOMAIN run' = 1..(Len(run) + C)
  BY <1>11, LenProperties
<1>13. \A s \in DOMAIN run' \ DOMAIN run :
         s - Len(run) \in 1..C /\ run'[s] = NewRun(order[s - Len(run)], begun.own[order[s - Len(run)]] <= begun.all)
  <2>1. ASSUME NEW s \in DOMAIN run' \ DOMAIN run PROVE s - Len(run) \in 1..C /\ run'[s] = T[s - Len(run)]
    <3>1. s \in 1..(Len(run) + C) /\ ~(s <= Len(run))
      BY <1>7, <1>8, <1>12
    <3>2. s - Len(run) \in 1..C
      BY <1>7, <1>8, <3>1
    <3>. QED
      BY <1>11, <3>1, <3>2
  <2>. QED
    BY <1>9, <2>1
<1>14. \A s \in DOMAIN run : run'[s] =
         IF Of(s) \in Readers /\ s \in Active THEN [run[s] EXCEPT !.plain = FALSE] ELSE run[s]
  <2>1. \A s \in DOMAIN run : s \in 1..(Len(run) + C) /\ s <= Len(run)
    BY <1>7, <1>8
  <2>2. \A s \in DOMAIN run : run'[s] = J[s]
    BY <1>11, <2>1
  <2>. QED
    BY <1>7, <2>2
<1>15. \A s \in DOMAIN run' \ DOMAIN run : \E p \in Readers, fr \in BOOLEAN :
         run'[s] = NewRun(p, fr) /\ (fr => Generation(p) < Generation(p)')
  <2>1. ASSUME NEW s \in DOMAIN run' \ DOMAIN run
        PROVE  \E p \in Readers, fr \in BOOLEAN :
                 run'[s] = NewRun(p, fr) /\ (fr => Generation(p) < Generation(p)')
    <3>1. PICK p \in Readers : p = order[s - Len(run)]
      BY <1>8, <1>13
    <3>5. (begun.own[p] <= begun.all) \in BOOLEAN
      OBVIOUS
    <3>2. PICK fr \in BOOLEAN : fr = (begun.own[p] <= begun.all)
      BY <3>5
    <3>3. run'[s] = NewRun(p, fr)
      BY <1>13, <3>1, <3>2
    <3>4. fr => Generation(p) < Generation(p)'
      BY <1>5, <3>2
    <3>. QED
      BY <3>3, <3>4
  <2>. QED
    BY <2>1
<1>16. \A s, t \in DOMAIN run' \ DOMAIN run : run'[s].of = run'[t].of => s = t
  <2>1. \A s \in DOMAIN run' \ DOMAIN run : run'[s].of = order[s - Len(run)]
    <3>1. ASSUME NEW i \in 1..C
          PROVE  NewRun(order[i], begun.own[order[i]] <= begun.all).of = order[i]
      <4>1. order[i] \in Readers /\ (begun.own[order[i]] <= begun.all) \in BOOLEAN
        BY <1>8
      <4>. QED
        BY <4>1, NewRunIs
    <3>. QED
      BY <1>13, <3>1
  <2>. QED
    <3>1. ASSUME NEW s \in DOMAIN run' \ DOMAIN run, NEW t \in DOMAIN run' \ DOMAIN run, run'[s].of = run'[t].of
          PROVE  s = t
      <4>1. order[s - Len(run)] = order[t - Len(run)] /\ s - Len(run) \in 1..C /\ t - Len(run) \in 1..C
        BY <1>13, <2>1, <3>1
      <4>2. s - Len(run) = t - Len(run) /\ s \in Int /\ t \in Int
        BY <1>2, <1>7, <1>8, <1>12, <4>1
      <4>. QED
        BY <1>7, <4>2
    <3>. QED
      BY <3>1
<1>17. Len(run) <= Len(run') /\ Len(run') <= Len(run) + C
  BY <1>7, <1>8, <1>11
<1>. QED
  BY <1>1, <1>5, <1>6, <1>11, <1>14, <1>15, <1>16, <1>17 DEF Begins, C

(* What is left of the runs after a delegation.                            *)
LEMMA BegunIs ==
  ASSUME Core, NEW M, Begins(M)
  PROVE  /\ DOMAIN run = 1..Len(run) /\ DOMAIN run' = 1..Len(run') /\ Len(run) \in Nat /\ Len(run') \in Nat
         /\ DOMAIN run \subseteq DOMAIN run' /\ Active' = Active \cup (DOMAIN run' \ DOMAIN run)
         /\ \A s \in DOMAIN run :
              /\ run'[s].of = Of(s) /\ run'[s].floor = run[s].floor /\ run'[s].todo = run[s].todo
              /\ run'[s].used = run[s].used /\ run'[s].at = run[s].at /\ run'[s].has = run[s].has
              /\ run'[s].refused = run[s].refused /\ run'[s].unseen = run[s].unseen
              /\ run'[s].misled = run[s].misled /\ run'[s].row = run[s].row
              /\ run'[s].fresh = run[s].fresh
              /\ (run'[s].plain <=> run[s].plain /\ ~(s \in Active /\ Of(s) \in M))
         /\ \A s \in DOMAIN run' \ DOMAIN run : \E m \in M, fresh \in BOOLEAN :
              /\ run'[s] = NewRun(m, fresh) /\ (fresh => Generation(m) < Generation(m)')
              /\ run'[s].of = m /\ m \in Readers
         /\ \A s \in DOMAIN run' \ DOMAIN run : s \notin DOMAIN run /\ (s \in Runs => flying[s] = {})
<1>1. /\ DOMAIN run = 1..Len(run) /\ DOMAIN run' = 1..Len(run') /\ Len(run) \in Nat /\ Len(run') \in Nat
      /\ run' \in Seq(RunType) /\ Len(run) <= Len(run')
  BY LenProperties DEF Core, ReadTypes, Begins
<1>2. DOMAIN run \subseteq DOMAIN run'
  BY <1>1
<1>3. ASSUME NEW s \in DOMAIN run
      PROVE   /\ run'[s].of = Of(s) /\ run'[s].floor = run[s].floor /\ run'[s].todo = run[s].todo
              /\ run'[s].used = run[s].used /\ run'[s].at = run[s].at /\ run'[s].has = run[s].has
              /\ run'[s].refused = run[s].refused /\ run'[s].unseen = run[s].unseen
              /\ run'[s].misled = run[s].misled /\ run'[s].row = run[s].row
              /\ run'[s].fresh = run[s].fresh
              /\ (run'[s].plain <=> run[s].plain /\ ~(s \in Active /\ Of(s) \in M))
  <2>1. run'[s] = IF Of(s) \in M /\ s \in Active THEN [run[s] EXCEPT !.plain = FALSE] ELSE run[s]
    BY DEF Begins
  <2>2. run[s] \in RunType
    BY RunIs DEF Core
  <2>. QED
    BY <2>1, <2>2 DEF RunType, Of
<1>4. ASSUME NEW s \in DOMAIN run' \ DOMAIN run
      PROVE  \E m \in M, fresh \in BOOLEAN :
              /\ run'[s] = NewRun(m, fresh) /\ (fresh => Generation(m) < Generation(m)')
              /\ run'[s].of = m /\ m \in Readers /\ run'[s].at = "on"
  <2>1. PICK m \in M, fresh \in BOOLEAN :
          run'[s] = NewRun(m, fresh) /\ (fresh => Generation(m) < Generation(m)')
    BY DEF Begins
  <2>2. m \in Readers
    BY DEF Begins
  <2>. QED
    BY <2>1, <2>2, NewRunIs
<1>5. Active' = Active \cup (DOMAIN run' \ DOMAIN run)
  BY <1>2, <1>3, <1>4 DEF Active
<1>. QED
  BY <1>1, <1>2, <1>3, <1>4, <1>5 DEF Core, Single

(* Every run that there will be has its place for calls.                   *)
LEMMA Places ==
  ASSUME ReadTypes', Bounds'
  PROVE  \A s \in DOMAIN run' : s \in Runs
<1>1. DOMAIN run' = 1..Len(run') /\ Len(run') \in Nat /\ asked' \in 0..MaxAsked
  BY LenProperties DEF ReadTypes
<1>2. Len(run') <= asked' * Cardinality(Readers)
  BY DEF Bounds
<1>3. asked' * Cardinality(Readers) <= MaxAsked * Cardinality(Readers)
      /\ asked' * Cardinality(Readers) \in Nat /\ MaxAsked * Cardinality(Readers) \in Nat
  <2>1. \A n \in 0..MaxAsked : n * Cardinality(Readers) <= MaxAsked * Cardinality(Readers)
           /\ n * Cardinality(Readers) \in Nat /\ MaxAsked * Cardinality(Readers) \in Nat
    BY Limits, Products
  <2>. QED
    BY <1>1, <2>1
<1>. QED
  BY <1>1, <1>2, <1>3 DEF Runs

(* A delegation keeps the core.                                            *)
LEMMA BeginKeepsCore ==
  ASSUME Core, NEW M, Begins(M)
  PROVE  Core'
<1>1. /\ DOMAIN run = 1..Len(run) /\ DOMAIN run' = 1..Len(run') /\ Len(run) \in Nat /\ Len(run') \in Nat
      /\ DOMAIN run \subseteq DOMAIN run' /\ Active' = Active \cup (DOMAIN run' \ DOMAIN run)
      /\ \A s \in DOMAIN run :
           /\ run'[s].of = Of(s) /\ run'[s].floor = run[s].floor /\ run'[s].todo = run[s].todo
           /\ run'[s].used = run[s].used /\ run'[s].at = run[s].at
           /\ (run'[s].plain <=> run[s].plain /\ ~(s \in Active /\ Of(s) \in M))
  BY BegunIs
<1>2. \A s \in DOMAIN run' \ DOMAIN run : \E m \in M, fresh \in BOOLEAN :
           run'[s] = NewRun(m, fresh) /\ run'[s].of = m /\ m \in Readers
  BY BegunIs
<1>3. /\ asked < MaxAsked /\ asked' = asked + 1 /\ asked \in 0..MaxAsked /\ asked' \in 0..MaxAsked
      /\ begun' \in [own : [Readers -> 0..MaxAsked], all : 0..MaxAsked]
      /\ run' \in Seq(RunType) /\ agent' \in [Readers -> AgentType]
      /\ UNCHANGED <<disk, cache, serves, flying, extra>>
  <2>1. /\ asked < MaxAsked /\ asked' = asked + 1 /\ asked \in 0..MaxAsked /\ MaxAsked \in Nat
    BY Limits DEF Begins, Core, ReadTypes
  <2>2. /\ begun' \in [own : [Readers -> 0..MaxAsked], all : 0..MaxAsked]
        /\ run' \in Seq(RunType) /\ agent' \in [Readers -> AgentType]
        /\ UNCHANGED <<disk, cache, serves, flying, extra>>
    BY DEF Begins
  <2>. QED
    BY <2>1, <2>2
<1>4. ReadTypes'
  BY <1>3 DEF Core, ReadTypes, Runs
<1>5. Bounds'
  <2>1. Len(run') <= asked' * Cardinality(Readers)
    <3>1. Len(run) <= asked * Cardinality(Readers) /\ Len(run') <= Len(run) + Cardinality(Readers)
      BY DEF Begins, Core, Bounds
    <3>2. (asked + 1) * Cardinality(Readers) = asked * Cardinality(Readers) + Cardinality(Readers)
          /\ asked * Cardinality(Readers) \in Nat /\ Cardinality(Readers) \in Nat
      BY <1>3, Limits, Products
    <3>. QED
      BY <1>1, <1>3, <3>1, <3>2
  <2>2. ASSUME NEW m \in Readers PROVE begun'.own[m] <= asked' /\ agent'[m].here <= agent'[m].chars
    <3>1. /\ begun'.own[m] <= begun.own[m] + 1 /\ begun.own[m] <= asked
          /\ agent[m].here <= agent[m].chars /\ Like(agent'[m], agent[m])
          /\ agent[m] \in AgentType /\ agent'[m] \in AgentType
          /\ begun.own[m] \in Nat /\ begun'.own[m] \in Nat
      BY <1>3 DEF Begins, Core, Bounds, ReadTypes
    <3>2. begun'.own[m] <= asked'
      BY <1>3, <3>1
    <3>3. agent'[m].here <= agent'[m].chars
      BY <3>1 DEF Like, AgentType
    <3>. QED
      BY <3>2, <3>3
  <2>3. begun'.all <= asked'
    <3>1. begun'.all <= begun.all + 1 /\ begun.all <= asked /\ begun.all \in Nat /\ begun'.all \in Nat
      BY <1>3 DEF Begins, Core, Bounds, ReadTypes
    <3>. QED
      BY <1>3, <3>1
  <2>4. \A k \in Keys : cache[k] <= disk[k]
    BY DEF Core, Bounds
  <2>. QED
    BY <1>3, <2>1, <2>2, <2>3, <2>4 DEF Bounds
<1>6. \A s \in DOMAIN run' : s \in Runs
  BY <1>4, <1>5, Places
<1>7. ASSUME NEW s \in DOMAIN run' PROVE Sound(s)'
  <2>1. CASE s \in DOMAIN run
    <3>1. Sound(s) /\ Of(s) \in Readers /\ flying[s] \subseteq FlightType /\ Generation(Of(s)) \in 0..MaxAsked
      BY <2>1, RunIs DEF Core
    <3>2. Generation(Of(s)) <= Generation(Of(s))' /\ Generation(Of(s))' \in Nat
      <4>1. Of(s)' = Of(s)
        BY <1>1, <2>1 DEF Of
      <4>2. PICK m \in Readers : m = Of(s)
        BY <3>1
      <4>3. Generation(m) <= Generation(m)' /\ Generation(m)' \in Nat
        BY <1>3 DEF Begins, Generation, Larger
      <4>4. Generation(Of(s))' = Generation(m)' /\ Generation(Of(s)) = Generation(m)
        BY <4>1, <4>2 DEF Generation, Larger
      <4>. QED
        BY <4>3, <4>4
    <3>3. \A x \in flying[s] : x.in \in Nat /\ x.in <= Generation(Of(s))
      BY <3>1 DEF FlightType, Sound
    <3>4. \A x \in flying[s] : x.in <= Generation(Of(s))'
      BY <3>1, <3>2, <3>3
    <3>. QED
      BY <1>1, <1>3, <2>1, <3>1, <3>4 DEF Sound
  <2>2. CASE s \notin DOMAIN run
    <3>1. PICK m \in Readers, fresh \in BOOLEAN : run'[s] = NewRun(m, fresh)
      BY <1>2, <2>2
    <3>2. run'[s].at = "on" /\ run'[s].todo = 0 /\ run'[s].used = 0 /\ \A k \in Keys : run'[s].floor[k] = 0
      BY <3>1, NewRunIs
    <3>3. flying'[s] = {} /\ IsFiniteSet(flying'[s]) /\ Cardinality(flying'[s]) = 0
      BY <1>3, <1>6, <2>2, FS_EmptySet DEF Core, Single
    <3>4. \A k \in Keys : disk'[k] \in Nat
      BY <1>3 DEF Core, ReadTypes
    <3>. QED
      BY <3>2, <3>3, <3>4, Limits DEF Sound
  <2>. QED
    BY <2>1, <2>2
<1>8. Single'
  <2>1. ASSUME NEW s \in Active', NEW t \in Active', s # t, run'[s].of = run'[t].of PROVE ~run'[s].plain
    <3>1. s \in DOMAIN run' /\ t \in DOMAIN run'
      BY DEF Active
    <3>2. CASE s \in DOMAIN run
      <4>1. s \in Active
        BY <1>1, <3>2
      <4>2. CASE t \in DOMAIN run
        <5>1. t \in Active /\ Of(s) = Of(t)
          BY <1>1, <2>1, <3>2, <4>2
        <5>2. ~run[s].plain
          BY <2>1, <4>1, <5>1 DEF Core, Single
        <5>. QED
          BY <1>1, <3>2, <5>2
      <4>3. CASE t \notin DOMAIN run
        <5>1. run'[t].of \in M
          BY <1>2, <3>1, <4>3
        <5>. QED
          BY <1>1, <2>1, <3>2, <4>1, <5>1
      <4>. QED
        BY <4>2, <4>3
    <3>3. CASE s \notin DOMAIN run
      <4>1. PICK m \in Readers, fresh \in BOOLEAN : run'[s] = NewRun(m, fresh) /\ run'[s].of = m
        BY <1>2, <3>1, <3>3
      <4>2. t \in DOMAIN run
        BY <2>1, <3>1, <3>3 DEF Begins
      <4>3. t \in ActiveOf(m)
        <5>1. t \in Active /\ Of(t) = m
          BY <1>1, <2>1, <4>1, <4>2
        <5>. QED
          BY <5>1 DEF ActiveOf, Of
      <4>. QED
        BY <4>1, <4>3, NewRunIs
    <3>. QED
      BY <3>2, <3>3
  <2>2. \A s \in Runs \ DOMAIN run' : flying'[s] = {}
    BY <1>1, <1>3 DEF Core, Single
  <2>. QED
    BY <2>1, <2>2 DEF Single, Of, Runs
<1>. QED
  BY <1>4, <1>5, <1>7, <1>8 DEF Core

(* The reconciliation and a change of a text keep it.                      *)
LEMMA QuietKeepsCore ==
  ASSUME Core, Reconcile \/ \E k \in Keys : Changes(k)
  PROVE  /\ Core' /\ UNCHANGED <<cache, begun, serves, agent, run, flying, asked>>
         /\ disk' \in [Keys -> 1..MaxVersion] /\ \A k \in Keys : disk[k] <= disk'[k]
<1>1. UNCHANGED <<cache, begun, serves, agent, run, flying, asked>> /\ extra' \in {0, 1}
  BY DEF Reconcile, Changes, Core, ReadTypes
<1>2. disk' \in [Keys -> 1..MaxVersion] /\ \A k \in Keys : disk[k] <= disk'[k]
  <2>1. disk \in [Keys -> 1..MaxVersion] /\ MaxVersion \in Nat
    BY Limits DEF Core, ReadTypes
  <2>2. CASE Reconcile
    BY <2>1, <2>2 DEF Reconcile
  <2>3. ASSUME NEW j \in Keys, Changes(j) PROVE disk' \in [Keys -> 1..MaxVersion] /\ \A k \in Keys : disk[k] <= disk'[k]
    <3>1. disk[j] < MaxVersion /\ disk' = [disk EXCEPT ![j] = disk[j] + 1]
      BY <2>3 DEF Changes
    <3>2. disk[j] + 1 \in 1..MaxVersion
      BY <2>1, <3>1
    <3>. QED
      BY <2>1, <3>1, <3>2
  <2>. QED
    BY <2>2, <2>3
<1>3. ReadTypes'
  BY <1>1, <1>2 DEF Core, ReadTypes, Runs
<1>4. Bounds'
  <2>1. ASSUME NEW k \in Keys PROVE cache'[k] <= disk'[k]
    <3>1. cache[k] <= disk[k] /\ cache[k] \in Nat /\ disk[k] \in Nat /\ disk'[k] \in Nat /\ disk[k] <= disk'[k]
      BY <1>2 DEF Core, Bounds, ReadTypes
    <3>. QED
      BY <1>1, <3>1
  <2>. QED
    BY <1>1, <2>1 DEF Core, Bounds
<1>5. ASSUME NEW s \in DOMAIN run PROVE Sound(s)'
  <2>1. Sound(s) /\ run[s] \in RunType /\ flying[s] \subseteq FlightType
    BY RunIs DEF Core
  <2>2. \A k \in Keys : disk[k] \in Nat /\ disk'[k] \in Nat /\ disk[k] <= disk'[k]
    BY <1>2 DEF Core, ReadTypes
  <2>3. \A k \in Keys : run[s].floor[k] <= disk'[k]
    BY <2>1, <2>2 DEF Sound, RunType
  <2>4. ASSUME NEW x \in flying[s] PROVE x.since \in 1..disk'[x.key]
    <3>1. x.since \in 1..disk[x.key] /\ x.key \in Keys
      BY <2>1 DEF Sound, FlightType
    <3>. QED
      BY <2>2, <3>1
  <2>5. Generation(Of(s))' = Generation(Of(s))
    BY <1>1 DEF Of, Generation, Larger
  <2>. QED
    BY <1>1, <2>1, <2>3, <2>4, <2>5 DEF Sound
<1>6. Single'
  BY <1>1 DEF Core, Single, Active, Of, Runs
<1>. QED
  BY <1>1, <1>2, <1>3, <1>4, <1>5, <1>6 DEF Core

(* At the start.                                                           *)
LEMMA InitCore == ReadInit => Core
<1>. SUFFICES ASSUME ReadInit PROVE Core
  OBVIOUS
<1>1. /\ disk = [k \in Keys |-> 1] /\ cache = [k \in Keys |-> 0]
      /\ begun = [own |-> [m \in Readers |-> 0], all |-> 0]
      /\ serves = [s \in Readers \X (0..MaxAsked) \X Keys |-> 0]
      /\ run = << >> /\ flying = [r \in Runs |-> {}] /\ extra = 0 /\ asked = 0
  BY DEF ReadInit, Nothing
<1>2. \A m \in Readers : agent[m] \in AgentType /\ agent[m].here = 0 /\ agent[m].chars = 0
  <2>. DEFINE fetched == [k \in {"batch", "recall"} |-> 0]
              a == [streak |-> 0, chars |-> 0, here |-> 0, refusals |-> 0, silent |-> FALSE,
                    known |-> FALSE, counted |-> 0, fired |-> FALSE, failing |-> 0, fetched |-> fetched,
                    failed |-> {}]
  <2>1. \A m \in Readers : agent[m] = a
    BY DEF ReadInit
  <2>2. fetched \in [{"batch", "recall"} -> Nat]
    OBVIOUS
  <2>. HIDE DEF fetched
  <2>3. 0 \in 0..StubLimit /\ 0 \in 0..(MaxRefusals + 1) /\ 0 \in 0..Threshold /\ 0 \in 0..MaxFailures
        /\ {} \in SUBSET Keys
    BY Limits
  <2>4. a \in AgentType /\ a.here = 0 /\ a.chars = 0
    BY <2>2, <2>3 DEF AgentType
  <2>. HIDE DEF a
  <2>. QED
    BY <2>1, <2>4
<1>3. agent \in [Readers -> AgentType]
  <2>1. agent = [m \in Readers |-> agent[m]]
    BY DEF ReadInit
  <2>. QED
    BY <1>2, <2>1
<1>4. DOMAIN run = {} /\ Len(run) = 0 /\ run \in Seq(RunType)
  BY <1>1
<1>5. ReadTypes
  <2>1. 0 \in 0..MaxAsked /\ 1 \in 1..MaxVersion
    BY Limits
  <2>. QED
    BY <1>1, <1>3, <1>4, <2>1 DEF ReadTypes
<1>6. Bounds
  <2>1. 0 * Cardinality(Readers) = 0
    BY Limits
  <2>. QED
    BY <1>1, <1>2, <1>4, <2>1 DEF Bounds
<1>7. Single
  BY <1>1, <1>4 DEF Single, Active
<1>. QED
  BY <1>4, <1>5, <1>6, <1>7 DEF Core

(* What a step does, by kind.                                              *)
LEMMA StepIs ==
  ASSUME Core, ReadNext
  PROVE  \/ \E M : Begins(M)
         \/ Reconcile \/ \E k \in Keys : Changes(k)
         \/ \E r \in DOMAIN run :
              \/ Answers(r) \/ Unpassed(r) \/ \E n \in 1..MaxBatch : RepliesWith(r, n)
              \/ \E k \in Keys : Edit(r, k) \/ Refuse(r, k) \/ Hit(r, k) \/ Fetch(r, k)
              \/ \E x \in flying[r] : Fetched(r, x)
<1>1. CASE Broadcast
  BY <1>1, BroadcastBegins
<1>2. CASE \E m \in Readers : Delegate(m)
  BY <1>2, DelegateBegins
<1>. QED
  BY <1>1, <1>2 DEF ReadNext, Collapsed, Redirected

(* The core holds in every step.                                           *)
LEMMA CoreHolds == Core /\ [ReadNext]_readVars => Core'
<1>. SUFFICES ASSUME Core, [ReadNext]_readVars PROVE Core'
  OBVIOUS
<1>1. CASE ReadNext
  BY <1>1, StepIs, BeginKeepsCore, QuietKeepsCore, RunsKeepCore
<1>2. CASE UNCHANGED readVars
  <2>1. ReadTypes' /\ Bounds' /\ Single' /\ DOMAIN run' = DOMAIN run
    BY <1>2 DEF readVars, Core, ReadTypes, Bounds, Single, Active, Of, Runs
  <2>2. ASSUME NEW s \in DOMAIN run PROVE Sound(s)'
    <3>1. Sound(s)
      BY DEF Core
    <3>. QED
      BY <1>2, <3>1 DEF readVars, Sound, Of, Generation, Larger
  <2>. QED
    BY <2>1, <2>2 DEF Core
<1>. QED
  BY <1>1, <1>2

-----------------------------------------------------------------------------
(* What a member is charged                                                *)

(* A member that is not shared can pay for what it has under way: either   *)
(* it is within its budget and waits for nothing, or there is a key, no    *)
(* smaller than any it waits for, whose reads all fit in one reply.        *)
Fits(c, n, k) == c + n * SizeOf[k] < Budget + MaxBatch * SizeOf[k]
Pays(c, air) ==
  \/ c <= Budget /\ air = {}
  \/ \E k \in Keys : /\ Fits(c, 0, k) /\ Fits(c, Cardinality(air), k)
                     /\ \A x \in air : SizeOf[x.key] <= SizeOf[k]
Shared(m) == \E r \in DOMAIN run : Of(r) = m /\ ~run[r].plain
Charging ==
  \A m \in Readers :
    \/ Shared(m)
    \/ Pays(agent[m].chars, {}) /\ \A r \in ActiveOf(m) : Pays(agent[m].chars, flying[r])

(* Who can pay for what is under way can pay for nothing more.             *)
LEMMA PaysForNothing ==
  ASSUME NEW c, NEW air, Pays(c, air)
  PROVE  Pays(c, {})
<1>1. Cardinality({}) = 0
  BY FS_EmptySet
<1>. QED
  BY <1>1 DEF Pays

(* A step of a run concerns its own member only.                           *)
LEMMA PayingRun ==
  ASSUME Core, Charging, NEW r, NEW new, NEW a, NEW air, OneRun(r, new, a, air),
         Pays(agent[Of(r)].chars, flying[r]) => Pays(a.chars, air)
  PROVE  Charging'
<1>1. /\ r \in DOMAIN run /\ r \in Runs /\ Of(r) \in Readers
      /\ DOMAIN run' = DOMAIN run
      /\ \A s \in DOMAIN run : run'[s] = (IF s = r THEN new ELSE run[s]) /\ run'[s].of = Of(s)
      /\ \A m \in Readers : agent'[m] = IF m = Of(r) THEN a ELSE agent[m]
      /\ \A s \in Runs : flying'[s] = IF s = r THEN air ELSE flying[s]
      /\ Active' = {s \in DOMAIN run : (s = r /\ new.at = "on") \/ (s # r /\ s \in Active)}
      /\ \A s \in Active : s # r /\ Of(s) = Of(r) => ~run[s].plain
  BY OneRunIs
<1>2. r \in Active /\ (new.plain => run[r].plain)
  BY DEF OneRun
<1>3. \A s \in DOMAIN run : s \in Runs
  BY RunIs DEF Core
<1>4. SUFFICES ASSUME NEW m \in Readers, ~Shared(m)'
               PROVE  Pays(agent'[m].chars, {}) /\ \A s \in ActiveOf(m)' : Pays(agent'[m].chars, flying'[s])
  BY DEF Charging
<1>5. ~Shared(m)
  BY <1>1, <1>2, <1>4 DEF Shared, Of
<1>6. Pays(agent[m].chars, {}) /\ \A s \in ActiveOf(m) : Pays(agent[m].chars, flying[s])
  BY <1>5 DEF Charging
<1>7. CASE m = Of(r)
  <2>1. r \in ActiveOf(m)
    BY <1>2, <1>7 DEF ActiveOf, Of
  <2>2. Pays(a.chars, air) /\ Pays(a.chars, {})
    BY <1>6, <1>7, <2>1, PaysForNothing
  <2>3. \A s \in ActiveOf(m)' : s = r
    <3>1. ASSUME NEW s \in ActiveOf(m)', s # r PROVE FALSE
      <4>1. s \in Active' /\ run'[s].of = m
        BY DEF ActiveOf
      <4>2. s \in Active /\ Of(s) = m /\ s \in DOMAIN run
        BY <1>1, <3>1, <4>1 DEF Of
      <4>. QED
        BY <1>1, <1>5, <1>7, <3>1, <4>2 DEF Shared
    <3>. QED
      BY <3>1
  <2>. QED
    BY <1>1, <1>7, <2>2, <2>3
<1>8. CASE m # Of(r)
  <2>1. ASSUME NEW s \in ActiveOf(m)' PROVE s \in ActiveOf(m) /\ flying'[s] = flying[s]
    <3>1. s \in Active' /\ run'[s].of = m
      BY DEF ActiveOf
    <3>2. s \in Active /\ s \in DOMAIN run /\ Of(s) = m /\ s # r
      BY <1>1, <1>2, <1>8, <3>1 DEF Of
    <3>. QED
      BY <1>1, <1>3, <3>2 DEF ActiveOf, Of
  <2>. QED
    BY <1>1, <1>6, <1>8, <2>1
<1>. QED
  BY <1>7, <1>8

(* A read is only begun within the budget, and is charged what it costs.   *)
LEMMA ChargingKept ==
  ASSUME Core, Core', Charging, ReadNext
  PROVE  Charging'
<1>1. ASSUME NEW M, Begins(M) PROVE Charging'
  <2>1. /\ DOMAIN run \subseteq DOMAIN run' /\ Active' = Active \cup (DOMAIN run' \ DOMAIN run)
        /\ \A s \in DOMAIN run :
             run'[s].of = Of(s) /\ (run'[s].plain <=> run[s].plain /\ ~(s \in Active /\ Of(s) \in M))
        /\ \A s \in DOMAIN run' \ DOMAIN run : s \in Runs => flying[s] = {}
    BY <1>1, BegunIs
  <2>2. flying' = flying /\ \A m \in Readers : agent'[m].chars = agent[m].chars
    BY <1>1 DEF Begins, Like
  <2>3. \A s \in DOMAIN run' : s \in Runs
    BY Places DEF Core
  <2>4. SUFFICES ASSUME NEW m \in Readers, ~Shared(m)'
                 PROVE  Pays(agent'[m].chars, {}) /\ \A s \in ActiveOf(m)' : Pays(agent'[m].chars, flying'[s])
    BY DEF Charging
  <2>5. ~Shared(m)
    BY <2>1, <2>4 DEF Shared, Of
  <2>6. Pays(agent[m].chars, {}) /\ \A s \in ActiveOf(m) : Pays(agent[m].chars, flying[s])
    BY <2>5 DEF Charging
  <2>7. ASSUME NEW s \in ActiveOf(m)' PROVE Pays(agent'[m].chars, flying'[s])
    <3>1. s \in Active' /\ run'[s].of = m /\ s \in DOMAIN run'
      BY DEF ActiveOf, Active
    <3>2. CASE s \in DOMAIN run
      <4>1. s \in ActiveOf(m)
        BY <2>1, <3>1, <3>2 DEF ActiveOf, Of
      <4>. QED
        BY <2>2, <2>6, <4>1
    <3>3. CASE s \notin DOMAIN run
      BY <2>1, <2>2, <2>3, <2>6, <3>1, <3>3
    <3>. QED
      BY <3>2, <3>3
  <2>. QED
    BY <2>2, <2>6, <2>7
<1>2. CASE Reconcile \/ \E k \in Keys : Changes(k)
  <2>1. UNCHANGED <<agent, run, flying>>
    BY <1>2, QuietKeepsCore
  <2>. QED
    BY <2>1 DEF Charging, Shared, ActiveOf, Active, Of
<1>3. ASSUME NEW r \in DOMAIN run, Answers(r) PROVE Charging'
  <2>1. PICK new \in RunType : AnswersTo(r, new)
    BY <1>3, AnswersAre
  <2>. QED
    BY <2>1, PayingRun DEF AnswersTo
<1>4. ASSUME NEW r \in DOMAIN run, NEW n \in 1..MaxBatch, RepliesWith(r, n) PROVE Charging'
  <2>1. PICK new \in RunType, goes \in 0..n : RepliesTo(r, n, new, goes)
    BY <1>4, RepliesAre
  <2>. QED
    BY <2>1, PayingRun DEF RepliesTo
<1>5. ASSUME NEW r \in DOMAIN run, NEW k \in Keys, Edit(r, k) PROVE Charging'
  <2>1. PICK new \in RunType, a \in AgentType : EditsTo(r, k, new, a)
    BY <1>5, EditsAre
  <2>2. OneRun(r, new, a, flying[r]) /\ a.chars = agent[Of(r)].chars
    BY <2>1 DEF EditsTo
  <2>. QED
    BY <2>2, PayingRun
<1>6. ASSUME NEW r \in DOMAIN run, NEW k \in Keys, Refuse(r, k) PROVE Charging'
  <2>1. PICK new \in RunType, why \in {"budget", "capped", "ceiling"} : RefusesTo(r, k, new, why)
    BY <1>6, RefusesAre
  <2>. DEFINE a == TurnedAway(Seen(Of(r), k), why)
  <2>2. OneRun(r, new, a, flying[r])
    BY <2>1 DEF RefusesTo
  <2>3. Of(r) \in Readers /\ Generation(Of(r)) \in 0..MaxAsked
    BY RunIs DEF Core
  <2>4. a.chars = agent[Of(r)].chars
    BY <2>3, StartIs, TurnedAwayIs
  <2>. HIDE DEF a
  <2>. QED
    BY <2>2, <2>4, PayingRun
<1>7. ASSUME NEW r \in DOMAIN run, NEW k \in Keys, Hit(r, k) PROVE Charging'
  <2>1. PICK new \in RunType, a \in AgentType, used \in RunType : HitsTo(r, k, new, a, used)
    BY <1>7, HitsAre
  <2>3. Of(r) \in Readers /\ Generation(Of(r)) \in 0..MaxAsked
    BY RunIs DEF Core
  <2>2. OneRun(r, new, a, flying[r]) /\ a.chars = Seen(Of(r), k).chars
    BY <2>1 DEF HitsTo, GivenTo
  <2>4. a.chars = agent[Of(r)].chars
    BY <2>2, <2>3, StartIs
  <2>. QED
    BY <2>2, <2>4, PayingRun
<1>8. ASSUME NEW r \in DOMAIN run, NEW k \in Keys, Fetch(r, k) PROVE Charging'
  <2>1. PICK new \in RunType, a \in AgentType, x \in FlightType : FetchesTo(r, k, new, a, x)
    BY <1>8, FetchesAre
  <2>. DEFINE air == flying[r] \cup {x}
  <2>2. /\ OneRun(r, new, a, air) /\ a.chars = agent[Of(r)].chars /\ agent[Of(r)].chars < Budget
        /\ x.key = k
    BY <2>1 DEF FetchesTo
  <2>3. Cardinality(air) \in 0..MaxBatch
    <3>1. flying'[r] = air /\ r \in DOMAIN run' /\ run'[r] \in RunType
      <4>1. /\ r \in Runs /\ DOMAIN run' = DOMAIN run /\ run'[r] = new /\ new \in RunType
            /\ \A s \in Runs : flying'[s] = IF s = r THEN air ELSE flying[s]
        BY <2>2, OneRunIs
      <4>. QED
        BY <4>1
    <3>2. Sound(r)'
      BY <3>1 DEF Core
    <3>3. IsFiniteSet(air) /\ run'[r].todo + Cardinality(air) <= MaxBatch /\ run'[r].todo \in Nat
      BY <3>1, <3>2 DEF Sound, RunType
    <3>. QED
      BY <3>3, FS_CardinalityType, Limits
  <2>4. \A c \in Nat, n \in 0..MaxBatch, j \in Keys : c < Budget => Fits(c, n, j)
    <3>1. SUFFICES ASSUME NEW c \in Nat, NEW n \in 0..MaxBatch, NEW j \in Keys, c < Budget PROVE Fits(c, n, j)
      OBVIOUS
    <3>2. SizeOf[j] \in Nat /\ MaxBatch \in Nat /\ Budget \in Nat
      BY Limits
    <3>3. n * SizeOf[j] <= MaxBatch * SizeOf[j] /\ n * SizeOf[j] \in Nat /\ MaxBatch * SizeOf[j] \in Nat
      BY <3>2, Products
    <3>. QED
      BY <3>1, <3>2, <3>3 DEF Fits
  <2>5. a.chars \in Nat /\ 0 \in 0..MaxBatch /\ SizeOf \in [Keys -> Nat]
    BY Limits DEF AgentType
  <2>6. ASSUME Pays(agent[Of(r)].chars, flying[r]) PROVE Pays(a.chars, air)
    <3>1. PICK j \in Keys : SizeOf[k] <= SizeOf[j] /\ \A y \in flying[r] : SizeOf[y.key] <= SizeOf[j]
      <4>1. CASE flying[r] = {}
        BY <2>5, <4>1
      <4>2. CASE flying[r] # {}
        <5>1. PICK i \in Keys : \A y \in flying[r] : SizeOf[y.key] <= SizeOf[i]
          BY <2>6, <4>2 DEF Pays
        <5>2. CASE SizeOf[k] <= SizeOf[i]
          BY <5>1, <5>2
        <5>3. CASE ~(SizeOf[k] <= SizeOf[i])
          <6>1. SizeOf[i] <= SizeOf[k] /\ SizeOf[i] \in Nat /\ SizeOf[k] \in Nat
            BY <2>5, <5>3
          <6>2. flying[r] \subseteq FlightType
            BY RunIs DEF Core
          <6>3. \A y \in flying[r] : SizeOf[y.key] \in Nat
            BY <2>5, <6>2 DEF FlightType
          <6>4. \A y \in flying[r] : SizeOf[y.key] <= SizeOf[k]
            BY <5>1, <6>1, <6>3
          <6>. QED
            BY <6>1, <6>4
        <5>. QED
          BY <5>2, <5>3
      <4>. QED
        BY <4>1, <4>2
    <3>. HIDE DEF air
    <3>2. Fits(a.chars, 0, j) /\ Fits(a.chars, Cardinality(air), j)
      BY <2>2, <2>3, <2>4, <2>5
    <3>3. \A y \in air : SizeOf[y.key] <= SizeOf[j]
      BY <2>2, <3>1 DEF air
    <3>. QED
      BY <3>2, <3>3 DEF Pays
  <2>. HIDE DEF air
  <2>. QED
    BY <2>2, <2>6, PayingRun
<1>9. ASSUME NEW r \in DOMAIN run, NEW x \in flying[r], Fetched(r, x) PROVE Charging'
  <2>1. x \in FlightType /\ x.key \in Keys
    BY <1>9, FetchedIs DEF FlightType
  <2>2. PICK new \in RunType, a \in AgentType, b \in AgentType, v \in x.since..disk[x.key] : FetchedTo(r, x, new, a, b, v)
    BY <1>9, FetchedIs
  <2>. DEFINE air == flying[r] \ {x}
  <2>3. OneRun(r, new, a, air) /\ a.chars = agent[Of(r)].chars + SizeOf[x.key]
    BY <2>2 DEF FetchedTo, GivenTo
  <2>4. /\ IsFiniteSet(flying[r]) /\ Cardinality(flying[r]) \in Nat /\ Cardinality(air) \in Nat
        /\ Cardinality(flying[r]) = Cardinality(air) + 1
    <3>1. IsFiniteSet(flying[r])
      BY DEF Core, Sound
    <3>2. IsFiniteSet(air) /\ Cardinality(air) = Cardinality(flying[r]) - 1
      BY <3>1, FS_RemoveElement
    <3>3. Cardinality(flying[r]) \in Nat /\ Cardinality(air) \in Nat
      BY <3>1, <3>2, FS_CardinalityType
    <3>. HIDE DEF air
    <3>. QED
      BY <3>1, <3>2, <3>3
  <2>5. agent[Of(r)].chars \in Nat /\ SizeOf[x.key] \in Nat
    BY <2>1, RunIs, Limits DEF Core, AgentType
  <2>6. ASSUME Pays(agent[Of(r)].chars, flying[r]) PROVE Pays(a.chars, air)
    <3>1. PICK k \in Keys : /\ Fits(agent[Of(r)].chars, Cardinality(flying[r]), k)
                            /\ \A y \in flying[r] : SizeOf[y.key] <= SizeOf[k]
      BY <2>6 DEF Pays
    <3>. DEFINE n == Cardinality(air)
                c == agent[Of(r)].chars
    <3>2. /\ SizeOf[k] \in Nat /\ n \in Nat /\ c \in Nat /\ SizeOf[x.key] <= SizeOf[k]
          /\ c + (n + 1) * SizeOf[k] < Budget + MaxBatch * SizeOf[k]
          /\ Budget \in Nat /\ MaxBatch \in Nat
      BY <2>4, <2>5, <3>1, Limits DEF Fits
    <3>3. (n + 1) * SizeOf[k] = n * SizeOf[k] + SizeOf[k] /\ n * SizeOf[k] \in Nat /\ 0 * SizeOf[k] = 0
          /\ MaxBatch * SizeOf[k] \in Nat
      <4>1. (n + 1) * SizeOf[k] = n * SizeOf[k] + SizeOf[k] /\ n * SizeOf[k] \in Nat
        BY <3>2, Products
      <4>2. 0 * SizeOf[k] = 0 /\ MaxBatch * SizeOf[k] \in Nat
        BY <3>2
      <4>. QED
        BY <4>1, <4>2
    <3>. HIDE DEF n, c
    <3>4. Fits(c + SizeOf[x.key], n, k) /\ Fits(c + SizeOf[x.key], 0, k)
      BY <2>5, <3>2, <3>3 DEF Fits
    <3>5. Fits(a.chars, Cardinality(air), k) /\ Fits(a.chars, 0, k)
      BY <2>3, <3>4 DEF n, c
    <3>. QED
      BY <3>1, <3>5 DEF Pays
  <2>. HIDE DEF air
  <2>. QED
    BY <2>3, <2>6, PayingRun
<1>10. ASSUME NEW r \in DOMAIN run, Unpassed(r) PROVE Charging'
  <2>1. PICK new \in RunType : UnpassedTo(r, new)
    BY <1>10, UnpassedIs
  <2>. QED
    BY <2>1, PayingRun DEF UnpassedTo
<1>. QED
  BY <1>1, <1>2, <1>3, <1>4, <1>5, <1>6, <1>7, <1>8, <1>9, <1>10, StepIs

-----------------------------------------------------------------------------
(* How often a run is turned away                                          *)

(* The rows of stubs and refusals of a run that is alone are what its      *)
(* member's counters have seen of them.                                    *)
Owed(a, new) == a.silent \/ new.row <= Smaller(a.refusals, MaxRefusals) + a.streak
Turned ==
  /\ \A m \in Readers : agent[m].streak >= StubLimit => agent[m].silent
  /\ \A r \in Active : run[r].plain => Owed(agent[Of(r)], run[r])

(* A step of a run concerns its own member only.                           *)
LEMMA TurnedRun ==
  ASSUME Core, Turned, NEW r, NEW new, NEW a, NEW air, OneRun(r, new, a, air),
         a.streak >= StubLimit => a.silent,
         new.at = "on" /\ new.plain => Owed(a, new)
  PROVE  Turned'
<1>1. /\ r \in DOMAIN run /\ r \in Runs /\ Of(r) \in Readers
      /\ DOMAIN run' = DOMAIN run
      /\ \A s \in DOMAIN run : run'[s] = (IF s = r THEN new ELSE run[s]) /\ run'[s].of = Of(s)
      /\ \A m \in Readers : agent'[m] = IF m = Of(r) THEN a ELSE agent[m]
      /\ Active' = {s \in DOMAIN run : (s = r /\ new.at = "on") \/ (s # r /\ s \in Active)}
      /\ \A s \in Active : s # r /\ Of(s) = Of(r) => ~run[s].plain
  BY OneRunIs
<1>2. \A m \in Readers : agent'[m].streak >= StubLimit => agent'[m].silent
  BY <1>1 DEF Turned
<1>3. ASSUME NEW s \in Active', run'[s].plain PROVE Owed(agent'[Of(s)], run'[s])
  <2>1. s \in DOMAIN run /\ Of(s) \in Readers
    BY <1>1, RunIs DEF Core
  <2>2. CASE s = r
    BY <1>1, <1>3, <2>2
  <2>3. CASE s # r
    <3>1. s \in Active /\ run'[s] = run[s] /\ Of(s) # Of(r)
      BY <1>1, <1>3, <2>1, <2>3
    <3>. QED
      BY <1>1, <1>3, <2>1, <3>1 DEF Turned
  <2>. QED
    BY <2>2, <2>3
<1>4. \A s \in Active' : Of(s)' = Of(s)
  BY <1>1 DEF Of
<1>. QED
  BY <1>2, <1>3, <1>4 DEF Turned, Owed

(* What is given ends a row, or is a stub that is counted.                 *)
LEMMA GivenTurns ==
  ASSUME NEW r, NEW k, NEW v, NEW g, NEW kept, NEW b \in AgentType, NEW used \in RunType,
         NEW new \in RunType, NEW a \in AgentType, GivenTo(r, k, v, g, kept, b, used, new, a),
         b.streak >= StubLimit => b.silent, used.plain => Owed(b, used)
  PROVE  (a.streak >= StubLimit => a.silent) /\ (new.plain => Owed(a, new))
<1>1. new.plain = used.plain /\ a.refusals = b.refusals
  BY DEF GivenTo
<1>2. /\ MaxRefusals \in Nat /\ StubLimit \in Nat \ {0} /\ b.streak \in 0..StubLimit
      /\ b.refusals \in 0..(MaxRefusals + 1) /\ used.row \in Nat /\ new.row \in Nat
  BY Limits DEF AgentType, RunType
<1>3. CASE a = Bumped(b) /\ new.row <= used.row + 1
  <2>1. /\ a.streak = IF b.streak < StubLimit THEN b.streak + 1 ELSE StubLimit
        /\ (a.silent <=> b.silent \/ b.streak + 1 >= StubLimit)
    BY <1>3, BumpedIs
  <2>. QED
    BY <1>1, <1>2, <1>3, <2>1 DEF Owed, Smaller
<1>4. CASE a.streak = 0 /\ a.silent = b.silent /\ new.row = 0
  BY <1>1, <1>2, <1>4 DEF Owed, Smaller
<1>. QED
  BY <1>3, <1>4 DEF GivenTo

(* Every refusal and every stub is counted by one of the two limits.       *)
LEMMA TurnedKept ==
  ASSUME Core, Turned, ReadNext
  PROVE  Turned'
<1>0. ASSUME NEW r \in DOMAIN run
      PROVE  /\ run[r] \in RunType /\ Of(r) \in Readers /\ agent[Of(r)] \in AgentType
             /\ Generation(Of(r)) \in 0..MaxAsked
             /\ (agent[Of(r)].streak >= StubLimit => agent[Of(r)].silent)
             /\ (r \in Active /\ run[r].plain => Owed(agent[Of(r)], run[r]))
  BY RunIs DEF Core, Turned
<1>1. ASSUME NEW M, Begins(M) PROVE Turned'
  <2>1. /\ DOMAIN run \subseteq DOMAIN run' /\ Active' = Active \cup (DOMAIN run' \ DOMAIN run)
        /\ \A s \in DOMAIN run :
             /\ run'[s].of = Of(s) /\ run'[s].row = run[s].row
             /\ (run'[s].plain <=> run[s].plain /\ ~(s \in Active /\ Of(s) \in M))
        /\ \A s \in DOMAIN run' \ DOMAIN run : \E m \in M, fresh \in BOOLEAN :
             run'[s] = NewRun(m, fresh) /\ run'[s].of = m /\ m \in Readers
    BY <1>1, BegunIs
  <2>2. /\ agent' \in [Readers -> AgentType]
        /\ \A m \in Readers : agent'[m] = agent[m] \/ (m \in M /\ agent'[m].streak = 0)
    BY <1>1 DEF Begins
  <2>3. ASSUME NEW m \in Readers, agent'[m].streak >= StubLimit PROVE agent'[m].silent
    BY <2>2, <2>3, Limits DEF Turned
  <2>4. ASSUME NEW s \in Active', run'[s].plain PROVE Owed(agent'[run'[s].of], run'[s])
    <3>1. CASE s \in DOMAIN run
      <4>1. s \in Active /\ Of(s) \notin M /\ run[s].plain /\ Of(s) \in Readers
        BY <1>0, <2>1, <2>4, <3>1
      <4>2. agent'[Of(s)] = agent[Of(s)] /\ run'[s].row = run[s].row /\ run'[s].of = Of(s)
        BY <2>1, <2>2, <3>1, <4>1
      <4>. QED
        BY <1>0, <3>1, <4>1, <4>2 DEF Owed
    <3>2. CASE s \notin DOMAIN run
      <4>1. PICK m \in Readers, fresh \in BOOLEAN : run'[s] = NewRun(m, fresh) /\ run'[s].of = m
        <5>1. s \in DOMAIN run' \ DOMAIN run
          BY <2>1, <3>2 DEF Active
        <5>. QED
          BY <2>1, <5>1
      <4>2. run'[s].row = 0 /\ agent'[m] \in AgentType
        BY <2>2, <4>1, NewRunIs
      <4>3. agent'[m].refusals \in Nat /\ agent'[m].streak \in Nat /\ MaxRefusals \in Nat
        BY <4>2, Limits DEF AgentType
      <4>. QED
        BY <4>1, <4>2, <4>3 DEF Owed, Smaller
    <3>. QED
      BY <3>1, <3>2
  <2>. QED
    BY <2>3, <2>4 DEF Turned, Owed, Of
<1>2. CASE Reconcile \/ \E k \in Keys : Changes(k)
  <2>1. UNCHANGED <<agent, run>>
    BY <1>2, QuietKeepsCore
  <2>. QED
    BY <2>1 DEF Turned, Active, Of, Owed
<1>3. ASSUME NEW r \in DOMAIN run, Answers(r) PROVE Turned'
  <2>1. PICK new \in RunType : AnswersTo(r, new)
    BY <1>3, AnswersAre
  <2>2. OneRun(r, new, agent[Of(r)], flying[r]) /\ new.at = "over"
    BY <2>1 DEF AnswersTo
  <2>. QED
    BY <1>0, <2>2, TurnedRun
<1>4. ASSUME NEW r \in DOMAIN run, NEW n \in 1..MaxBatch, RepliesWith(r, n) PROVE Turned'
  <2>1. PICK new \in RunType, goes \in 0..n : RepliesTo(r, n, new, goes)
    BY <1>4, RepliesAre
  <2>2. /\ OneRun(r, new, agent[Of(r)], flying[r]) /\ new.row = run[r].row /\ new.plain = run[r].plain
        /\ r \in Active
    BY <2>1 DEF RepliesTo, OneRun
  <2>. QED
    BY <1>0, <2>2, TurnedRun DEF Owed
<1>5. ASSUME NEW r \in DOMAIN run, NEW k \in Keys, Edit(r, k) PROVE Turned'
  <2>1. PICK new \in RunType, a \in AgentType : EditsTo(r, k, new, a)
    BY <1>5, EditsAre
  <2>2. /\ OneRun(r, new, a, flying[r]) /\ new.row = run[r].row /\ (new.plain => run[r].plain)
        /\ r \in Active /\ a.streak = agent[Of(r)].streak /\ a.refusals = agent[Of(r)].refusals
        /\ (agent[Of(r)].silent => a.silent)
    BY <2>1 DEF EditsTo, OneRun
  <2>. QED
    BY <1>0, <2>2, TurnedRun DEF Owed
<1>6. ASSUME NEW r \in DOMAIN run, NEW k \in Keys, Refuse(r, k) PROVE Turned'
  <2>1. PICK new \in RunType, why \in {"budget", "capped", "ceiling"} : RefusesTo(r, k, new, why)
    BY <1>6, RefusesAre
  <2>. DEFINE b == Seen(Of(r), k)
              a == TurnedAway(b, why)
  <2>2. /\ OneRun(r, new, a, flying[r]) /\ new.plain = run[r].plain /\ r \in Active
        /\ new.row = (IF why = "capped" THEN run[r].row ELSE Up(run[r].row, MaxRefusals + StubLimit))
    BY <2>1 DEF RefusesTo, OneRun
  <2>3. /\ b \in AgentType /\ b.streak = agent[Of(r)].streak /\ b.silent = agent[Of(r)].silent
        /\ b.refusals = agent[Of(r)].refusals
    BY <1>0, StartIs
  <2>. HIDE DEF b
  <2>4. /\ a \in AgentType
        /\ b.silent => a.silent
        /\ why = "budget" => a.silent
        /\ why = "capped" => a = b
        /\ why = "ceiling" =>
              \/ b.refusals < MaxRefusals /\ a.refusals = b.refusals + 1
                 /\ a.streak = b.streak
              \/ b.refusals >= MaxRefusals /\ a.refusals = MaxRefusals + 1
                 /\ a.streak = Bumped(b).streak
                 /\ (a.silent <=> Bumped(b).silent)
    BY <2>3, TurnedAwayIs
  <2>5. /\ Bumped(b).streak = IF b.streak < StubLimit THEN b.streak + 1 ELSE StubLimit
        /\ (Bumped(b).silent <=> b.silent \/ b.streak + 1 >= StubLimit)
    BY <2>3, BumpedIs
  <2>. HIDE DEF a
  <2>6. /\ MaxRefusals \in Nat /\ StubLimit \in Nat \ {0} /\ b.streak \in 0..StubLimit
        /\ b.refusals \in 0..(MaxRefusals + 1) /\ run[r].row \in Nat /\ new.row \in Nat
        /\ a.streak \in 0..StubLimit /\ a.refusals \in 0..(MaxRefusals + 1)
    BY <1>0, <2>2, <2>3, <2>4, Limits DEF AgentType, RunType, OneRun
  <2>7. why # "capped" => new.row <= run[r].row + 1
    BY <2>2, <2>6 DEF Up
  <2>8. a.streak >= StubLimit => a.silent
    BY <1>0, <2>3, <2>4, <2>5, <2>6
  <2>9. new.plain => Owed(a, new)
    <3>1. CASE why = "budget"
      BY <2>4, <3>1 DEF Owed
    <3>2. CASE why = "capped"
      BY <1>0, <2>2, <2>3, <2>4, <3>2 DEF Owed
    <3>3. CASE why = "ceiling"
      <4>. SUFFICES ASSUME new.plain, ~a.silent
                    PROVE  new.row <= Smaller(a.refusals, MaxRefusals) + a.streak
        BY DEF Owed
      <4>1. run[r].row <= Smaller(b.refusals, MaxRefusals) + b.streak
        BY <1>0, <2>2, <2>3, <2>4 DEF Owed
      <4>2. new.row <= run[r].row + 1
        BY <2>7, <3>3
      <4>3. CASE b.refusals < MaxRefusals /\ a.refusals = b.refusals + 1 /\ a.streak = b.streak
        BY <2>6, <4>1, <4>2, <4>3 DEF Smaller
      <4>4. CASE b.refusals >= MaxRefusals /\ a.refusals = MaxRefusals + 1
                 /\ a.streak = Bumped(b).streak /\ (a.silent <=> Bumped(b).silent)
        <5>1. b.streak + 1 < StubLimit /\ a.streak = b.streak + 1
          BY <2>5, <2>6, <4>4
        <5>. QED
          BY <2>6, <4>1, <4>2, <4>4, <5>1 DEF Smaller
      <4>. QED
        BY <2>4, <3>3, <4>3, <4>4
    <3>. QED
      BY <3>1, <3>2, <3>3
  <2>. QED
    BY <2>2, <2>8, <2>9, TurnedRun
<1>7. ASSUME NEW r \in DOMAIN run, NEW k \in Keys, Hit(r, k) PROVE Turned'
  <2>1. PICK new \in RunType, a \in AgentType, used \in RunType : HitsTo(r, k, new, a, used)
    BY <1>7, HitsAre
  <2>. DEFINE b == Seen(Of(r), k)
  <2>2. /\ OneRun(r, new, a, flying[r]) /\ r \in Active
        /\ GivenTo(r, k, cache'[k], Generation(Of(r)), Recounted(Of(r), k), b, used, new, a)
        /\ used.row = run[r].row /\ used.plain = run[r].plain
    BY <2>1 DEF HitsTo, OneRun
  <2>3. /\ b \in AgentType /\ b.streak = agent[Of(r)].streak /\ b.silent = agent[Of(r)].silent
        /\ b.refusals = agent[Of(r)].refusals
    BY <1>0, StartIs
  <2>. HIDE DEF b
  <2>4. (b.streak >= StubLimit => b.silent) /\ (used.plain => Owed(b, used))
    BY <1>0, <2>2, <2>3 DEF Owed
  <2>5. (a.streak >= StubLimit => a.silent) /\ (new.plain => Owed(a, new))
    BY <2>2, <2>3, <2>4, GivenTurns
  <2>. QED
    BY <2>2, <2>5, TurnedRun
<1>8. ASSUME NEW r \in DOMAIN run, NEW k \in Keys, Fetch(r, k) PROVE Turned'
  <2>1. PICK new \in RunType, a \in AgentType, x \in FlightType : FetchesTo(r, k, new, a, x)
    BY <1>8, FetchesAre
  <2>2. /\ OneRun(r, new, a, flying[r] \cup {x}) /\ r \in Active
        /\ new.row = run[r].row /\ new.plain = run[r].plain
        /\ a.streak = agent[Of(r)].streak /\ a.refusals = agent[Of(r)].refusals
        /\ a.silent = agent[Of(r)].silent
    BY <2>1 DEF FetchesTo, OneRun
  <2>. QED
    BY <1>0, <2>2, TurnedRun DEF Owed
<1>9. ASSUME NEW r \in DOMAIN run, NEW x \in flying[r], Fetched(r, x) PROVE Turned'
  <2>1. PICK new \in RunType, a \in AgentType, b \in AgentType, v \in x.since..disk[x.key] : FetchedTo(r, x, new, a, b, v)
    BY <1>9, FetchedIs
  <2>2. /\ OneRun(r, new, a, flying[r] \ {x}) /\ r \in Active
        /\ GivenTo(r, x.key, v, x.in, serves, b, run[r], new, a)
        /\ b.streak = agent[Of(r)].streak /\ b.refusals = agent[Of(r)].refusals
        /\ (agent[Of(r)].silent => b.silent)
    BY <2>1 DEF FetchedTo, OneRun
  <2>3. (b.streak >= StubLimit => b.silent) /\ (run[r].plain => Owed(b, run[r]))
    BY <1>0, <2>2 DEF Owed
  <2>4. (a.streak >= StubLimit => a.silent) /\ (new.plain => Owed(a, new))
    BY <1>0, <2>2, <2>3, GivenTurns
  <2>. QED
    BY <2>2, <2>4, TurnedRun
<1>10. ASSUME NEW r \in DOMAIN run, Unpassed(r) PROVE Turned'
  <2>1. PICK new \in RunType : UnpassedTo(r, new)
    BY <1>10, UnpassedIs
  <2>2. /\ OneRun(r, new, agent[Of(r)], flying[r]) /\ r \in Active
        /\ new.row = run[r].row /\ new.plain = run[r].plain
    BY <2>1 DEF UnpassedTo, OneRun
  <2>. QED
    BY <1>0, <2>2, TurnedRun DEF Owed
<1>. QED
  BY <1>1, <1>2, <1>3, <1>4, <1>5, <1>6, <1>7, <1>8, <1>9, <1>10, StepIs

-----------------------------------------------------------------------------
(* What the guard has counted                                              *)

(* The first run of a member, as long as it is alone and the guard sees    *)
(* all its calls: they are counted when they start, and the one that       *)
(* reaches the threshold has fired the guard or is on its way.             *)
Earlier(r) == \A s \in 1..(r - 1) : Of(s) # Of(r)
CountedBy(a, x, air) ==
  /\ ~x.refused
  /\ x.at = "on" =>
      /\ a.counted = Smaller(x.used - x.todo, Threshold)
      /\ a.counted >= Threshold => a.fired \/ \E y \in air : y.count >= Threshold
      /\ a.fired => a.silent
Counting ==
  /\ \A m \in Readers : (\A r \in DOMAIN run : Of(r) # m) => agent[m].counted = 0 /\ ~agent[m].fired
  /\ \A r \in DOMAIN run : Earlier(r) /\ run[r].plain /\ ~run[r].unseen
       => CountedBy(agent[Of(r)], run[r], flying[r])
Reserved == MaxBatch <= Reserve + 1 /\ Reserve < ToolLimit

(* A step of a run concerns its own member only.                           *)
LEMMA CountingRun ==
  ASSUME Core, Counting, NEW r, NEW new, NEW a, NEW air, OneRun(r, new, a, air),
         ~new.unseen => ~run[r].unseen,
         ~new.unseen /\ CountedBy(agent[Of(r)], run[r], flying[r]) => CountedBy(a, new, air)
  PROVE  Counting'
<1>1. /\ r \in DOMAIN run /\ r \in Runs /\ Of(r) \in Readers
      /\ DOMAIN run' = DOMAIN run /\ DOMAIN run = 1..Len(run) /\ Len(run) \in Nat
      /\ \A s \in DOMAIN run : run'[s] = (IF s = r THEN new ELSE run[s]) /\ run'[s].of = Of(s)
      /\ \A m \in Readers : agent'[m] = IF m = Of(r) THEN a ELSE agent[m]
      /\ \A s \in Runs : flying'[s] = IF s = r THEN air ELSE flying[s]
      /\ \A s \in Active : s # r /\ Of(s) = Of(r) => ~run[s].plain
  BY OneRunIs
<1>2. new.plain => run[r].plain
  BY DEF OneRun
<1>3. ASSUME NEW m \in Readers, \A s \in DOMAIN run' : Of(s)' # m
      PROVE  agent'[m].counted = 0 /\ ~agent'[m].fired
  <2>1. \A s \in DOMAIN run : Of(s) # m
    BY <1>1, <1>3 DEF Of
  <2>. QED
    BY <1>1, <2>1 DEF Counting
<1>4. ASSUME NEW s \in DOMAIN run, \A t \in 1..(s - 1) : run'[t].of # run'[s].of, run'[s].plain, ~run'[s].unseen
      PROVE  CountedBy(agent'[Of(s)], run'[s], flying'[s])
  <2>1. Earlier(s)
    <3>1. \A t \in 1..(s - 1) : t \in DOMAIN run
      BY <1>1
    <3>. QED
      BY <1>1, <1>4, <3>1 DEF Earlier
  <2>2. s \in Runs /\ Of(s) \in Readers
    BY RunIs DEF Core
  <2>3. CASE s = r
    <3>1. CountedBy(agent[Of(r)], run[r], flying[r])
      BY <1>1, <1>2, <1>4, <2>1, <2>3 DEF Counting
    <3>. QED
      BY <1>1, <1>4, <2>2, <2>3, <3>1
  <2>4. CASE s # r
    <3>1. run'[s] = run[s] /\ flying'[s] = flying[s]
      BY <1>1, <2>2, <2>4
    <3>2. CountedBy(agent[Of(s)], run[s], flying[s])
      BY <1>4, <2>1, <3>1 DEF Counting
    <3>3. CASE Of(s) = Of(r)
      <4>1. ~(s \in Active)
        BY <1>1, <1>4, <2>4, <3>1, <3>3
      <4>. QED
        BY <3>1, <3>2, <4>1 DEF CountedBy, Active
    <3>4. CASE Of(s) # Of(r)
      BY <1>1, <2>2, <3>1, <3>2, <3>4
    <3>. QED
      BY <3>3, <3>4
  <2>. QED
    BY <2>3, <2>4
<1>5. \A s \in DOMAIN run : Of(s)' = Of(s)
  BY <1>1 DEF Of
<1>6. \A s \in DOMAIN run : Earlier(s)' => \A t \in 1..(s - 1) : run'[t].of # run'[s].of
  BY DEF Earlier, Of
<1>. QED
  BY <1>1, <1>3, <1>4, <1>5, <1>6 DEF Counting

(* With the reserve of the code no such run is refused a call.             *)
LEMMA CountingKept ==
  ASSUME Core, Counting, Reserved, ReadNext
  PROVE  Counting'
<1>0. ASSUME NEW r \in DOMAIN run
      PROVE  /\ run[r] \in RunType /\ Of(r) \in Readers /\ agent[Of(r)] \in AgentType /\ r \in Runs
             /\ run[r].used \in Nat /\ run[r].todo \in Nat /\ agent[Of(r)].counted \in Nat
             /\ (r \in Active => run[r].todo <= run[r].used)
  <2>1. /\ run[r] \in RunType /\ Of(r) \in Readers /\ agent[Of(r)] \in AgentType /\ r \in Runs /\ Sound(r)
    BY RunIs DEF Core
  <2>2. Cardinality(flying[r]) \in Nat
    BY <2>1, FS_CardinalityType DEF Sound
  <2>. QED
    BY <2>1, <2>2 DEF Sound, RunType, AgentType, Active
<1>00. /\ Threshold \in Nat \ {0} /\ Threshold = ToolLimit - Reserve
       /\ MaxBatch \in Nat /\ Reserve \in Nat /\ ToolLimit \in Nat
  <2>1. ToolLimit \in Nat /\ Reserve \in Nat /\ ToolLimit - Reserve \in Nat \ {0}
    BY Limits DEF Reserved
  <2>. QED
    BY <2>1, Limits DEF Reserved, Threshold, Larger
<1>01. \A u, t, T \in Nat : t <= u /\ t > 0 => Smaller(u - (t - 1), T) = Up(Smaller(u - t, T), T)
  BY DEF Smaller, Up
<1>1. ASSUME NEW M, Begins(M) PROVE Counting'
  <2>1. /\ DOMAIN run = 1..Len(run) /\ DOMAIN run' = 1..Len(run') /\ Len(run) \in Nat /\ Len(run') \in Nat
        /\ DOMAIN run \subseteq DOMAIN run'
        /\ \A s \in DOMAIN run :
             /\ run'[s].of = Of(s) /\ run'[s].todo = run[s].todo /\ run'[s].used = run[s].used
             /\ run'[s].at = run[s].at /\ run'[s].refused = run[s].refused /\ run'[s].unseen = run[s].unseen
             /\ (run'[s].plain <=> run[s].plain /\ ~(s \in Active /\ Of(s) \in M))
        /\ \A s \in DOMAIN run' \ DOMAIN run : \E m \in M, fresh \in BOOLEAN :
             run'[s] = NewRun(m, fresh) /\ run'[s].of = m /\ m \in Readers
    BY <1>1, BegunIs
  <2>2. /\ flying' = flying /\ \A m \in Readers : /\ Like(agent'[m], agent[m])
                                                  /\ m \notin M => agent'[m] = agent[m]
    BY <1>1 DEF Begins
  <2>3. ASSUME NEW m \in Readers, \A s \in DOMAIN run : Of(s) # m
        PROVE  agent'[m].counted = 0 /\ ~agent'[m].fired
    BY <2>2, <2>3 DEF Counting, Like
  <2>4. ASSUME NEW m \in Readers, \A s \in DOMAIN run' : Of(s)' # m
        PROVE  agent'[m].counted = 0 /\ ~agent'[m].fired
    BY <2>1, <2>3, <2>4 DEF Of
  <2>5. ASSUME NEW s \in DOMAIN run', \A t \in 1..(s - 1) : run'[t].of # run'[s].of,
               run'[s].plain, ~run'[s].unseen
        PROVE  CountedBy(agent'[run'[s].of], run'[s], flying'[s])
    <3>1. CASE s \in DOMAIN run
      <4>1. Earlier(s)
        <5>1. \A t \in 1..(s - 1) : t \in DOMAIN run
          BY <2>1, <3>1
        <5>. QED
          BY <2>1, <2>5, <3>1, <5>1 DEF Earlier
      <4>2. CountedBy(agent[Of(s)], run[s], flying[s]) /\ ~(s \in Active /\ Of(s) \in M) /\ Of(s) \in Readers
        BY <1>0, <2>1, <2>5, <3>1, <4>1 DEF Counting
      <4>3. CASE s \in Active
        <5>1. agent'[Of(s)] = agent[Of(s)]
          BY <2>2, <4>2, <4>3
        <5>. QED
          BY <2>1, <2>2, <3>1, <4>2, <5>1 DEF CountedBy
      <4>4. CASE ~(s \in Active)
        BY <2>1, <3>1, <4>2, <4>4 DEF CountedBy, Active
      <4>. QED
        BY <4>3, <4>4
    <3>2. CASE s \notin DOMAIN run
      <4>1. PICK m \in Readers, fresh \in BOOLEAN : run'[s] = NewRun(m, fresh) /\ run'[s].of = m
        BY <2>1, <3>2
      <4>2. \A t \in DOMAIN run : t \in 1..(s - 1)
        BY <2>1, <3>2
      <4>3. \A t \in DOMAIN run : Of(t) # m
        BY <2>1, <2>5, <4>1, <4>2
      <4>4. agent'[m].counted = 0 /\ ~agent'[m].fired
        BY <2>3, <4>3
      <4>5. run'[s].used = 0 /\ run'[s].todo = 0 /\ ~run'[s].refused
        BY <4>1, NewRunIs
      <4>6. Smaller(run'[s].used - run'[s].todo, Threshold) = 0
        BY <1>00, <4>5 DEF Smaller
      <4>7. ~(agent'[m].counted >= Threshold)
        BY <1>00, <4>4
      <4>. QED
        BY <4>1, <4>4, <4>5, <4>6, <4>7 DEF CountedBy
    <3>. QED
      BY <3>1, <3>2
  <2>6. \A s \in DOMAIN run' : Earlier(s)' => \A t \in 1..(s - 1) : run'[t].of # run'[s].of
    BY DEF Earlier, Of
  <2>. QED
    BY <2>4, <2>5, <2>6 DEF Counting, Of
<1>2. CASE Reconcile \/ \E k \in Keys : Changes(k)
  <2>1. UNCHANGED <<agent, run, flying>>
    BY <1>2, QuietKeepsCore
  <2>. QED
    BY <2>1 DEF Counting, Earlier, Of
<1>3. ASSUME NEW r \in DOMAIN run, Answers(r) PROVE Counting'
  <2>1. PICK new \in RunType : AnswersTo(r, new)
    BY <1>3, AnswersAre
  <2>2. /\ OneRun(r, new, agent[Of(r)], flying[r]) /\ new.at = "over" /\ new.refused = run[r].refused
        /\ new.unseen = run[r].unseen
    BY <2>1 DEF AnswersTo
  <2>. QED
    BY <2>2, CountingRun DEF CountedBy
<1>4. ASSUME NEW r \in DOMAIN run, NEW n \in 1..MaxBatch, RepliesWith(r, n) PROVE Counting'
  <2>1. PICK new \in RunType, goes \in 0..n : RepliesTo(r, n, new, goes)
    BY <1>4, RepliesAre
  <2>2. /\ OneRun(r, new, agent[Of(r)], flying[r]) /\ r \in Active /\ new.unseen = run[r].unseen
        /\ run[r].todo = 0 /\ flying[r] = {} /\ ~agent[Of(r)].silent /\ run[r].at = "on"
        /\ new.todo = goes /\ new.used = run[r].used + goes /\ (new.refused <=> goes < n)
        /\ goes = (IF run[r].used + n <= ToolLimit THEN n ELSE ToolLimit - run[r].used)
    BY <2>1 DEF RepliesTo, OneRun, Between, Active
  <2>3. ASSUME CountedBy(agent[Of(r)], run[r], flying[r]) PROVE CountedBy(agent[Of(r)], new, flying[r])
    <3>1. /\ agent[Of(r)].counted = Smaller(run[r].used - 0, Threshold)
          /\ ~(agent[Of(r)].counted >= Threshold) /\ ~agent[Of(r)].fired
      BY <2>2, <2>3 DEF CountedBy
    <3>2. run[r].used < Threshold
      BY <1>0, <1>00, <3>1 DEF Smaller
    <3>3. run[r].used + n <= ToolLimit
      BY <1>0, <1>00, <3>2 DEF Reserved
    <3>4. goes = n /\ ~new.refused
      BY <1>00, <2>2, <3>3
    <3>5. new.used - new.todo = run[r].used - 0
      BY <1>0, <1>00, <2>2, <3>4
    <3>. QED
      BY <3>1, <3>4, <3>5 DEF CountedBy
  <2>. QED
    BY <2>2, <2>3, CountingRun
<1>5. ASSUME NEW r \in DOMAIN run, NEW k \in Keys, Edit(r, k) PROVE Counting'
  <2>1. PICK new \in RunType, a \in AgentType : EditsTo(r, k, new, a)
    BY <1>5, EditsAre
  <2>2. /\ OneRun(r, new, a, flying[r]) /\ r \in Active /\ run[r].at = "on"
        /\ new.unseen = run[r].unseen /\ new.refused = run[r].refused
        /\ run[r].todo > 0 /\ new.todo = run[r].todo - 1 /\ new.used = run[r].used
        /\ a.counted = Up(agent[Of(r)].counted, Threshold)
        /\ (a.fired <=> agent[Of(r)].fired \/ a.counted >= Threshold)
        /\ (a.silent <=> agent[Of(r)].silent \/ (~agent[Of(r)].fired /\ a.counted >= Threshold))
    BY <2>1 DEF EditsTo, OneRun, Active
  <2>3. ASSUME CountedBy(agent[Of(r)], run[r], flying[r]) PROVE CountedBy(a, new, flying[r])
    <3>1. a.counted = Smaller(new.used - new.todo, Threshold)
      <4>1. agent[Of(r)].counted = Smaller(run[r].used - run[r].todo, Threshold)
        BY <2>2, <2>3 DEF CountedBy
      <4>2. Smaller(run[r].used - (run[r].todo - 1), Threshold)
              = Up(Smaller(run[r].used - run[r].todo, Threshold), Threshold)
        <5>1. /\ run[r].used \in Nat /\ run[r].todo \in Nat /\ run[r].todo > 0
              /\ run[r].todo <= run[r].used /\ Threshold \in Nat
          BY <1>0, <1>00, <2>2
        <5>. QED
          BY <1>01, <5>1
      <4>. QED
        BY <2>2, <4>1, <4>2
    <3>. QED
      BY <2>2, <2>3, <3>1 DEF CountedBy
  <2>. QED
    BY <2>2, <2>3, CountingRun
<1>6. ASSUME NEW r \in DOMAIN run, NEW k \in Keys, Refuse(r, k) PROVE Counting'
  <2>1. PICK new \in RunType, why \in {"budget", "capped", "ceiling"} : RefusesTo(r, k, new, why)
    BY <1>6, RefusesAre
  <2>2. OneRun(r, new, TurnedAway(Seen(Of(r), k), why), flying[r]) /\ new.unseen
    BY <2>1 DEF RefusesTo
  <2>. QED
    BY <2>2, CountingRun
<1>7. ASSUME NEW r \in DOMAIN run, NEW k \in Keys, Hit(r, k) PROVE Counting'
  <2>1. PICK new \in RunType, a \in AgentType, used \in RunType : HitsTo(r, k, new, a, used)
    BY <1>7, HitsAre
  <2>2. OneRun(r, new, a, flying[r]) /\ new.unseen
    BY <2>1 DEF HitsTo, GivenTo
  <2>. QED
    BY <2>2, CountingRun
<1>8. ASSUME NEW r \in DOMAIN run, NEW k \in Keys, Fetch(r, k) PROVE Counting'
  <2>1. PICK new \in RunType, a \in AgentType, x \in FlightType : FetchesTo(r, k, new, a, x)
    BY <1>8, FetchesAre
  <2>2. /\ OneRun(r, new, a, flying[r] \cup {x}) /\ r \in Active /\ run[r].at = "on"
        /\ new.unseen = run[r].unseen /\ new.refused = run[r].refused
        /\ run[r].todo > 0 /\ new.todo = run[r].todo - 1 /\ new.used = run[r].used
        /\ a.counted = Up(agent[Of(r)].counted, Threshold) /\ x.count = a.counted
        /\ a.fired = agent[Of(r)].fired /\ a.silent = agent[Of(r)].silent
    BY <2>1 DEF FetchesTo, OneRun, Active
  <2>3. ASSUME CountedBy(agent[Of(r)], run[r], flying[r]) PROVE CountedBy(a, new, flying[r] \cup {x})
    <3>1. a.counted = Smaller(new.used - new.todo, Threshold)
      <4>1. agent[Of(r)].counted = Smaller(run[r].used - run[r].todo, Threshold)
        BY <2>2, <2>3 DEF CountedBy
      <4>2. Smaller(run[r].used - (run[r].todo - 1), Threshold)
              = Up(Smaller(run[r].used - run[r].todo, Threshold), Threshold)
        <5>1. /\ run[r].used \in Nat /\ run[r].todo \in Nat /\ run[r].todo > 0
              /\ run[r].todo <= run[r].used /\ Threshold \in Nat
          BY <1>0, <1>00, <2>2
        <5>. QED
          BY <1>01, <5>1
      <4>. QED
        BY <2>2, <4>1, <4>2
    <3>. QED
      BY <2>2, <2>3, <3>1 DEF CountedBy
  <2>. QED
    BY <2>2, <2>3, CountingRun
<1>9. ASSUME NEW r \in DOMAIN run, NEW x \in flying[r], Fetched(r, x) PROVE Counting'
  <2>1. PICK new \in RunType, a \in AgentType, b \in AgentType, v \in x.since..disk[x.key] : FetchedTo(r, x, new, a, b, v)
    BY <1>9, FetchedIs
  <2>2. /\ OneRun(r, new, a, flying[r] \ {x}) /\ r \in Active /\ run[r].at = "on"
        /\ GivenTo(r, x.key, v, x.in, serves, b, run[r], new, a)
        /\ b.counted = agent[Of(r)].counted
        /\ (b.fired <=> agent[Of(r)].fired \/ x.count >= Threshold)
        /\ (b.silent <=> agent[Of(r)].silent \/ (~agent[Of(r)].fired /\ x.count >= Threshold))
    BY <2>1 DEF FetchedTo, OneRun, Active
  <2>3. /\ new.unseen = run[r].unseen /\ new.refused = run[r].refused /\ new.todo = run[r].todo
        /\ new.used = run[r].used /\ a.counted = b.counted /\ a.fired = b.fired
        /\ (b.silent => a.silent)
    BY <2>2, BumpedIs DEF GivenTo
  <2>4. CountedBy(agent[Of(r)], run[r], flying[r]) => CountedBy(a, new, flying[r] \ {x})
    BY <2>2, <2>3 DEF CountedBy
  <2>. QED
    BY <2>2, <2>3, <2>4, CountingRun
<1>10. ASSUME NEW r \in DOMAIN run, Unpassed(r) PROVE Counting'
  <2>1. PICK new \in RunType : UnpassedTo(r, new)
    BY <1>10, UnpassedIs
  <2>. QED
    BY <2>1, CountingRun DEF UnpassedTo
<1>. QED
  BY <1>1, <1>2, <1>3, <1>4, <1>5, <1>6, <1>7, <1>8, <1>9, <1>10, StepIs

-----------------------------------------------------------------------------
(* What a run has been given                                               *)

(* What is kept of a text, and what is on its way, is no older than the    *)
(* last edit of it that failed; and of a run that began a generation, what *)
(* has been counted as served in it the run has, until an edit of it fails. *)
Keeps(b, x, a, air, c, sv) ==
  LET g == Larger(b.own[x.of], b.all)
  IN  /\ \A k \in Keys : k \in a.failed \/ c[k] = Nothing \/ c[k] >= x.floor[k]
      /\ \A y \in air : y.key \notin a.failed /\ y.in = g
      /\ x.fresh => \A k \in Keys : sv[<<x.of, g, k>>] = 0 \/ k \in x.has \/ k \in a.failed
Above(x) == \A s \in Active : \A y \in flying[s] : y.since >= x.floor[y.key]
Later == \A m \in Readers, h \in 0..MaxAsked, k \in Keys : h > Generation(m) => serves[<<m, h, k>>] = 0
Serving ==
  /\ Later /\ StubsStandForWhatTheRunHas
  /\ \A r \in Active : run[r].plain =>
       Above(run[r]) /\ Keeps(begun, run[r], agent[run[r].of], flying[r], cache, serves)

(* What a step of a run may write of the texts and of what was served.     *)
Writes(r, air) ==
  /\ \A k \in Keys : \/ cache'[k] = Nothing \/ cache'[k] = cache[k]
                     \/ \E y \in flying[r] : y.key = k /\ cache'[k] \in y.since..disk[k]
  /\ \A y \in air : y \in flying[r] \/ y.since = disk[y.key]
  /\ \A p \in Readers, h \in 0..MaxAsked, k \in Keys :
       \/ serves'[<<p, h, k>>] = serves[<<p, h, k>>]
       \/ p = Of(r) /\ (h <= Generation(p) \/ serves'[<<p, h, k>>] = 0)

(* A step of a run leaves the others what they have.                       *)
LEMMA ServingRun ==
  ASSUME Core, Core', Serving, NEW r, NEW new, NEW a, NEW air, OneRun(r, new, a, air), Writes(r, air),
         new.at = "on" /\ new.plain =>
           /\ \A s \in Active : \A y \in flying[s] : y.since >= new.floor[y.key]
           /\ Keeps(begun, new, a, air, cache', serves'),
         new.plain /\ new.fresh => ~new.misled
  PROVE  Serving'
<1>1. /\ r \in DOMAIN run /\ r \in Runs /\ Of(r) \in Readers
      /\ DOMAIN run' = DOMAIN run
      /\ \A s \in DOMAIN run : run'[s] = (IF s = r THEN new ELSE run[s]) /\ run'[s].of = Of(s)
      /\ \A m \in Readers : agent'[m] = IF m = Of(r) THEN a ELSE agent[m]
      /\ \A s \in Runs : flying'[s] = IF s = r THEN air ELSE flying[s]
      /\ Active' = {s \in DOMAIN run : (s = r /\ new.at = "on") \/ (s # r /\ s \in Active)}
      /\ \A s \in Active : s # r /\ Of(s) = Of(r) => ~run[s].plain
  BY OneRunIs
<1>2. /\ r \in Active /\ (new.plain => run[r].plain) /\ new.fresh = run[r].fresh /\ new.of = Of(r)
      /\ begun' = begun /\ disk' = disk /\ new \in RunType /\ air \subseteq FlightType
  BY DEF OneRun
<1>0. \A s \in DOMAIN run : s \in Runs /\ run[s] \in RunType /\ Of(s) \in Readers
                            /\ Generation(Of(s)) \in 0..MaxAsked /\ flying[s] \subseteq FlightType
  BY RunIs DEF Core
<1>3. Later'
  <2>1. ASSUME NEW m \in Readers, NEW h \in 0..MaxAsked, NEW k \in Keys, h > Generation(m)
        PROVE  serves'[<<m, h, k>>] = 0
    <3>1. ~(h <= Generation(m)) /\ serves[<<m, h, k>>] = 0
      <4>1. Generation(m) \in Nat
        BY DEF Core, ReadTypes, Generation, Larger
      <4>2. serves[<<m, h, k>>] = 0
        BY <2>1 DEF Serving, Later
      <4>. QED
        BY <2>1, <4>1, <4>2
    <3>. QED
      BY <3>1 DEF Writes
  <2>2. \A m : Generation(m)' = Generation(m)
    BY <1>2 DEF Generation, Larger
  <2>. QED
    BY <2>1, <2>2 DEF Later
<1>4. StubsStandForWhatTheRunHas'
  <2>1. ASSUME NEW s \in DOMAIN run, run'[s].fresh, run'[s].plain PROVE ~run'[s].misled
    <3>1. CASE s = r
      BY <1>1, <2>1, <3>1
    <3>2. CASE s # r
      BY <1>1, <2>1, <3>2 DEF Serving, StubsStandForWhatTheRunHas
    <3>. QED
      BY <3>1, <3>2
  <2>. QED
    BY <1>1, <2>1 DEF StubsStandForWhatTheRunHas
<1>5. ASSUME NEW s \in Active', run'[s].plain
      PROVE  /\ \A t \in Active' : \A y \in flying'[t] : y.since >= run'[s].floor[y.key]
             /\ Keeps(begun', run'[s], agent'[run'[s].of], flying'[s], cache', serves')
  <2>1. s \in DOMAIN run /\ s \in Runs /\ s \in Active /\ run[s].plain
    BY <1>0, <1>1, <1>2, <1>5
  <2>2. \A t \in Active : \A y \in flying[t] : y.since >= run'[s].floor[y.key]
    <3>1. CASE s = r
      BY <1>1, <1>5, <3>1
    <3>2. CASE s # r
      BY <1>1, <2>1, <3>2 DEF Serving, Above
    <3>. QED
      BY <3>1, <3>2
  <2>3. ASSUME NEW t \in Active', NEW y \in flying'[t] PROVE y.since >= run'[s].floor[y.key]
    <3>1. t \in DOMAIN run /\ t \in Runs /\ t \in Active /\ r \in DOMAIN run
      BY <1>0, <1>1, <1>2
    <3>2. CASE y \in flying[t]
      BY <2>2, <3>1, <3>2
    <3>3. CASE y \notin flying[t]
      <4>1. t = r /\ y \in air /\ y.since = disk[y.key] /\ y.key \in Keys
        BY <1>1, <1>2, <3>1, <3>3 DEF Writes, FlightType
      <4>2. run'[s].floor[y.key] <= disk'[y.key]
        BY <1>1, <2>1, <4>1 DEF Core, Sound
      <4>3. run'[s].floor[y.key] \in Nat /\ disk[y.key] \in Nat
        <5>1. run'[s] \in RunType
          BY <1>0, <1>1, <1>2, <2>1
        <5>2. run'[s].floor \in [Keys -> Nat]
          BY <5>1 DEF RunType
        <5>3. disk \in [Keys -> 1..MaxVersion]
          BY DEF Core, ReadTypes
        <5>. QED
          BY <4>1, <5>2, <5>3
      <4>. QED
        BY <1>2, <4>1, <4>2, <4>3
    <3>. QED
      BY <3>2, <3>3
  <2>4. Keeps(begun', run'[s], agent'[run'[s].of], flying'[s], cache', serves')
    <3>1. CASE s = r
      BY <1>1, <1>2, <1>5, <3>1
    <3>2. CASE s # r
      <4>1. Of(s) # Of(r) /\ run'[s] = run[s] /\ flying'[s] = flying[s] /\ run[s].of = Of(s)
            /\ agent'[Of(s)] = agent[Of(s)]
        BY <1>0, <1>1, <2>1, <3>2 DEF Of
      <4>. DEFINE g == Larger(begun.own[run[s].of], begun.all)
      <4>2. Keeps(begun, run[s], agent[run[s].of], flying[s], cache, serves) /\ Above(run[s])
        BY <2>1 DEF Serving
      <4>3. /\ \A k \in Keys : k \in agent[run[s].of].failed \/ cache[k] = Nothing \/ cache[k] >= run[s].floor[k]
            /\ \A y \in flying[s] : y.key \notin agent[run[s].of].failed /\ y.in = g
            /\ run[s].fresh => \A k \in Keys : \/ serves[<<run[s].of, g, k>>] = 0
                                               \/ k \in run[s].has \/ k \in agent[run[s].of].failed
        BY <4>2 DEF Keeps
      <4>4. ASSUME NEW k \in Keys
            PROVE  k \in agent[run[s].of].failed \/ cache'[k] = Nothing \/ cache'[k] >= run[s].floor[k]
        <5>1. CASE cache'[k] = Nothing \/ cache'[k] = cache[k]
          BY <4>3, <5>1
        <5>2. CASE \E y \in flying[r] : y.key = k /\ cache'[k] \in y.since..disk[k]
          <6>1. PICK y \in flying[r] : y.key = k /\ cache'[k] \in y.since..disk[k]
            BY <5>2
          <6>2. y.since >= run[s].floor[k]
            BY <1>2, <4>2, <6>1 DEF Above
          <6>3. y.since \in Nat /\ run[s].floor[k] \in Nat /\ disk[k] \in Nat
            <7>1. y.since \in Nat
              BY <1>0, <1>1, <6>1 DEF FlightType
            <7>2. run[s].floor \in [Keys -> Nat]
              BY <1>0, <2>1 DEF RunType
            <7>3. disk \in [Keys -> 1..MaxVersion]
              BY DEF Core, ReadTypes
            <7>. QED
              BY <7>1, <7>2, <7>3
          <6>. QED
            BY <6>1, <6>2, <6>3
        <5>. QED
          BY <5>1, <5>2 DEF Writes
      <4>5. ASSUME NEW k \in Keys PROVE serves'[<<run[s].of, g, k>>] = serves[<<run[s].of, g, k>>]
        <5>1. g \in 0..MaxAsked /\ run[s].of \in Readers
          BY <1>0, <2>1 DEF Generation, Of
        <5>. QED
          BY <4>1, <5>1 DEF Writes
      <4>. HIDE DEF g
      <4>6. Keeps(begun, run[s], agent[run[s].of], flying[s], cache', serves')
        BY <4>3, <4>4, <4>5 DEF Keeps, g
      <4>. QED
        BY <1>2, <4>1, <4>6
    <3>. QED
      BY <3>1, <3>2
  <2>. QED
    BY <2>3, <2>4
<1>. QED
  BY <1>3, <1>4, <1>5 DEF Serving, Above

(* What is forgotten before a read may be written.                         *)
LEMMA ForgettingWrites ==
  ASSUME Core, NEW r \in DOMAIN run, NEW k \in Keys,
         cache' = Forgotten(Of(r), k), serves' = Recounted(Of(r), k),
         NEW air, \A y \in air : y \in flying[r] \/ y.since = disk[y.key]
  PROVE  Writes(r, air)
<1>1. Of(r) \in Readers /\ Generation(Of(r)) \in 0..MaxAsked
  BY RunIs DEF Core
<1>2. /\ \A j \in Keys : Forgotten(Of(r), k)[j] = IF j = k /\ k \in agent[Of(r)].failed THEN Nothing ELSE cache[j]
      /\ \A p \in Readers, g \in 0..MaxAsked, j \in Keys :
              Recounted(Of(r), k)[<<p, g, j>>] =
                IF p = Of(r) /\ g = Generation(Of(r)) /\ j = k /\ k \in agent[Of(r)].failed
                THEN 0 ELSE serves[<<p, g, j>>]
  BY <1>1, StartIs
<1>3. ASSUME NEW p \in Readers, NEW h \in 0..MaxAsked, NEW j \in Keys
      PROVE  \/ serves'[<<p, h, j>>] = serves[<<p, h, j>>]
             \/ p = Of(r) /\ (h <= Generation(p) \/ serves'[<<p, h, j>>] = 0)
  BY <1>2
<1>. QED
  BY <1>2, <1>3 DEF Writes

(* What is forgotten leaves a run with what it has.                        *)
LEMMA ForgettingKeeps ==
  ASSUME Core, NEW r \in DOMAIN run, NEW k \in Keys,
         Keeps(begun, run[r], agent[run[r].of], flying[r], cache, serves),
         NEW new, NEW a, new.of = run[r].of, new.fresh = run[r].fresh, new.has = run[r].has,
         new.floor = run[r].floor, a.failed = agent[Of(r)].failed \ {k}
  PROVE  Keeps(begun, new, a, flying[r], Forgotten(Of(r), k), Recounted(Of(r), k))
<1>. DEFINE m == Of(r)
            g == Larger(begun.own[m], begun.all)
<1>1. m \in Readers /\ Generation(m) \in 0..MaxAsked /\ g = Generation(m) /\ run[r].of = m
  BY RunIs DEF Core, Generation, Of
<1>2. /\ \A j \in Keys : Forgotten(m, k)[j] = IF j = k /\ k \in agent[m].failed THEN Nothing ELSE cache[j]
      /\ \A p \in Readers, h \in 0..MaxAsked, j \in Keys :
              Recounted(m, k)[<<p, h, j>>] =
                IF p = m /\ h = Generation(m) /\ j = k /\ k \in agent[m].failed
                THEN 0 ELSE serves[<<p, h, j>>]
  BY <1>1, StartIs
<1>3. /\ \A j \in Keys : j \in agent[m].failed \/ cache[j] = Nothing \/ cache[j] >= run[r].floor[j]
      /\ \A y \in flying[r] : y.key \notin agent[m].failed /\ y.in = g
      /\ run[r].fresh => \A j \in Keys : serves[<<m, g, j>>] = 0 \/ j \in run[r].has \/ j \in agent[m].failed
  BY <1>1 DEF Keeps
<1>. HIDE DEF m, g
<1>4. \A j \in Keys : j \in a.failed \/ Forgotten(m, k)[j] = Nothing \/ Forgotten(m, k)[j] >= new.floor[j]
  BY <1>2, <1>3 DEF m
<1>5. \A y \in flying[r] : y.key \notin a.failed /\ y.in = g
  BY <1>3 DEF m
<1>6. new.fresh => \A j \in Keys : Recounted(m, k)[<<m, g, j>>] = 0 \/ j \in new.has \/ j \in a.failed
  BY <1>1, <1>2, <1>3 DEF m
<1>. QED
  BY <1>1, <1>4, <1>5, <1>6 DEF Keeps, m, g

(* What a run is given it has from then on, and a stub is for what it has. *)
LEMMA GivenKeeps ==
  ASSUME Core, NEW r \in DOMAIN run, NEW k \in Keys, NEW v, NEW kept, NEW b, NEW used, NEW new, NEW a,
         NEW air, NEW c, NEW old, NEW g, g = Larger(begun.own[Of(r)], begun.all),
         GivenTo(r, k, v, g, kept, b, used, new, a), used.of = run[r].of,
         Keeps(begun, used, b, old, c, kept), air \subseteq old,
         k \notin b.failed, v >= used.floor[k], used.fresh => ~used.misled
  PROVE  Keeps(begun, new, a, air, c, serves') /\ (new.fresh => ~new.misled)
<1>1. Of(r) \in Readers /\ g \in 0..MaxAsked /\ used.of = Of(r)
  BY RunIs DEF Core, Generation, Of
<1>2. /\ \A j \in Keys : j \in b.failed \/ c[j] = Nothing \/ c[j] >= used.floor[j]
      /\ \A y \in old : y.key \notin b.failed /\ y.in = g
      /\ used.fresh => \A j \in Keys : kept[<<Of(r), g, j>>] = 0 \/ j \in used.has \/ j \in b.failed
  BY <1>1 DEF Keeps
<1>3. /\ \A j \in Keys : j # k => serves'[<<Of(r), g, j>>] = kept[<<Of(r), g, j>>]
      /\ new.of = used.of /\ new.floor = used.floor /\ new.fresh = used.fresh
      /\ a.failed = b.failed
      /\ \/ /\ kept[<<Of(r), g, k>>] # 0 /\ new.has = used.has
            /\ (new.misled <=> used.misled \/ k \notin used.has)
         \/ /\ new.misled = used.misled /\ new.has = used.has \cup {k}
  BY <1>1 DEF GivenTo
<1>4. new.fresh => \A j \in Keys : serves'[<<Of(r), g, j>>] = 0 \/ j \in new.has \/ j \in a.failed
  BY <1>2, <1>3
<1>5. new.fresh => ~new.misled
  BY <1>2, <1>3
<1>6. Keeps(begun, new, a, air, c, serves')
  BY <1>1, <1>2, <1>3, <1>4 DEF Keeps
<1>. QED
  BY <1>5, <1>6

(* A stub stands for a text that the run it is given to has.               *)
LEMMA ServingKept ==
  ASSUME Core, Core', Serving, ReadNext
  PROVE  Serving'
<1>0. ASSUME NEW r \in DOMAIN run
      PROVE  /\ run[r] \in RunType /\ Of(r) \in Readers /\ Of(r) = run[r].of /\ flying[r] \subseteq FlightType
             /\ Generation(Of(r)) \in 0..MaxAsked /\ r \in Runs
             /\ (r \in Active /\ run[r].plain =>
                   Above(run[r]) /\ Keeps(begun, run[r], agent[run[r].of], flying[r], cache, serves))
             /\ (run[r].plain /\ run[r].fresh => ~run[r].misled)
  BY RunIs DEF Core, Serving, StubsStandForWhatTheRunHas, Of
<1>1. ASSUME NEW M, Begins(M) PROVE Serving'
  <2>1. /\ DOMAIN run \subseteq DOMAIN run' /\ Active' = Active \cup (DOMAIN run' \ DOMAIN run)
        /\ \A s \in DOMAIN run :
             /\ run'[s].of = Of(s) /\ run'[s].floor = run[s].floor /\ run'[s].has = run[s].has
             /\ run'[s].misled = run[s].misled /\ run'[s].fresh = run[s].fresh
             /\ (run'[s].plain <=> run[s].plain /\ ~(s \in Active /\ Of(s) \in M))
        /\ \A s \in DOMAIN run' \ DOMAIN run : \E m \in M, fresh \in BOOLEAN :
             run'[s] = NewRun(m, fresh) /\ (fresh => Generation(m) < Generation(m)')
             /\ run'[s].of = m /\ m \in Readers
        /\ \A s \in DOMAIN run' \ DOMAIN run : s \in Runs => flying[s] = {}
    BY <1>1, BegunIs
  <2>2. /\ UNCHANGED <<disk, cache, serves, flying>>
        /\ begun' \in [own : [Readers -> 0..MaxAsked], all : 0..MaxAsked]
        /\ \A m \in Readers : /\ Generation(m) <= Generation(m)'
                              /\ m \notin M => agent'[m] = agent[m] /\ Generation(m)' = Generation(m)
    BY <1>1 DEF Begins
  <2>3. \A s \in DOMAIN run' : s \in Runs
    BY Places DEF Core
  <2>4. ASSUME NEW m \in Readers
        PROVE  Generation(m) \in 0..MaxAsked /\ Generation(m)' \in 0..MaxAsked
    BY <2>2 DEF Core, ReadTypes, Generation, Larger
  <2>5. Later'
    <3>1. ASSUME NEW m \in Readers, NEW h \in 0..MaxAsked, NEW k \in Keys, h > Generation(m)'
          PROVE  serves'[<<m, h, k>>] = 0
      <4>1. h > Generation(m)
        <5>1. PICK u \in 0..MaxAsked : u = Generation(m)'
          BY <2>4
        <5>2. Generation(m) <= u /\ h > u
          BY <2>2, <3>1, <5>1
        <5>. QED
          BY <2>4, <5>1, <5>2
      <4>. QED
        BY <2>2, <4>1 DEF Serving, Later
    <3>. QED
      BY <3>1 DEF Later
  <2>6. StubsStandForWhatTheRunHas'
    <3>1. ASSUME NEW s \in DOMAIN run', run'[s].fresh, run'[s].plain PROVE ~run'[s].misled
      <4>1. CASE s \in DOMAIN run
        BY <1>0, <2>1, <3>1, <4>1
      <4>2. CASE s \notin DOMAIN run
        BY <2>1, <4>2, NewRunIs
      <4>. QED
        BY <4>1, <4>2
    <3>. QED
      BY <3>1 DEF StubsStandForWhatTheRunHas
  <2>7. ASSUME NEW s \in Active', run'[s].plain
        PROVE  /\ \A t \in Active' : \A y \in flying'[t] : y.since >= run'[s].floor[y.key]
               /\ Keeps(begun', run'[s], agent'[run'[s].of], flying'[s], cache', serves')
    <3>1. CASE s \in DOMAIN run
      <4>1. s \in Active /\ Of(s) \notin M /\ run[s].plain /\ run'[s].of = Of(s) /\ Of(s) \in Readers /\ run[s].of = Of(s)
        BY <1>0, <2>1, <2>7, <3>1
      <4>2. Above(run[s]) /\ Keeps(begun, run[s], agent[Of(s)], flying[s], cache, serves)
        BY <1>0, <3>1, <4>1
      <4>3. \A t \in Active' : \A y \in flying'[t] : y.since >= run'[s].floor[y.key]
        <5>1. \A t \in Active' : t \in Active \/ flying'[t] = {}
          <6>1. \A t \in Active' : t \in DOMAIN run'
            BY DEF Active
          <6>. QED
            BY <2>1, <2>2, <2>3, <6>1
        <5>. QED
          BY <2>1, <2>2, <3>1, <4>2, <5>1 DEF Above
      <4>4. agent'[Of(s)] = agent[Of(s)] /\ Larger(begun'.own[Of(s)], begun'.all) = Larger(begun.own[Of(s)], begun.all)
        <5>1. PICK m \in Readers : m = Of(s)
          BY <4>1
        <5>2. Generation(m)' = Generation(m) /\ agent'[m] = agent[m]
          BY <2>2, <4>1, <5>1
        <5>3. Larger(begun'.own[m], begun'.all) = Larger(begun.own[m], begun.all)
          BY <5>2 DEF Generation
        <5>. QED
          BY <5>1, <5>2, <5>3
      <4>5. Keeps(begun', run'[s], agent'[Of(s)], flying'[s], cache', serves')
        BY <2>1, <2>2, <3>1, <4>1, <4>2, <4>4 DEF Keeps
      <4>. QED
        BY <4>1, <4>3, <4>5
    <3>2. CASE s \notin DOMAIN run
      <4>0. s \in DOMAIN run'
        BY DEF Active
      <4>1. PICK m \in Readers, fresh \in BOOLEAN :
              run'[s] = NewRun(m, fresh) /\ (fresh => Generation(m) < Generation(m)') /\ run'[s].of = m
        BY <2>1, <3>2, <4>0
      <4>2. run'[s].fresh = fresh /\ \A k \in Keys : run'[s].floor[k] = 0
        BY <4>1, NewRunIs
      <4>3. flying'[s] = {}
        BY <2>1, <2>2, <2>3, <3>2, <4>0
      <4>4. \A k \in Keys : cache'[k] \in Nat
        BY <2>2 DEF Core, ReadTypes
      <4>5. \A t \in Active' : \A y \in flying'[t] : y.since \in Nat /\ y.key \in Keys
        <5>1. \A t \in Active' : t \in Runs
          BY <2>3 DEF Active
        <5>. QED
          BY <2>2, <5>1 DEF Core, ReadTypes, FlightType
      <4>. DEFINE g == Larger(begun'.own[m], begun'.all)
      <4>6. fresh => \A k \in Keys : serves'[<<m, g, k>>] = 0
        <5>1. PICK u \in 0..MaxAsked : u = Generation(m)'
          BY <2>4
        <5>2. fresh => u > Generation(m)
          BY <2>4, <4>1, <5>1
        <5>3. fresh => \A k \in Keys : serves[<<m, u, k>>] = 0
          BY <5>2 DEF Serving, Later
        <5>4. g = u
          BY <5>1 DEF Generation
        <5>. QED
          BY <2>2, <5>3, <5>4
      <4>7. \A t \in Active' : \A y \in flying'[t] : y.since >= run'[s].floor[y.key]
        BY <4>2, <4>5
      <4>. HIDE DEF g
      <4>8. Keeps(begun', run'[s], agent'[m], flying'[s], cache', serves')
        BY <4>1, <4>2, <4>3, <4>4, <4>6 DEF Keeps, g
      <4>. QED
        BY <4>1, <4>7, <4>8
    <3>. QED
      BY <3>1, <3>2
  <2>. QED
    BY <2>5, <2>6, <2>7 DEF Serving, Above
<1>2. CASE Reconcile \/ \E k \in Keys : Changes(k)
  <2>1. UNCHANGED <<cache, begun, serves, agent, run, flying>>
    BY <1>2, QuietKeepsCore
  <2>. QED
    BY <2>1 DEF Serving, StubsStandForWhatTheRunHas, Above, Keeps, Later, Active, Generation, Larger
<1>3. ASSUME NEW r \in DOMAIN run, Answers(r) PROVE Serving'
  <2>1. PICK new \in RunType : AnswersTo(r, new)
    BY <1>3, AnswersAre
  <2>2. /\ OneRun(r, new, agent[Of(r)], flying[r]) /\ new.at = "over" /\ UNCHANGED <<cache, serves>>
        /\ new.misled = run[r].misled /\ new.plain = run[r].plain /\ new.fresh = run[r].fresh
    BY <2>1 DEF AnswersTo, OneRun
  <2>3. Writes(r, flying[r])
    BY <2>2 DEF Writes
  <2>. QED
    BY <1>0, <2>2, <2>3, ServingRun
<1>4. ASSUME NEW r \in DOMAIN run, NEW n \in 1..MaxBatch, RepliesWith(r, n) PROVE Serving'
  <2>1. PICK new \in RunType, goes \in 0..n : RepliesTo(r, n, new, goes)
    BY <1>4, RepliesAre
  <2>2. /\ OneRun(r, new, agent[Of(r)], flying[r]) /\ r \in Active /\ UNCHANGED <<cache, serves>>
        /\ new.misled = run[r].misled /\ new.plain = run[r].plain /\ new.fresh = run[r].fresh
        /\ new.has = run[r].has /\ new.floor = run[r].floor /\ new.of = Of(r)
    BY <2>1 DEF RepliesTo, OneRun
  <2>3. Writes(r, flying[r])
    BY <2>2 DEF Writes
  <2>4. new.plain => /\ \A s \in Active : \A y \in flying[s] : y.since >= new.floor[y.key]
                     /\ Keeps(begun, new, agent[Of(r)], flying[r], cache', serves')
    <3>1. new.plain => Above(run[r]) /\ Keeps(begun, run[r], agent[Of(r)], flying[r], cache, serves)
      BY <1>0, <2>2
    <3>2. new.plain => \A s \in Active : \A y \in flying[s] : y.since >= new.floor[y.key]
      BY <2>2, <3>1 DEF Above
    <3>3. new.plain => Keeps(begun, new, agent[Of(r)], flying[r], cache', serves')
      BY <1>0, <2>2, <3>1 DEF Keeps
    <3>. QED
      BY <3>2, <3>3
  <2>. QED
    BY <1>0, <2>2, <2>3, <2>4, ServingRun
<1>5. ASSUME NEW r \in DOMAIN run, NEW k \in Keys, Edit(r, k) PROVE Serving'
  <2>1. PICK new \in RunType, a \in AgentType : EditsTo(r, k, new, a)
    BY <1>5, EditsAre
  <2>2. /\ OneRun(r, new, a, flying[r]) /\ r \in Active /\ UNCHANGED <<cache, serves>>
        /\ new.misled = run[r].misled /\ (new.plain => run[r].plain) /\ new.fresh = run[r].fresh
        /\ new.of = Of(r)
        /\ \/ /\ a.failed = agent[Of(r)].failed /\ new.has = run[r].has
              /\ new.floor = run[r].floor
           \/ /\ a.failed = agent[Of(r)].failed \cup {k} /\ new.has = run[r].has \ {k}
              /\ new.floor = [run[r].floor EXCEPT ![k] = disk[k]]
              /\ (new.plain <=> run[r].plain /\ ~\E s \in Active : \E x \in flying[s] : x.key = k)
    BY <2>1 DEF EditsTo, OneRun
  <2>3. Writes(r, flying[r])
    BY <2>2 DEF Writes
  <2>4. ASSUME new.plain
        PROVE  /\ \A s \in Active : \A y \in flying[s] : y.since >= new.floor[y.key]
               /\ Keeps(begun, new, a, flying[r], cache', serves')
    <3>1. Above(run[r]) /\ Keeps(begun, run[r], agent[Of(r)], flying[r], cache, serves)
      BY <1>0, <2>2, <2>4
    <3>2. CASE a.failed = agent[Of(r)].failed /\ new.has = run[r].has /\ new.floor = run[r].floor
      BY <1>0, <2>2, <3>1, <3>2 DEF Above, Keeps
    <3>3. CASE /\ a.failed = agent[Of(r)].failed \cup {k} /\ new.has = run[r].has \ {k}
               /\ new.floor = [run[r].floor EXCEPT ![k] = disk[k]]
               /\ (new.plain <=> run[r].plain /\ ~\E s \in Active : \E x \in flying[s] : x.key = k)
      <4>1. /\ \A s \in Active : \A y \in flying[s] : y.key # k
            /\ \A j \in Keys : j # k => new.floor[j] = run[r].floor[j]
        <5>1. run[r].floor \in [Keys -> Nat]
          BY <1>0 DEF RunType
        <5>. QED
          BY <2>4, <3>3, <5>1
      <4>2. \A s \in Active : \A y \in flying[s] : y.key \in Keys
        <5>1. \A s \in Active : s \in DOMAIN run
          BY DEF Active
        <5>. QED
          BY <1>0, <5>1 DEF FlightType
      <4>3. \A s \in Active : \A y \in flying[s] : y.since >= new.floor[y.key]
        BY <3>1, <4>1, <4>2 DEF Above
      <4>. DEFINE g == Larger(begun.own[Of(r)], begun.all)
      <4>4. /\ \A j \in Keys : j \in agent[Of(r)].failed \/ cache[j] = Nothing \/ cache[j] >= run[r].floor[j]
            /\ \A y \in flying[r] : y.key \notin agent[Of(r)].failed /\ y.in = g
            /\ run[r].fresh => \A j \in Keys : serves[<<Of(r), g, j>>] = 0 \/ j \in run[r].has \/ j \in agent[Of(r)].failed
        BY <1>0, <3>1 DEF Keeps
      <4>. HIDE DEF g
      <4>5. \A j \in Keys : j \in a.failed \/ cache'[j] = Nothing \/ cache'[j] >= new.floor[j]
        BY <2>2, <3>3, <4>1, <4>4
      <4>6. \A y \in flying[r] : y.key \notin a.failed /\ y.in = g
        BY <2>2, <3>3, <4>1, <4>4
      <4>7. new.fresh => \A j \in Keys : serves'[<<Of(r), g, j>>] = 0 \/ j \in new.has \/ j \in a.failed
        BY <2>2, <3>3, <4>4
      <4>8. Keeps(begun, new, a, flying[r], cache', serves')
        BY <2>2, <4>5, <4>6, <4>7 DEF Keeps, g
      <4>. QED
        BY <4>3, <4>8
    <3>. QED
      BY <2>2, <3>2, <3>3
  <2>. QED
    BY <1>0, <2>2, <2>3, <2>4, ServingRun
<1>6. ASSUME NEW r \in DOMAIN run, NEW k \in Keys, Refuse(r, k) PROVE Serving'
  <2>1. PICK new \in RunType, why \in {"budget", "capped", "ceiling"} : RefusesTo(r, k, new, why)
    BY <1>6, RefusesAre
  <2>. DEFINE a == TurnedAway(Seen(Of(r), k), why)
  <2>2. /\ OneRun(r, new, a, flying[r]) /\ r \in Active
        /\ cache' = Forgotten(Of(r), k) /\ serves' = Recounted(Of(r), k)
        /\ new.misled = run[r].misled /\ new.plain = run[r].plain /\ new.fresh = run[r].fresh
        /\ new.has = run[r].has /\ new.floor = run[r].floor /\ new.of = Of(r)
    BY <2>1 DEF RefusesTo, OneRun
  <2>3. a.failed = agent[Of(r)].failed \ {k}
    <3>1. Seen(Of(r), k) \in AgentType /\ Seen(Of(r), k).failed = agent[Of(r)].failed \ {k}
      BY <1>0, StartIs
    <3>2. a.failed = Seen(Of(r), k).failed
      BY <3>1, TurnedAwayIs
    <3>. QED
      BY <3>1, <3>2
  <2>. HIDE DEF a
  <2>4. Writes(r, flying[r])
    BY <2>2, ForgettingWrites
  <2>5. ASSUME new.plain
        PROVE  /\ \A s \in Active : \A y \in flying[s] : y.since >= new.floor[y.key]
               /\ Keeps(begun, new, a, flying[r], cache', serves')
    <3>1. Above(run[r]) /\ Keeps(begun, run[r], agent[run[r].of], flying[r], cache, serves)
      BY <1>0, <2>2, <2>5
    <3>2. Keeps(begun, new, a, flying[r], Forgotten(Of(r), k), Recounted(Of(r), k))
      BY <1>0, <2>2, <2>3, <3>1, ForgettingKeeps
    <3>. QED
      BY <2>2, <3>1, <3>2 DEF Above
  <2>. QED
    BY <1>0, <2>2, <2>4, <2>5, ServingRun
<1>7. ASSUME NEW r \in DOMAIN run, NEW k \in Keys, Hit(r, k) PROVE Serving'
  <2>1. PICK new \in RunType, a \in AgentType, used \in RunType : HitsTo(r, k, new, a, used)
    BY <1>7, HitsAre
  <2>. DEFINE b == Seen(Of(r), k)
              kept == Recounted(Of(r), k)
              g == Larger(begun.own[Of(r)], begun.all)
  <2>2. /\ OneRun(r, new, a, flying[r]) /\ r \in Active
        /\ GivenTo(r, k, cache'[k], g, kept, b, used, new, a)
        /\ cache' = Forgotten(Of(r), k) /\ cache'[k] # Nothing
        /\ used.misled = run[r].misled /\ used.fresh = run[r].fresh /\ used.has = run[r].has
        /\ used.floor = run[r].floor /\ used.plain = run[r].plain
    BY <2>1 DEF HitsTo, OneRun, Generation
  <2>3. /\ new.fresh = run[r].fresh /\ new.plain = run[r].plain /\ used.of = run[r].of /\ new.floor = used.floor
        /\ \A p \in Readers, h \in 0..MaxAsked, j \in Keys :
             <<p, h, j>> # <<Of(r), g, k>> => serves'[<<p, h, j>>] = kept[<<p, h, j>>]
    <3>1. new.of = used.of /\ new.of = Of(r)
      BY <2>2 DEF GivenTo, OneRun
    <3>. QED
      BY <1>0, <2>2, <3>1 DEF GivenTo
  <2>4. /\ b.failed = agent[Of(r)].failed \ {k}
        /\ \A j \in Keys : Forgotten(Of(r), k)[j] = IF j = k /\ k \in agent[Of(r)].failed THEN Nothing ELSE cache[j]
        /\ \A p \in Readers, h \in 0..MaxAsked, j \in Keys :
             kept[<<p, h, j>>] = IF p = Of(r) /\ h = Generation(Of(r)) /\ j = k /\ k \in agent[Of(r)].failed
                                 THEN 0 ELSE serves[<<p, h, j>>]
    BY <1>0, StartIs
  <2>5. k \notin agent[Of(r)].failed /\ cache'[k] = cache[k] /\ cache[k] # Nothing
    BY <2>2, <2>4
  <2>8. g = Generation(Of(r)) /\ g \in 0..MaxAsked
    BY <1>0 DEF Generation
  <2>6. Writes(r, flying[r])
    <3>1. \A j \in Keys : cache'[j] = Nothing \/ cache'[j] = cache[j]
      BY <2>2, <2>4
    <3>2. ASSUME NEW p \in Readers, NEW h \in 0..MaxAsked, NEW j \in Keys
          PROVE  \/ serves'[<<p, h, j>>] = serves[<<p, h, j>>]
                 \/ p = Of(r) /\ (h <= Generation(p) \/ serves'[<<p, h, j>>] = 0)
      <4>1. CASE p = Of(r) /\ h = g
        BY <2>8, <4>1
      <4>2. CASE ~(p = Of(r) /\ h = g)
        BY <2>3, <2>4, <2>8, <4>2
      <4>. QED
        BY <4>1, <4>2
    <3>. QED
      BY <3>1, <3>2 DEF Writes
  <2>7. ASSUME new.plain
        PROVE  /\ \A s \in Active : \A y \in flying[s] : y.since >= new.floor[y.key]
               /\ Keeps(begun, new, a, flying[r], cache', serves')
               /\ (new.fresh => ~new.misled)
    <3>1. Above(run[r]) /\ Keeps(begun, run[r], agent[run[r].of], flying[r], cache, serves) /\ run[r].plain
      BY <1>0, <2>2, <2>3, <2>7
    <3>2. Keeps(begun, used, b, flying[r], cache', kept)
      BY <1>0, <2>2, <2>3, <2>4, <3>1, ForgettingKeeps
    <3>3. cache'[k] >= used.floor[k]
      BY <1>0, <2>2, <2>5, <3>1 DEF Keeps
    <3>4. k \notin b.failed /\ (used.fresh => ~used.misled)
      BY <1>0, <2>2, <2>4, <3>1
    <3>. HIDE DEF b, kept
    <3>6. Keeps(begun, new, a, flying[r], cache', serves') /\ (new.fresh => ~new.misled)
      <4>1. flying[r] \subseteq flying[r] /\ used.of = run[r].of /\ g = Larger(begun.own[Of(r)], begun.all)
            /\ GivenTo(r, k, cache'[k], g, kept, b, used, new, a)
        BY <2>2, <2>3
      <4>. HIDE DEF g
      <4>. QED
        BY <3>2, <3>3, <3>4, <4>1, GivenKeeps
    <3>. QED
      BY <2>2, <2>3, <3>1, <3>6 DEF Above
  <2>. HIDE DEF b, kept, g
  <2>. QED
    BY <2>2, <2>6, <2>7, ServingRun
<1>8. ASSUME NEW r \in DOMAIN run, NEW k \in Keys, Fetch(r, k) PROVE Serving'
  <2>1. PICK new \in RunType, a \in AgentType, x \in FlightType : FetchesTo(r, k, new, a, x)
    BY <1>8, FetchesAre
  <2>. DEFINE air == flying[r] \cup {x}
  <2>2. /\ OneRun(r, new, a, air) /\ r \in Active
        /\ cache' = Forgotten(Of(r), k) /\ serves' = Recounted(Of(r), k)
        /\ new.misled = run[r].misled /\ new.plain = run[r].plain /\ new.fresh = run[r].fresh
        /\ new.has = run[r].has /\ new.floor = run[r].floor /\ new.of = Of(r)
        /\ a.failed = agent[Of(r)].failed \ {k}
        /\ x.key = k /\ x.in = Generation(Of(r)) /\ x.since = disk[k]
    BY <2>1 DEF FetchesTo, OneRun
  <2>4. Writes(r, air)
    <3>1. \A y \in air : y \in flying[r] \/ y.since = disk[y.key]
      BY <2>2
    <3>. HIDE DEF air
    <3>. QED
      BY <2>2, <3>1, ForgettingWrites
  <2>5. ASSUME new.plain
        PROVE  /\ \A s \in Active : \A y \in flying[s] : y.since >= new.floor[y.key]
               /\ Keeps(begun, new, a, air, cache', serves')
    <3>1. Above(run[r]) /\ Keeps(begun, run[r], agent[run[r].of], flying[r], cache, serves)
      BY <1>0, <2>2, <2>5
    <3>2. Keeps(begun, new, a, flying[r], cache', serves')
      BY <1>0, <2>2, <3>1, ForgettingKeeps
    <3>3. Keeps(begun, new, a, air, cache', serves')
      BY <2>2, <3>2 DEF Keeps, Generation
    <3>. QED
      BY <2>2, <3>1, <3>3 DEF Above
  <2>. HIDE DEF air
  <2>. QED
    BY <1>0, <2>2, <2>4, <2>5, ServingRun
<1>9. ASSUME NEW r \in DOMAIN run, NEW x \in flying[r], Fetched(r, x) PROVE Serving'
  <2>0. x \in FlightType /\ x.key \in Keys /\ x.since \in 1..disk[x.key] /\ x.in \in 0..MaxAsked
        /\ x.in <= Generation(Of(r)) /\ r \in Active
    <3>1. x \in FlightType /\ r \in Active
      BY <1>9, FetchedIs
    <3>2. x.since \in 1..disk[x.key] /\ x.in <= Generation(Of(r))
      BY DEF Core, Sound
    <3>. QED
      BY <3>1, <3>2 DEF FlightType
  <2>1. PICK new \in RunType, a \in AgentType, b \in AgentType, v \in x.since..disk[x.key] : FetchedTo(r, x, new, a, b, v)
    BY <1>9, FetchedIs
  <2>. DEFINE air == flying[r] \ {x}
              g == Larger(begun.own[Of(r)], begun.all)
  <2>2. /\ OneRun(r, new, a, air) /\ air \subseteq flying[r]
        /\ GivenTo(r, x.key, v, x.in, serves, b, run[r], new, a)
        /\ cache' = [cache EXCEPT ![x.key] = v] /\ b.failed = agent[Of(r)].failed
    BY <2>1 DEF FetchedTo
  <2>3. /\ new.fresh = run[r].fresh /\ new.plain = run[r].plain /\ new.floor = run[r].floor
        /\ \A p \in Readers, h \in 0..MaxAsked, j \in Keys :
             <<p, h, j>> # <<Of(r), x.in, x.key>> => serves'[<<p, h, j>>] = serves[<<p, h, j>>]
    BY <2>2 DEF GivenTo
  <2>4. \A j \in Keys : cache'[j] = IF j = x.key THEN v ELSE cache[j]
    BY <2>0, <2>2 DEF Core, ReadTypes
  <2>5. Writes(r, air)
    <3>1. \A j \in Keys : cache'[j] = cache[j] \/ (x.key = j /\ cache'[j] \in x.since..disk[j])
      BY <2>4
    <3>2. ASSUME NEW p \in Readers, NEW h \in 0..MaxAsked, NEW j \in Keys
          PROVE  \/ serves'[<<p, h, j>>] = serves[<<p, h, j>>]
                 \/ p = Of(r) /\ h <= Generation(p)
      BY <2>0, <2>3
    <3>. QED
      BY <2>2, <3>1, <3>2 DEF Writes
  <2>6. ASSUME new.plain
        PROVE  /\ \A s \in Active : \A y \in flying[s] : y.since >= new.floor[y.key]
               /\ Keeps(begun, new, a, air, cache', serves')
               /\ (new.fresh => ~new.misled)
    <3>1. Above(run[r]) /\ Keeps(begun, run[r], agent[Of(r)], flying[r], cache, serves) /\ run[r].plain
          /\ (run[r].fresh => ~run[r].misled) /\ run[r].of = Of(r)
      BY <1>0, <2>0, <2>3, <2>6
    <3>2. x.key \notin b.failed /\ x.in = g
      BY <2>2, <3>1 DEF Keeps
    <3>3. v >= run[r].floor[x.key] /\ v \in Nat
      <4>1. x.since >= run[r].floor[x.key]
        BY <2>0, <3>1 DEF Above
      <4>2. run[r].floor[x.key] \in Nat /\ disk[x.key] \in Nat
        <5>1. run[r].floor \in [Keys -> Nat] /\ disk \in [Keys -> 1..MaxVersion]
          BY <1>0 DEF RunType, Core, ReadTypes
        <5>. QED
          BY <2>0, <5>1
      <4>. QED
        BY <2>0, <4>1, <4>2
    <3>4. Keeps(begun, run[r], b, flying[r], cache', serves)
      <4>1. \A j \in Keys : j \in b.failed \/ cache'[j] = Nothing \/ cache'[j] >= run[r].floor[j]
        BY <2>2, <2>4, <3>1, <3>3 DEF Keeps
      <4>. QED
        BY <2>2, <3>1, <4>1 DEF Keeps
    <3>. HIDE DEF air
    <3>6. Keeps(begun, new, a, air, cache', serves') /\ (new.fresh => ~new.misled)
      <4>1. x.in = Larger(begun.own[Of(r)], begun.all) /\ air \subseteq flying[r] /\ x.key \in Keys
            /\ GivenTo(r, x.key, v, x.in, serves, b, run[r], new, a)
            /\ (run[r].fresh => ~run[r].misled)
        BY <2>0, <2>2, <3>1, <3>2
      <4>. HIDE DEF g
      <4>. QED
        BY <3>2, <3>3, <3>4, <4>1, GivenKeeps
    <3>. QED
      BY <2>3, <3>1, <3>6 DEF Above
  <2>. HIDE DEF air
  <2>. QED
    BY <2>2, <2>5, <2>6, ServingRun
<1>10. ASSUME NEW r \in DOMAIN run, Unpassed(r) PROVE Serving'
  <2>1. PICK new \in RunType : UnpassedTo(r, new)
    BY <1>10, UnpassedIs
  <2>2. /\ OneRun(r, new, agent[Of(r)], flying[r]) /\ r \in Active /\ UNCHANGED <<cache, serves>>
        /\ new.misled = run[r].misled /\ new.plain = run[r].plain /\ new.fresh = run[r].fresh
        /\ new.has = run[r].has /\ new.floor = run[r].floor /\ new.of = Of(r)
    BY <2>1 DEF UnpassedTo, OneRun
  <2>3. Writes(r, flying[r])
    BY <2>2 DEF Writes
  <2>4. new.plain => /\ \A s \in Active : \A y \in flying[s] : y.since >= new.floor[y.key]
                     /\ Keeps(begun, new, agent[Of(r)], flying[r], cache', serves')
    <3>1. new.plain => Above(run[r]) /\ Keeps(begun, run[r], agent[Of(r)], flying[r], cache, serves)
      BY <1>0, <2>2
    <3>2. new.plain => \A s \in Active : \A y \in flying[s] : y.since >= new.floor[y.key]
      BY <2>2, <3>1 DEF Above
    <3>3. new.plain => Keeps(begun, new, agent[Of(r)], flying[r], cache', serves')
      BY <1>0, <2>2, <3>1 DEF Keeps
    <3>. QED
      BY <3>2, <3>3
  <2>. QED
    BY <1>0, <2>2, <2>3, <2>4, ServingRun
<1>. QED
  BY <1>1, <1>2, <1>3, <1>4, <1>5, <1>6, <1>7, <1>8, <1>9, <1>10, StepIs

-----------------------------------------------------------------------------
(* The theorems                                                            *)

(* The read cache and its hooks keep to their types and bounds: no more    *)
(* calls under way than the run has made, nothing kept that a text has not *)
(* been (_read_cache_tool_hook).                                           *)
THEOREM ReadsTypeCorrect == ReadSpec => []ReadTypeOK
<1>1. ReadInit => Core
  BY InitCore
<1>2. Core /\ [ReadNext]_readVars => Core'
  BY CoreHolds
<1>3. Core => ReadTypeOK
  <2>. SUFFICES ASSUME Core PROVE ReadTypeOK
    OBVIOUS
  <2>1. /\ disk \in [Keys -> 1..MaxVersion] /\ asked \in 0..MaxAsked /\ extra \in {0, 1}
        /\ \A k \in Keys : cache[k] \in 0..disk[k]
    BY DEF Core, ReadTypes, Bounds
  <2>2. ASSUME NEW m \in Readers
        PROVE  /\ agent[m].counted \in 0..Threshold /\ agent[m].streak \in 0..StubLimit
               /\ agent[m].refusals \in 0..(MaxRefusals + 1) /\ agent[m].here <= agent[m].chars
               /\ agent[m].failed \subseteq Keys /\ agent[m].failing \in 0..MaxFailures
    BY DEF Core, ReadTypes, Bounds, AgentType
  <2>3. ASSUME NEW r \in DOMAIN run
        PROVE  /\ run[r].of \in Readers /\ run[r].has \subseteq Keys
               /\ \A k \in Keys : run[r].floor[k] \in 0..disk[k]
               /\ run[r].todo + Cardinality(flying[r]) <= MaxBatch
               /\ run[r].at = "on" => run[r].todo + Cardinality(flying[r]) <= run[r].used
               /\ run[r].at = "over" => run[r].todo = 0 /\ flying[r] = {}
    <3>1. run[r] \in RunType /\ Sound(r)
      BY RunIs DEF Core
    <3>2. \A k \in Keys : run[r].floor[k] \in 0..disk[k]
      BY <2>1, <3>1 DEF RunType, Sound
    <3>. QED
      BY <3>1, <3>2 DEF RunType, Sound
  <2>. QED
    BY <2>1, <2>2, <2>3 DEF ReadTypeOK
<1>. QED
  BY <1>1, <1>2, <1>3, PTL DEF ReadSpec

(* The reads of a member that is not shared exceed its budget by no more   *)
(* than the reads of one reply, whatever their order and their sizes       *)
(* (_MEMBER_READ_CHAR_BUDGET, checked before a read and charged after it). *)
THEOREM ReadsAreBounded == ReadSpec => []ReadsStayBounded
<1>1. ReadInit => Core /\ Charging
  <2>1. ASSUME ReadInit, NEW m \in Readers PROVE Pays(agent[m].chars, {}) /\ ActiveOf(m) = {}
    <3>1. agent[m].chars = 0 /\ run = << >>
      BY <2>1 DEF ReadInit
    <3>2. DOMAIN run = {}
      BY <3>1
    <3>. QED
      BY <3>1, <3>2, Limits DEF Pays, ActiveOf, Active
  <2>. QED
    BY <2>1, InitCore DEF Charging
<1>2. Core /\ Charging /\ [ReadNext]_readVars => (Core /\ Charging)'
  <2>1. UNCHANGED readVars /\ Charging => Charging'
    BY DEF readVars, Charging, Shared, ActiveOf, Active, Of
  <2>. QED
    BY <2>1, CoreHolds, ChargingKept
<1>3. Core /\ Charging => ReadsStayBounded
  <2>. SUFFICES ASSUME Core, Charging, NEW m \in Readers,
                       ~\E r \in DOMAIN run : run[r].of = m /\ ~run[r].plain
                PROVE  agent[m].chars <= Budget
                       \/ \E k \in Keys : agent[m].chars < Budget + MaxBatch * SizeOf[k]
    BY DEF ReadsStayBounded
  <2>1. Pays(agent[m].chars, {}) /\ agent[m].chars \in Nat
    BY DEF Charging, Shared, Of, Core, ReadTypes, AgentType
  <2>2. CASE agent[m].chars <= Budget
    BY <2>2
  <2>3. CASE \E k \in Keys : Fits(agent[m].chars, 0, k)
    <3>1. PICK k \in Keys : agent[m].chars + 0 * SizeOf[k] < Budget + MaxBatch * SizeOf[k]
      BY <2>3 DEF Fits
    <3>2. SizeOf[k] \in Nat
      BY Limits
    <3>. QED
      BY <2>1, <3>1, <3>2
  <2>. QED
    BY <2>1, <2>2, <2>3 DEF Pays
<1>. QED
  BY <1>1, <1>2, <1>3, PTL DEF ReadSpec

(* A run that is turned away as often as both limits together allow has    *)
(* lost its tools, in whatever order stubs and refusals come               *)
(* (_bump_consecutive_stub_and_maybe_force_text_only).                     *)
THEOREM RefusalsComeToAnEnd == ReadSpec => []RefusalsEnd
<1>1. ReadInit => Core /\ Turned
  <2>1. ASSUME ReadInit PROVE Turned
    <3>1. (\A m \in Readers : agent[m].streak = 0) /\ run = << >>
      BY <2>1 DEF ReadInit
    <3>2. DOMAIN run = {}
      BY <3>1
    <3>. QED
      BY <3>1, <3>2, Limits DEF Turned, Active
  <2>. QED
    BY <2>1, InitCore
<1>2. Core /\ Turned /\ [ReadNext]_readVars => (Core /\ Turned)'
  <2>1. UNCHANGED readVars /\ Turned => Turned'
    BY DEF readVars, Turned, Owed, Active, Of
  <2>. QED
    BY <2>1, CoreHolds, TurnedKept
<1>3. Core /\ Turned => RefusalsEnd
  <2>. SUFFICES ASSUME Core, Turned, NEW r \in Active, run[r].plain, run[r].row >= MaxRefusals + StubLimit
                PROVE  agent[Of(r)].silent
    BY DEF RefusalsEnd
  <2>1. run[r] \in RunType /\ Of(r) \in Readers /\ agent[Of(r)] \in AgentType
    BY RunIs DEF Core, Active
  <2>2. /\ run[r].row \in Nat /\ agent[Of(r)].streak \in 0..StubLimit
        /\ agent[Of(r)].refusals \in 0..(MaxRefusals + 1)
        /\ MaxRefusals \in Nat /\ StubLimit \in Nat
    BY <2>1, Limits DEF RunType, AgentType
  <2>3. agent[Of(r)].silent \/ agent[Of(r)].streak >= StubLimit
    BY <2>2 DEF Turned, Owed, Smaller
  <2>. QED
    BY <2>1, <2>3 DEF Turned
<1>. QED
  BY <1>1, <1>2, <1>3, PTL DEF ReadSpec

(* With a reserve of what a reply may ask for, agno refuses no run whose   *)
(* calls the guard has all seen: the guard takes its tools away before     *)
(* (_TOOL_BUDGET_RESERVE).                                                 *)
THEOREM CountedRunsGoOn == ReadSpec => []CountedRunsAreNotRefused
<1>. DEFINE Kept == Reserved => Counting
<1>1. ReadInit => Core /\ Kept
  <2>1. ASSUME ReadInit PROVE Counting
    <3>1. (\A m \in Readers : agent[m].counted = 0 /\ ~agent[m].fired) /\ run = << >>
      BY <2>1 DEF ReadInit
    <3>2. DOMAIN run = {}
      BY <3>1
    <3>. QED
      BY <3>1, <3>2 DEF Counting
  <2>. QED
    BY <2>1, InitCore
<1>2. Core /\ Kept /\ [ReadNext]_readVars => (Core /\ Kept)'
  <2>1. UNCHANGED readVars /\ Counting => Counting'
    BY DEF readVars, Counting, Earlier, Of
  <2>2. Reserved' = Reserved
    BY DEF Reserved
  <2>. QED
    BY <2>1, <2>2, CoreHolds, CountingKept
<1>3. Kept => CountedRunsAreNotRefused
  BY DEF CountedRunsAreNotRefused, Reserved, Counting, CountedBy, Earlier, Of
<1>. HIDE DEF Kept
<1>. QED
  BY <1>1, <1>2, <1>3, PTL DEF ReadSpec

(* A stub is given only for a text the run has had in full, and not from   *)
(* before an edit of it failed (the serve limit of the hook).              *)
THEOREM StubsAreHonest == ReadSpec => []StubsStandForWhatTheRunHas
<1>1. ReadInit => Core /\ Serving
  <2>1. ASSUME ReadInit PROVE Serving
    <3>1. run = << >> /\ serves = [s \in Readers \X (0..MaxAsked) \X Keys |-> 0]
      BY <2>1 DEF ReadInit
    <3>2. DOMAIN run = {}
      BY <3>1
    <3>3. Later
      BY <3>1 DEF Later
    <3>. QED
      BY <3>2, <3>3 DEF Serving, StubsStandForWhatTheRunHas, Active
  <2>. QED
    BY <2>1, InitCore
<1>2. Core /\ Serving /\ [ReadNext]_readVars => (Core /\ Serving)'
  <2>1. UNCHANGED readVars /\ Serving => Serving'
    BY DEF readVars, Serving, StubsStandForWhatTheRunHas, Later, Above, Keeps, Active, Generation, Larger
  <2>. QED
    BY <2>1, CoreHolds, ServingKept
<1>3. Serving => StubsStandForWhatTheRunHas
  BY DEF Serving
<1>. QED
  BY <1>1, <1>2, <1>3, PTL DEF ReadSpec

-----------------------------------------------------------------------------
(* The answer of the team and its guards                                   *)

(* What a run keeps beside its text.                                       *)
Flags == [spent : BOOLEAN, stalled : BOOLEAN, repaired : BOOLEAN]
Tallies == {w \in [counted : BOOLEAN, result : BOOLEAN] : w.result => w.counted}
Asked ==
  [hive : BOOLEAN, seen : {"no", "ok", "bad", "unavailable"}, unlisted : BOOLEAN,
   unsure : BOOLEAN]
Typed == team \in Flags /\ writes \in Tallies /\ checks \in Asked

(* The places before verify_claims has been asked, and those after         *)
(* _verified_answer has returned.                                          *)
Before == {"complete", "syntax loss", "comparison", "upfront"}
Beyond == After \cup {"returned", "reconstruction", "last", "deliver", "done"}

(* A cut text that came by a way that asks carries a notice of it.         *)
Marked(t) == t.end = "cut" /\ t.via = "asked" => t.note # "none"

(* The caller has its content as long as a guard may raise; a text is      *)
(* marked once the completion has been at it; what verify_claims said is   *)
(* kept only while _verified_answer is at work, and it was said of the     *)
(* text there is now; what leaves has the report of the writes.            *)
Drafts == at \notin Beyond => base \in Texts
Marks == (at = "complete" /\ team.stalled) \/ Marked(text)
Unasked == at \in Before \cup (Beyond \ {"returned"}) => checks.seen = "no"
Vouched == at \notin Beyond /\ checks.hive /\ checks.seen = "ok" => text.verdict = "clean"
Accounts == at \in Beyond /\ writes.counted => text.report # "missing"

(* The strengthening NothingUnverifiedGoesUntold, CutTextIsMarked and      *)
(* WritesAreReported need.                                                 *)
GuardsInv ==
  /\ text \in Texts /\ Typed
  /\ Drafts /\ Marks /\ Unasked /\ Vouched /\ Accounts
  /\ NothingUnverifiedGoesUntold

-----------------------------------------------------------------------------
(* The fields of an outcome.                                               *)
LEMMA OutcomesAre ==
  ASSUME NEW o \in Outcomes
  PROVE  /\ o.how \in {"answer", "sentinel", "canned", "raised"}
         /\ o.end \in Ends /\ o.wrote \in BOOLEAN /\ o.verdict \in Verdicts
BY DEF Outcomes

(* The text of a pass that came back, with no notice yet.                  *)
LEMMA DraftIs ==
  ASSUME NEW o \in Outcomes, o.how # "raised"
  PROVE  /\ Draft(o) \in Texts
         /\ Draft(o).kind = o.how /\ Draft(o).end = o.end /\ Draft(o).verdict = o.verdict
         /\ Draft(o).via = "asked" /\ Draft(o).note = "none" /\ Draft(o).told = FALSE
         /\ Draft(o).report = "missing" /\ Draft(o).attempted = FALSE
BY OutcomesAre DEF Draft, Texts, Routes, Notes, Heads, Reports

(* A text under a notice is a text, and no less marked.                    *)
LEMMA NoticesKeep ==
  ASSUME NEW t \in Texts
  PROVE  /\ \A u \in {Told(t), Covered(t), Failed(t), [Told(t) EXCEPT !.attempted = TRUE]} :
              /\ u \in Texts /\ u.end = t.end /\ u.via = t.via /\ u.note = t.note
              /\ u.report = t.report
         /\ Failed(t).head = "failed"
BY DEF Told, Covered, Failed, Texts, Heads

(* A text that replaces the one that had the report of the writes.         *)
LEMMA ReplacingIs ==
  ASSUME NEW t \in Texts
  PROVE  /\ Replacing(t) \in Texts /\ Replacing(t).end = t.end /\ Replacing(t).via = t.via
         /\ Replacing(t).note = t.note /\ Replacing(t).report = "replaced"
BY DEF Replacing, Texts, Reports

(* A notice of a completion changes nothing else that is asked of a text.  *)
LEMMA NotedIs ==
  ASSUME NEW t \in Texts, NEW n \in Notes
  PROVE  /\ Noted(t, n) \in Texts /\ Noted(t, n).note = n
         /\ Noted(t, n).end = t.end /\ Noted(t, n).via = t.via
         /\ Noted(t, n).verdict = t.verdict /\ Noted(t, n).report = t.report
BY DEF Noted, Texts

(* Whatever a completion makes of a text, it is marked when it was cut.    *)
LEMMA CompletionsAre ==
  ASSUME NEW t \in Texts, NEW c \in Completions(t)
  PROVE  /\ c.text \in Texts /\ c.ran \in BOOLEAN /\ c.wrote \in BOOLEAN /\ c.taken \in BOOLEAN
         /\ c.text.end = "cut" => c.text.note # "none"
         /\ c.text.via = t.via /\ c.text.report = t.report
<1> DEFINE Good(u) ==
      /\ u \in Texts /\ (u.end = "cut" => u.note # "none")
      /\ u.via = t.via /\ u.report = t.report
<1>1. Good(Noted(t, "no evidence")) /\ Good(Noted(t, "incomplete"))
  BY NotedIs DEF Notes
<1>2. \A n \in {"incomplete", "no marker", "unsupported"} : \A u \in Disclosed(t, n) : Good(u)
  <2> SUFFICES ASSUME NEW n \in {"incomplete", "no marker", "unsupported"},
                      NEW u \in Disclosed(t, n)
               PROVE  Good(u)
    OBVIOUS
  <2>1. (u = t /\ t.end # "cut") \/ u = Noted(t, n)
    BY DEF Disclosed
  <2>2. n \in Notes /\ n # "none"
    BY DEF Notes
  <2>3. Good(Noted(t, n))
    <3> DEFINE w == Noted(t, n)
    <3>1. w \in Texts /\ w.note = n /\ w.via = t.via /\ w.report = t.report
      BY <2>2, NotedIs
    <3> HIDE DEF w
    <3>2. Good(w)
      BY <2>2, <3>1
    <3> QED BY <3>2 DEF w
  <2> QED BY <2>1, <2>3
<1>3. \A n \in {"incomplete", "none"} : \A u \in Extended(t, n) : Good(u)
  <2> SUFFICES ASSUME NEW n \in {"incomplete", "none"}, NEW u \in Extended(t, n) PROVE Good(u)
    OBVIOUS
  <2>1. PICK e \in {IF n = "none" THEN "whole" ELSE "cut"}, v \in {t.verdict, "invented"} :
          u = [Noted(t, n) EXCEPT !.kind = "answer", !.end = e, !.verdict = v]
    BY DEF Extended
  <2>0. n \in Notes
    BY DEF Notes
  <2>2. Noted(t, n) \in Texts /\ Noted(t, n).note = n
        /\ Noted(t, n).via = t.via /\ Noted(t, n).report = t.report
    BY <2>0, NotedIs
  <2>3. e \in Ends /\ v \in Verdicts
    BY DEF Ends, Verdicts, Texts
  <2>4. u \in Texts /\ u.note = n /\ u.end = e /\ u.via = t.via /\ u.report = t.report
    BY <2>1, <2>2, <2>3 DEF Texts
  <2> QED BY <2>1, <2>4
<1>4. c.ran \in BOOLEAN /\ c.wrote \in BOOLEAN /\ c.taken \in BOOLEAN
  BY DEF Completions, Completion
<1>5. \/ c.text \in {Noted(t, "no evidence"), Noted(t, "incomplete")}
      \/ \E n \in {"incomplete", "no marker", "unsupported"} : c.text \in Disclosed(t, n)
      \/ \E n \in {"incomplete", "none"} : c.text \in Extended(t, n)
  <2>1. \A texts, ran, taken : c \in Completion(texts, ran, taken) => c.text \in texts
    BY DEF Completion
  <2>2. c.text \in {Noted(t, "no evidence"), Noted(t, "incomplete")}
        \/ c.text \in UNION {Disclosed(t, n) : n \in {"incomplete", "no marker"}}
        \/ c.text \in (IF checks.hive THEN Disclosed(t, "unsupported") ELSE {})
        \/ c.text \in Extended(t, "incomplete") \cup Extended(t, "none")
    <3> DEFINE X == {Noted(t, "no evidence"), Noted(t, "incomplete")}
               Y == UNION {Disclosed(t, n) : n \in {"incomplete", "no marker"}}
               Z == IF checks.hive THEN Disclosed(t, "unsupported") ELSE {}
               W == Extended(t, "incomplete") \cup Extended(t, "none")
    <3>1. c \in Completion(X, FALSE, FALSE) \cup Completion(Y \cup Z, TRUE, FALSE)
                \cup Completion(W, TRUE, TRUE)
      BY DEF Completions
    <3> HIDE DEF X, Y, Z, W
    <3>2. c.text \in X \/ c.text \in Y \/ c.text \in Z \/ c.text \in W
      BY <2>1, <3>1
    <3> QED BY <3>2 DEF X, Y, Z, W
  <2>3. CASE c.text \in UNION {Disclosed(t, n) : n \in {"incomplete", "no marker"}}
    BY <2>3
  <2>4. CASE c.text \in IF checks.hive THEN Disclosed(t, "unsupported") ELSE {}
    BY <2>4
  <2>5. CASE c.text \in {Noted(t, "no evidence"), Noted(t, "incomplete")}
    BY <2>5
  <2>6. CASE c.text \in Extended(t, "incomplete") \cup Extended(t, "none")
    BY <2>6
  <2> QED BY <2>2, <2>3, <2>4, <2>5, <2>6
<1>6. Good(c.text)
  BY <1>1, <1>2, <1>3, <1>5
<1> QED BY <1>4, <1>6

-----------------------------------------------------------------------------
(* What becomes of the flags, the writes and the checks in each way a pass *)
(* is dealt with.                                                          *)
LEMMA AdoptedIs ==
  ASSUME Typed, NEW o \in Outcomes, Adopted(o)
  PROVE  /\ Typed' /\ text' \in Texts /\ Marked(text') /\ checks'.seen = "no"
         /\ checks'.hive = checks.hive /\ o.how # "canned"
<1>1. o.how \in {"answer", "sentinel"} /\ o.end = "whole" /\ o.wrote \in BOOLEAN /\ o.verdict \in Verdicts
  BY OutcomesAre DEF Adopted, Adoptable
<1>2. text' \in Texts /\ Marked(text')
  <2>1. text' = Draft(o)
    BY DEF Adopted
  <2>2. Draft(o) \in Texts /\ Draft(o).end = "whole"
    BY <1>1, DraftIs
  <2> QED BY <2>1, <2>2 DEF Marked
<1>3. team' \in Flags
  BY DEF Adopted, Typed, Flags
<1>4. writes' \in Tallies
  BY <1>1 DEF Adopted, Typed, Tallies
<1>5. checks' \in Asked /\ checks'.seen = "no" /\ checks'.hive = checks.hive
  BY DEF Adopted, Typed, Asked, Unverified
<1> QED BY <1>1, <1>2, <1>3, <1>4, <1>5 DEF Typed

(* Kept out by _adopt_retry, it leaves the text and its verdict alone.     *)
LEMMA DeclinedIs ==
  ASSUME Typed, NEW o \in Outcomes, Declined(o)
  PROVE  Typed' /\ UNCHANGED <<text, checks>>
<1>1. o.wrote \in BOOLEAN
  BY OutcomesAre
<1>2. team' \in Flags
  BY DEF Declined, Typed, Flags
<1>3. writes' \in Tallies
  BY <1>1 DEF Declined, Typed, Tallies
<1> QED BY <1>2, <1>3 DEF Typed, Declined

(* So does a pass that _adopt_retry has never looked at.                   *)
LEMMA DroppedIs ==
  ASSUME Typed, NEW o \in Outcomes, Dropped(o)
  PROVE  Typed' /\ UNCHANGED <<text, checks>>
<1>1. o.wrote \in BOOLEAN
  BY OutcomesAre
<1>2. team' \in Flags
  BY DEF Dropped, Typed, Flags
<1>3. writes' \in Tallies
  BY <1>1 DEF Dropped, Typed, Tallies
<1> QED BY <1>2, <1>3 DEF Typed, Dropped

-----------------------------------------------------------------------------
(* The invariant is kept by a step that stays among the guards, if the text *)
(* it leaves is as verified as it was, and by one that returns, if it       *)
(* returns a report of the writes with a notice or a verified text.        *)
LEMMA GuardsGoOn ==
  ASSUME GuardsInv, Typed', at \notin Beyond, at' \notin Beyond, at' # "complete",
         at' \in Before => at \in Before, base' = base,
         text' \in Texts, Marked(text'),
         \/ checks'.seen = "no"
         \/ text'.verdict = text.verdict /\ checks' = checks
  PROVE  GuardsInv'
<1>1. Drafts'
  BY DEF GuardsInv, Drafts
<1>2. Marks'
  BY DEF Marks
<1>3. Unasked'
  BY DEF GuardsInv, Unasked
<1>4. Vouched'
  BY DEF GuardsInv, Vouched
<1>5. Accounts' /\ NothingUnverifiedGoesUntold'
  BY DEF Accounts, NothingUnverifiedGoesUntold, Beyond
<1> QED BY <1>1, <1>2, <1>3, <1>4, <1>5 DEF GuardsInv

(* A return with a report, and with a notice, a verified text or one whose *)
(* report has no line that is listed, keeps it.                            *)
LEMMA GuardReturns ==
  ASSUME Typed', at' = "returned", text' \in Texts, Marked(text'),
         \/ checks'.hive => text'.told \/ text'.verdict = "clean"
         \/ text'.verdict = "miscited" /\ checks'.unlisted,
         writes'.counted => text'.report # "missing"
  PROVE  GuardsInv'
<1>1. at' \in Beyond /\ at' \notin Before
  BY DEF Beyond, Before
<1>2. Drafts' /\ Marks' /\ Unasked' /\ Vouched' /\ Accounts'
  BY <1>1 DEF Drafts, Marks, Unasked, Vouched, Accounts
<1>3. NothingUnverifiedGoesUntold'
  BY DEF NothingUnverifiedGoesUntold
<1> QED BY <1>2, <1>3 DEF GuardsInv

(* Past the completion the text is marked.                                 *)
LEMMA MarkedUnless ==
  ASSUME GuardsInv, at # "complete"
  PROVE  text \in Texts /\ Marked(text) /\ Typed
BY DEF GuardsInv, Marks

(* The report of what has been written is never missing from a text that   *)
(* has been through _tail.                                                 *)
LEMMA ReportedIs ==
  ASSUME NEW t \in Texts, Typed'
  PROVE  /\ Reported(t) \in Texts /\ Reported(t).end = t.end /\ Reported(t).via = t.via
         /\ Reported(t).note = t.note /\ Reported(t).told = t.told
         /\ Reported(t).verdict = t.verdict
         /\ writes'.counted => Reported(t).report # "missing"
BY DEF Reported, Texts, Reports, Typed, Tallies

(* A text that is returned with a notice.                                  *)
LEMMA Returning ==
  ASSUME NEW t \in Texts, Marked(t), Typed', Return(t)
  PROVE  GuardsInv'
<1> DEFINE u == [t EXCEPT !.told = TRUE]
<1>1. u \in Texts /\ u.told /\ Marked(u)
  BY DEF Texts, Marked
<1>2. at' = "returned" /\ text' = Reported(u)
  BY DEF Return, Go
<1> HIDE DEF u
<1>3. Marked(text') /\ text' \in Texts /\ text'.told
  BY <1>1, <1>2, ReportedIs DEF Marked
<1> QED BY <1>1, <1>2, <1>3, ReportedIs, GuardReturns

(* The steps most guards are made of.                                      *)
LEMMA PassesKeep ==
  ASSUME GuardsInv, NEW here, NEW next, Passes(here, next), here # "complete",
         here \notin Beyond, next \notin Beyond, next # "complete",
         next \in Before => here \in Before
  PROVE  GuardsInv'
<1>1. at = here /\ at' = next
  BY DEF Passes, Go
<1>2. base' = base /\ text' = text /\ checks' = checks /\ Typed'
  BY DEF Passes, locals, GuardsInv, Typed
<1>3. Marked(text') /\ text' \in Texts
  BY <1>1, <1>2, MarkedUnless
<1> QED BY <1>1, <1>2, <1>3, GuardsGoOn

(* A text returned under the notice of a guard.                            *)
LEMMA FlaggedKeeps ==
  ASSUME GuardsInv, NEW here, Flagged(here), here # "complete"
  PROVE  GuardsInv'
<1>1. Typed' /\ at # "complete" /\ Return(text)
  BY DEF Flagged, GuardsInv, Typed
<1> QED BY <1>1, MarkedUnless, Returning

(* A text under other notices is returned as well.                         *)
LEMMA AttemptedKeeps ==
  ASSUME NEW t \in Texts, Marked(t)
  PROVE  /\ [t EXCEPT !.attempted = TRUE] \in Texts
         /\ Marked([t EXCEPT !.attempted = TRUE])
         /\ [t EXCEPT !.attempted = TRUE, !.notApplied = TRUE] \in Texts
         /\ Marked([t EXCEPT !.attempted = TRUE, !.notApplied = TRUE])
BY DEF Texts, Marked

(* A text returned under a notice because the retry has been used.         *)
LEMMA SpentKeeps ==
  ASSUME GuardsInv, NEW here, Spent(here), here # "complete"
  PROVE  GuardsInv'
<1>1. Typed' /\ at # "complete" /\ Return([text EXCEPT !.attempted = TRUE])
  BY DEF Spent, GuardsInv, Typed
<1>2. text \in Texts /\ Marked(text)
  BY <1>1, MarkedUnless
<1> QED BY <1>1, <1>2, AttemptedKeeps, Returning

(* A retry returned with the fault it was made for comes by a way that     *)
(* does not ask.                                                           *)
LEMMA SameFaultKeeps ==
  ASSUME GuardsInv, NEW o \in Outcomes, NEW notApplied \in BOOLEAN, SameFault(o, notApplied)
  PROVE  GuardsInv'
<1> DEFINE t == [Draft(o) EXCEPT !.via = "same fault", !.notApplied = notApplied]
<1>1. o.how # "raised" /\ o.end \in Ends /\ o.wrote \in BOOLEAN /\ Return(t)
  BY OutcomesAre DEF SameFault
<1>2. Draft(o) \in Texts
  BY <1>1, DraftIs
<1>3. t \in Texts /\ Marked(t)
  BY <1>2 DEF Texts, Marked, Routes
<1>4. team' \in Flags
  BY DEF SameFault, GuardsInv, Typed, Flags
<1>5. writes' \in Tallies
  BY <1>1 DEF SameFault, GuardsInv, Typed, Tallies
<1>6. checks' \in Asked
  BY DEF SameFault, GuardsInv, Typed
<1> HIDE DEF t
<1> QED BY <1>1, <1>3, <1>4, <1>5, <1>6, Returning DEF Typed

(* A retry leaves a text nobody has verified, or the text as it was.       *)
LEMMA RetryKeeps ==
  ASSUME GuardsInv, at \notin Beyond, at # "complete", NEW next, Retry(next),
         next \notin Beyond, next # "complete", next \in Before => at \in Before
  PROVE  GuardsInv'
<1>1. PICK o \in Outcomes :
        /\ Adopted(o) \/ Declined(o) \/ (o.how = "raised" /\ Dropped(o))
        /\ Go(next) /\ UNCHANGED <<locals, status>>
  BY DEF Retry
<1>2. at' = next /\ base' = base
  BY <1>1 DEF Go, locals
<1>3. text \in Texts /\ Marked(text) /\ Typed
  BY MarkedUnless
<1>4. CASE Adopted(o)
  BY <1>2, <1>3, <1>4, AdoptedIs, GuardsGoOn
<1>5. CASE Declined(o)
  BY <1>2, <1>3, <1>5, DeclinedIs, GuardsGoOn
<1>6. CASE Dropped(o)
  BY <1>2, <1>3, <1>6, DroppedIs, GuardsGoOn
<1> QED BY <1>1, <1>4, <1>5, <1>6

(* So does a pass that is grounded in what was captured.                   *)
LEMMA GroundedKeeps ==
  ASSUME GuardsInv, at \notin Beyond, at # "complete", NEW next, NEW recovered,
         Grounded(next, recovered),
         next \notin Beyond \cup Before, recovered \notin Beyond \cup Before
  PROVE  GuardsInv'
<1>1. PICK o \in Outcomes :
        /\ \/ o.how = "answer" /\ Adopted(o) /\ Go(recovered)
           \/ o.how = "answer" /\ Declined(o) /\ Go(next)
           \/ Dropped(o) /\ Go(next)
        /\ UNCHANGED <<locals, status>>
  BY DEF Grounded
<1>2. at' \in {next, recovered} /\ base' = base
  BY <1>1 DEF Go, locals
<1>3. at' \notin Beyond /\ at' \notin Before /\ at' # "complete"
  BY <1>2 DEF Before
<1>4. text \in Texts /\ Marked(text) /\ Typed
  BY MarkedUnless
<1>5. CASE Adopted(o)
  BY <1>2, <1>3, <1>4, <1>5, AdoptedIs, GuardsGoOn
<1>6. CASE Declined(o)
  BY <1>2, <1>3, <1>4, <1>6, DeclinedIs, GuardsGoOn
<1>7. CASE Dropped(o)
  BY <1>2, <1>3, <1>4, <1>7, DroppedIs, GuardsGoOn
<1> QED BY <1>1, <1>5, <1>6, <1>7

(* A recovered text is verified on the spot, or returned with a notice.    *)
LEMMA RecoversKeep ==
  ASSUME GuardsInv, NEW t \in Texts, Marked(t), Recovers(t)
  PROVE  GuardsInv'
<1>1. PICK said \in Verified(t) : text' = Reported([t EXCEPT !.told = @ \/ said # "ok"])
  BY DEF Recovers
<1> DEFINE u == [t EXCEPT !.told = @ \/ said # "ok"]
<1>2. Typed' /\ at' = "returned" /\ checks' = checks
  BY DEF Recovers, Go, GuardsInv, Typed
<1>3. u \in Texts /\ Marked(u) /\ u.verdict = t.verdict /\ (said # "ok" => u.told)
  BY DEF Texts, Marked
<1>4. checks.hive /\ said = "ok" => t.verdict = "clean"
  BY DEF Verified
<1> HIDE DEF u
<1>5. text' \in Texts /\ Marked(text') /\ (checks'.hive => text'.told \/ text'.verdict = "clean")
      /\ (writes'.counted => text'.report # "missing")
  BY <1>1, <1>2, <1>3, <1>4, ReportedIs DEF Marked, u
<1> QED BY <1>2, <1>5, GuardReturns

(* An answer put together from what was computed is whole.                 *)
LEMMA SynthesisedIs ==
  ASSUME NEW v \in Verdicts
  PROVE  /\ Synthesised(v) \in Texts /\ Marked(Synthesised(v))
         /\ Synthesised(v).end = "whole" /\ Synthesised(v).told = FALSE
BY DEF Synthesised, Draft, Texts, Marked, Ends, Routes, Notes, Heads, Reports

-----------------------------------------------------------------------------
(* The places of the guards, apart.                                        *)
Guards == {"no answer", "intent", "write claim", "search claim", "no evidence",
           "ungrounded", "db", "no db", "narrated", "enumeration", "no listing",
           "counts", "claims", "withheld", "still short", "recovered", "thin",
           "sources", "both sides", "compared", "list", "relay", "capability",
           "notices", "dispose", "correct"}

(* No guard is a place before the verification or after the return.        *)
LEMMA GuardsApart ==
  /\ \A g \in Guards : g \notin Beyond /\ g \notin Before
  /\ \A g \in Before : g \notin Beyond
BY DEF Guards, Beyond, Before, After

(* The steps of a guard, when the invariant holds: it finds no fault,      *)
LEMMA GuardPasses ==
  ASSUME GuardsInv, NEW here \in Guards, NEW next \in Guards, Passes(here, next)
  PROVE  GuardsInv'
BY PassesKeep, GuardsApart DEF Before

(* it sends the team over the task again,                                  *)
LEMMA GuardRetries ==
  ASSUME GuardsInv, at \in Guards, NEW next \in Guards, Retry(next)
  PROVE  GuardsInv'
BY RetryKeeps, GuardsApart DEF Before

(* it does so with what was captured,                                      *)
LEMMA GuardGrounds ==
  ASSUME GuardsInv, at \in Guards, NEW next \in Guards, NEW recovered \in Guards,
         Grounded(next, recovered)
  PROVE  GuardsInv'
BY GroundedKeeps, GuardsApart DEF Before

(* or it returns the text under a notice.                                  *)
LEMMA GuardFlags ==
  ASSUME GuardsInv, NEW here \in Guards, Flagged(here) \/ Spent(here)
  PROVE  GuardsInv'
BY FlaggedKeeps, SpentKeeps, GuardsApart DEF Before

(* At a guard the text is one, and marked.                                 *)
LEMMA AtGuard ==
  ASSUME GuardsInv, at \in Guards
  PROVE  text \in Texts /\ Marked(text) /\ Typed
BY MarkedUnless, GuardsApart DEF Before

(* Once the completion has run a cut text is marked; no verdict is known   *)
(* yet.                                                                    *)
LEMMA CompleteKeeps ==
  ASSUME GuardsInv, Complete
  PROVE  GuardsInv'
<1>1. at = "complete" /\ at' = "syntax loss" /\ base' = base /\ checks' = checks
  BY DEF Complete, Go, locals
<1>2. text \in Texts /\ Typed /\ checks.seen = "no"
  BY <1>1 DEF GuardsInv, Unasked, Before
<1>3. at \notin Beyond /\ at' \notin Beyond /\ at \in Before
  BY <1>1 DEF Beyond, Before, After
<1>4. CASE ~team.stalled /\ UNCHANGED <<text, team, writes>>
  <2>1. Marked(text') /\ text' \in Texts /\ Typed'
    BY <1>1, <1>2, <1>4 DEF GuardsInv, Marks, Typed
  <2> QED BY <1>1, <1>2, <1>3, <2>1, GuardsGoOn
<1>5. CASE \E c \in Completions(text) :
             /\ text' = c.text
             /\ team' = [team EXCEPT !.stalled = FALSE, !.spent = c.ran]
             /\ writes' = [counted |-> writes.counted \/ c.wrote,
                          result |-> IF c.taken THEN c.wrote ELSE writes.result]
  <2>1. PICK c \in Completions(text) :
             /\ text' = c.text
             /\ team' = [team EXCEPT !.stalled = FALSE, !.spent = c.ran]
             /\ writes' = [counted |-> writes.counted \/ c.wrote,
                          result |-> IF c.taken THEN c.wrote ELSE writes.result]
    BY <1>5
  <2>2. c.ran \in BOOLEAN /\ c.wrote \in BOOLEAN /\ c.taken \in BOOLEAN
    BY <1>2, CompletionsAre
  <2>3. text' \in Texts /\ Marked(text')
    BY <1>2, <2>1, CompletionsAre DEF Marked
  <2>4. team' \in Flags
    BY <1>2, <2>1, <2>2 DEF Typed, Flags
  <2>5. writes' \in Tallies
    BY <1>2, <2>1, <2>2 DEF Typed, Tallies
  <2>6. Typed' /\ checks'.seen = "no"
    BY <1>1, <1>2, <2>4, <2>5 DEF Typed
  <2> QED BY <1>1, <1>3, <2>3, <2>6, GuardsGoOn
<1> QED BY <1>4, <1>5 DEF Complete

(* The retry after a loss of syntax comes before any verdict.              *)
LEMMA ReaskKeeps ==
  ASSUME GuardsInv, ReaskAfterSyntaxLoss
  PROVE  GuardsInv'
<1>1. "syntax loss" \in Before /\ "comparison" \in Before
      /\ "syntax loss" \notin Beyond /\ "comparison" \notin Beyond
  BY GuardsApart DEF Before
<1>2. CASE Passes("syntax loss", "comparison")
  BY <1>1, <1>2, PassesKeep
<1>3. CASE at = "syntax loss" /\ Retry("comparison")
  BY <1>1, <1>3, RetryKeeps
<1> QED BY <1>2, <1>3 DEF ReaskAfterSyntaxLoss

(* So does the text synthesised from the comparison.                       *)
LEMMA ReconcileKeeps ==
  ASSUME GuardsInv, ReconcileComparison
  PROVE  GuardsInv'
<1>1. "comparison" \in Before /\ "upfront" \in Before
      /\ "comparison" \notin Beyond /\ "upfront" \notin Beyond
  BY GuardsApart DEF Before
<1>2. CASE Passes("comparison", "upfront")
  BY <1>1, <1>2, PassesKeep
<1>3. CASE at = "comparison" /\ Retry("upfront")
  BY <1>1, <1>3, RetryKeeps
<1>4. CASE /\ at = "comparison" /\ Go("upfront")
           /\ \E v \in Verdicts : text' = Synthesised(v)
           /\ UNCHANGED <<locals, team, writes, checks, status>>
  <2>1. text' \in Texts /\ Marked(text')
    BY <1>4, SynthesisedIs
  <2>2. checks' = checks /\ base' = base /\ at' = "upfront" /\ Typed' /\ checks.seen = "no"
    BY <1>1, <1>4 DEF Go, locals, GuardsInv, Typed, Unasked
  <2> QED BY <1>1, <1>4, <2>1, <2>2, GuardsGoOn
<1> QED BY <1>2, <1>3, <1>4 DEF ReconcileComparison

(* What verify_claims says of the draft is what is known of it from now on. *)
LEMMA VerifyKeeps ==
  ASSUME GuardsInv, VerifyUpFront
  PROVE  GuardsInv'
<1>1. PICK said \in Verified(text) : checks' = [checks EXCEPT !.seen = said]
  BY DEF VerifyUpFront
<1>2. /\ at = "upfront" /\ at' = "no answer"
      /\ text' = text /\ base' = base /\ team' = team /\ writes' = writes
  BY DEF VerifyUpFront, Go, locals
<1>3. at \notin Beyond /\ at' \notin Beyond /\ at' \notin Before
  BY <1>2, GuardsApart DEF Guards, Before
<1>4. text \in Texts /\ Marked(text) /\ Typed /\ (at \notin Beyond => base \in Texts)
  BY <1>2, MarkedUnless DEF GuardsInv, Drafts
<1>5. said \in {"ok", "bad", "unavailable"}
      /\ (checks.hive /\ said = "ok" => text.verdict = "clean")
  BY DEF Verified
<1>6. checks' \in Asked /\ checks'.seen = said /\ checks'.hive = checks.hive
  BY <1>1, <1>4, <1>5 DEF Typed, Asked
<1>7. Typed'
  BY <1>2, <1>4, <1>6 DEF Typed
<1>8. Drafts' /\ Marks' /\ Unasked' /\ Accounts' /\ NothingUnverifiedGoesUntold'
  BY <1>2, <1>3, <1>4
     DEF Drafts, Marks, Marked, Unasked, Accounts, NothingUnverifiedGoesUntold
<1>9. Vouched'
  BY <1>2, <1>5, <1>6 DEF Vouched
<1> QED BY <1>2, <1>4, <1>7, <1>8, <1>9 DEF GuardsInv

(* The guards one by one: the canned apology,                              *)
LEMMA NoAnswerKeeps ==
  ASSUME GuardsInv, NoAnswer
  PROVE  GuardsInv'
BY GuardFlags, GuardPasses DEF NoAnswer, Guards

(* an announced intent,                                                    *)
LEMMA IntentKeeps ==
  ASSUME GuardsInv, UnfinishedIntent
  PROVE  GuardsInv'
BY GuardFlags, GuardPasses, GuardRetries, SameFaultKeeps DEF UnfinishedIntent, Guards

(* a write that is claimed,                                                *)
LEMMA WriteClaimKeeps ==
  ASSUME GuardsInv, WriteClaim
  PROVE  GuardsInv'
<1>1. CASE Return([text EXCEPT !.attempted = TRUE, !.notApplied = TRUE])
           /\ at = "write claim" /\ UNCHANGED <<locals, team, writes, checks, status>>
  <2>1. text \in Texts /\ Marked(text) /\ Typed'
    BY <1>1, AtGuard DEF Guards, Typed
  <2> QED BY <1>1, <2>1, AttemptedKeeps, Returning
<1>2. CASE Passes("write claim", "search claim")
  BY <1>2, GuardPasses DEF Guards
<1>3. CASE at = "write claim" /\ Retry("search claim")
  BY <1>3, GuardRetries DEF Guards
<1>4. CASE \E o \in Outcomes : SameFault(o, TRUE)
  BY <1>4, SameFaultKeeps
<1> QED BY <1>1, <1>2, <1>3, <1>4 DEF WriteClaim

(* a search that is claimed,                                               *)
LEMMA SearchClaimKeeps ==
  ASSUME GuardsInv, SearchClaim
  PROVE  GuardsInv'
BY GuardFlags, GuardPasses, GuardGrounds, SameFaultKeeps DEF SearchClaim, Guards

(* evidence that is missing,                                               *)
LEMMA EvidenceKeeps ==
  ASSUME GuardsInv, NoEvidence \/ DbEvidence \/ EnumerationEvidence \/ NarratedTool
  PROVE  GuardsInv'
<1>1. CASE NoEvidence
  BY <1>1, GuardFlags, GuardPasses, GuardRetries DEF NoEvidence, Guards
<1>2. CASE DbEvidence
  BY <1>2, GuardFlags, GuardPasses, GuardRetries DEF DbEvidence, Guards
<1>3. CASE EnumerationEvidence
  BY <1>3, GuardFlags, GuardPasses, GuardRetries DEF EnumerationEvidence, Guards
<1>4. CASE NarratedTool
  BY <1>4, GuardPasses, GuardRetries DEF NarratedTool, Guards
<1> QED BY <1>1, <1>2, <1>3, <1>4

(* a count that is borne out by nothing,                                   *)
LEMMA CountsKeep ==
  ASSUME GuardsInv, Counts
  PROVE  GuardsInv'
<1>1. CASE at = "counts" /\ UNCHANGED <<locals, team, writes, checks, status>>
           /\ Return(Synthesised("clean"))
  <2>1. Typed' /\ "clean" \in Verdicts
    BY <1>1 DEF GuardsInv, Typed, Verdicts
  <2> QED BY <1>1, <2>1, SynthesisedIs, Returning
<1>2. CASE Passes("counts", "claims") \/ Flagged("counts")
  BY <1>2, GuardFlags, GuardPasses DEF Guards
<1> QED BY <1>1, <1>2 DEF Counts

(* an answer that says less than was found.                                *)
LEMMA ShortKeeps ==
  ASSUME GuardsInv,
         \/ ClaimsAndSums \/ UnderDelivery \/ Recovered \/ ThinAnswer \/ Sources
         \/ UnderAnsweredComparison \/ UnderAnsweredEnumeration \/ RelayDrop \/ Capability
  PROVE  GuardsInv'
<1>1. CASE ClaimsAndSums \/ Sources \/ UnderAnsweredEnumeration \/ Capability
  BY <1>1, GuardFlags, GuardPasses
     DEF ClaimsAndSums, Sources, UnderAnsweredEnumeration, Capability, Guards
<1>2. CASE UnderDelivery
  <2>1. CASE \E v \in Verdicts : Recovers(Synthesised(v))
    BY <2>1, SynthesisedIs, RecoversKeep
  <2>2. CASE Passes("withheld", "thin") \/ Flagged("withheld") \/ Flagged("still short")
    BY <2>2, GuardFlags, GuardPasses DEF Guards
  <2>3. CASE at = "withheld" /\ Grounded("still short", "recovered")
    BY <2>3, GuardGrounds DEF Guards
  <2> QED BY <1>2, <2>1, <2>2, <2>3 DEF UnderDelivery
<1>3. CASE Recovered
  BY <1>3, AtGuard, RecoversKeep DEF Recovered, Guards
<1>4. CASE ThinAnswer
  BY <1>4, GuardPasses, GuardGrounds DEF ThinAnswer, Guards
<1>5. CASE UnderAnsweredComparison
  BY <1>5, GuardFlags, GuardPasses, GuardGrounds DEF UnderAnsweredComparison, Guards
<1>6. CASE RelayDrop
  BY <1>6, GuardFlags, GuardPasses, GuardGrounds DEF RelayDrop, Guards
<1> QED BY <1>1, <1>2, <1>3, <1>4, <1>5, <1>6

(* A notice makes it another text, which has not been verified.            *)
LEMMA NoticesKept ==
  ASSUME GuardsInv, Notices
  PROVE  GuardsInv'
<1>1. CASE Passes("notices", "dispose")
  BY <1>1, GuardPasses DEF Guards
<1>2. CASE /\ at = "notices" /\ Go("dispose")
           /\ text' = [text EXCEPT !.told = TRUE] /\ checks' = Unverified
           /\ UNCHANGED <<locals, team, writes, status>>
  <2>1. at \in Guards /\ at' \in Guards /\ base' = base
    BY <1>2 DEF Go, locals, Guards
  <2>2. text \in Texts /\ Marked(text) /\ Typed
    BY <2>1, AtGuard
  <2>3. text' \in Texts /\ Marked(text')
    BY <1>2, <2>2 DEF Texts, Marked
  <2>4. Typed' /\ checks'.seen = "no"
    BY <1>2, <2>2 DEF Typed, Asked, Unverified
  <2> QED BY <2>1, <2>3, <2>4, GuardsApart, GuardsGoOn DEF Before
<1> QED BY <1>1, <1>2 DEF Notices

(* The last word: what was said of the text is true of it, or it is asked  *)
(* now.                                                                    *)
LEMMA DisposeKeeps ==
  ASSUME GuardsInv, Dispose
  PROVE  GuardsInv'
<1>1. at = "dispose" /\ at \in Guards /\ at \notin Beyond
      /\ UNCHANGED <<locals, team, writes, status>>
  BY GuardsApart DEF Dispose, Guards
<1>2. text \in Texts /\ Marked(text) /\ Typed
  BY <1>1, AtGuard
<1>3. PICK said \in IF checks.seen = "no" THEN Verified(text) ELSE {checks.seen} :
       \/ said = "unavailable" /\ Return(text) /\ UNCHANGED checks
       \/ said = "ok" /\ Go("returned") /\ text' = Reported(text) /\ UNCHANGED checks
       \/ said = "bad" /\ Unlisted
       \/ said = "bad" /\ team.spent /\ Return([text EXCEPT !.attempted = TRUE]) /\ UNCHANGED checks
       \/ said = "bad" /\ ~team.spent /\ Go("correct") /\ UNCHANGED <<text, checks>>
  BY DEF Dispose
<1>4. Typed' /\ (checks' = checks \/ Unlisted)
  <2>1. Unlisted => checks' \in Asked
    BY <1>2 DEF Unlisted, Typed, Asked
  <2> QED BY <1>1, <1>2, <1>3, <2>1 DEF Typed
<1>5. checks.hive /\ said = "ok" => text.verdict = "clean"
  BY <1>1, <1>3 DEF GuardsInv, Vouched, Verified
<1>6. CASE Return(text) \/ Return([text EXCEPT !.attempted = TRUE])
  BY <1>2, <1>4, <1>6, AttemptedKeeps, Returning
<1>7. CASE said = "ok" /\ Go("returned") /\ text' = Reported(text) /\ UNCHANGED checks
  <2>1. text' \in Texts /\ Marked(text') /\ text'.verdict = text.verdict
        /\ (writes'.counted => text'.report # "missing")
    BY <1>2, <1>4, <1>7, ReportedIs DEF Marked
  <2> QED BY <1>4, <1>5, <1>7, <2>1, GuardReturns DEF Go
<1>8. CASE Go("correct") /\ UNCHANGED <<text, checks>>
  <2>1. at' \in Guards /\ base' = base /\ text' = text /\ checks' = checks
    BY <1>1, <1>8 DEF Go, locals, Guards
  <2> QED BY <1>1, <1>2, <1>4, <2>1, GuardsApart, GuardsGoOn DEF Before
<1>9. CASE Unlisted
  <2>1. PICK noted \in BOOLEAN : text' = Reported([text EXCEPT !.told = @ \/ noted])
    BY <1>9 DEF Unlisted
  <2> DEFINE t == [text EXCEPT !.told = @ \/ noted]
  <2>2. t \in Texts /\ Marked(t) /\ t.verdict = text.verdict
    BY <1>2 DEF Texts, Marked
  <2> HIDE DEF t
  <2>3. text' \in Texts /\ Marked(text') /\ text'.verdict = text.verdict
        /\ (writes'.counted => text'.report # "missing")
    BY <1>4, <2>1, <2>2, ReportedIs DEF Marked, t
  <2>4. at' = "returned" /\ text.verdict = "miscited" /\ checks'.unlisted
    BY <1>2, <1>9 DEF Unlisted, Go, Typed, Asked
  <2> QED BY <1>4, <2>3, <2>4, GuardReturns
<1> QED BY <1>3, <1>6, <1>7, <1>8, <1>9

(* A correction is verified again, or returned with a notice.              *)
LEMMA CorrectKeeps ==
  ASSUME GuardsInv, Correct
  PROVE  GuardsInv'
<1>1. PICK o \in Outcomes :
    /\ at = "correct" /\ UNCHANGED <<locals, checks, status>>
    /\ team' = [team EXCEPT !.spent = @ \/ o.how # "raised", !.stalled = FALSE]
    /\ writes' = [writes EXCEPT !.counted = @ \/ (o.wrote /\ o.how # "raised")]
    /\ \/ Return([text EXCEPT !.attempted = TRUE])
       \/ /\ Adoptable(o)
          /\ \E said \in Verified(Draft(o)) :
               IF said = "ok" THEN Go("returned") /\ text' = Reported(Draft(o))
               ELSE Return(Draft(o))
  BY DEF Correct
<1>2. text \in Texts /\ Marked(text) /\ Typed
  BY <1>1, AtGuard DEF Guards
<1>3. o.wrote \in BOOLEAN
  BY OutcomesAre
<1>4. team' \in Flags
  BY <1>1, <1>2 DEF Typed, Flags
<1>5. writes' \in Tallies
  BY <1>1, <1>2, <1>3 DEF Typed, Tallies
<1>6. Typed' /\ checks' = checks
  BY <1>1, <1>2, <1>4, <1>5 DEF Typed
<1>7. CASE Return([text EXCEPT !.attempted = TRUE])
  BY <1>2, <1>6, <1>7, AttemptedKeeps, Returning
<1>8. CASE Adoptable(o) /\ \E said \in Verified(Draft(o)) :
               IF said = "ok" THEN Go("returned") /\ text' = Reported(Draft(o))
               ELSE Return(Draft(o))
  <2>1. Draft(o) \in Texts /\ Draft(o).end = "whole"
    BY <1>8, DraftIs DEF Adoptable
  <2>2. Marked(Draft(o))
    BY <2>1 DEF Marked
  <2>3. PICK said \in Verified(Draft(o)) :
               IF said = "ok" THEN Go("returned") /\ text' = Reported(Draft(o))
               ELSE Return(Draft(o))
    BY <1>8
  <2>4. CASE Return(Draft(o))
    BY <1>6, <2>1, <2>2, <2>4, Returning
  <2>5. CASE said = "ok" /\ Go("returned") /\ text' = Reported(Draft(o))
    <3>1. checks.hive => Draft(o).verdict = "clean"
      BY <2>3, <2>5 DEF Verified
    <3>2. text' \in Texts /\ Marked(text') /\ text'.verdict = Draft(o).verdict
          /\ (writes'.counted => text'.report # "missing")
      BY <1>6, <2>1, <2>2, <2>5, ReportedIs DEF Marked
    <3> QED BY <1>6, <2>5, <3>1, <3>2, GuardReturns DEF Go
  <2> QED BY <2>3, <2>4, <2>5
<1> QED BY <1>1, <1>7, <1>8

-----------------------------------------------------------------------------
(* After _verified_answer a text is marked when it was cut, and has the    *)
(* report of what was written; each correction keeps that.                 *)
Ships(t) == t \in Texts /\ Marked(t) /\ (writes.counted => t.report # "missing")
Corrections == Beyond \ {"returned"}

(* Past the return the invariant asks only that the text may ship,         *)
LEMMA BeyondKeeps ==
  ASSUME Typed', at' \in Corrections, writes'.counted => writes.counted,
         Ships(text'), checks'.seen = "no"
  PROVE  GuardsInv'
<1>1. at' \in Beyond /\ at' # "complete" /\ at' # "returned"
  BY DEF Beyond, Corrections, After
<1> QED BY <1>1 DEF Ships, GuardsInv, Drafts, Marks, Unasked, Vouched, Accounts,
                    NothingUnverifiedGoesUntold, Corrections

(* which it may when the correction begins.                                *)
LEMMA AtCorrection ==
  ASSUME GuardsInv, at \in Beyond
  PROVE  /\ Ships(text) /\ Typed
         /\ at \in Corrections => checks.seen = "no"
<1>1. at # "complete"
  BY DEF Beyond, After
<1> QED BY <1>1, MarkedUnless DEF GuardsInv, Accounts, Ships, Unasked, Corrections

(* A further notice does no harm.                                          *)
LEMMA NoticesShip ==
  ASSUME NEW t, Ships(t)
  PROVE  /\ Ships(Told(t)) /\ Ships(Covered(t)) /\ Ships(Failed(t))
         /\ Ships([Told(t) EXCEPT !.attempted = TRUE])
<1>1. t \in Texts
  BY DEF Ships
<1>2. \A u \in {Told(t), Covered(t), Failed(t), [Told(t) EXCEPT !.attempted = TRUE]} :
        u \in Texts /\ u.end = t.end /\ u.via = t.via /\ u.note = t.note /\ u.report = t.report
  BY <1>1, NoticesKeep
<1> QED BY <1>2 DEF Ships, Marked

(* What _verified_answer knew of the text is forgotten.                    *)
LEMMA ReturnsKeep ==
  ASSUME GuardsInv, Returns
  PROVE  GuardsInv'
<1>1. at \in Beyond /\ at' \in Corrections
  BY DEF Returns, Go, Beyond, Corrections, After
<1>2. Ships(text) /\ Typed /\ text' = text
  BY <1>1, AtCorrection DEF Returns
<1>3. team' \in Flags /\ checks' \in Asked /\ checks'.seen = "no"
  BY <1>2 DEF Returns, Forgets, Typed, Flags, Asked, Unverified
<1>4. writes' \in Tallies /\ writes'.counted = writes.counted
  BY <1>2 DEF Returns, Forgets, Typed, Tallies
<1> QED BY <1>1, <1>2, <1>3, <1>4, BeyondKeeps DEF Typed

(* A repair keeps the notices and the report.                              *)
LEMMA RepairShips ==
  ASSUME Typed, Ships(text), NEW next, NEW route \in {"repair", "term repair"},
         Repair(next, route)
  PROVE  /\ Ships(text') /\ team' \in Flags /\ at' = next /\ writes' = writes /\ base' = base
         /\ text'.head = "failed" \/ text'.via = route
         /\ checks.hive /\ route = "repair" => text'.head = "failed" \/ text'.verdict = "clean"
<1>1. at' = next /\ writes' = writes /\ base' = base
  BY DEF Repair, Go, locals
<1>2. text \in Texts
  BY DEF Ships
<1>3. Ships(Failed(text)) /\ Failed(text).head = "failed"
  BY <1>2, NoticesShip, NoticesKeep
<1>4. CASE text' = Failed(text) /\ team' = [team EXCEPT !.repaired = TRUE]
  <2>1. team' \in Flags
    BY <1>4 DEF Typed, Flags
  <2> QED BY <1>1, <1>3, <1>4, <2>1
<1>5. CASE \E o \in Outcomes :
             /\ Leaves(o)
             /\ \/ text' = Failed(text)
                \/ /\ o.how = "answer" /\ (route = "repair" => "ok" \in Verified(o))
                   /\ text' = Corrected(o, route)
  <2>1. PICK o \in Outcomes :
             /\ Leaves(o)
             /\ \/ text' = Failed(text)
                \/ /\ o.how = "answer" /\ (route = "repair" => "ok" \in Verified(o))
                   /\ text' = Corrected(o, route)
    BY <1>5
  <2>2. team' \in Flags
    BY <2>1 DEF Leaves, Typed, Flags
  <2>3. CASE text' = Failed(text)
    BY <1>1, <1>3, <2>2, <2>3
  <2>4. CASE /\ o.how = "answer" /\ (route = "repair" => "ok" \in Verified(o))
             /\ text' = Corrected(o, route)
    <3>1. o.end \in Ends /\ o.verdict \in Verdicts
      BY OutcomesAre
    <3>2. text' \in Texts /\ text'.via = route /\ text'.report = text.report
          /\ text'.verdict = o.verdict
      BY <1>2, <2>4, <3>1 DEF Corrected, Texts, Routes
    <3>3. Ships(text')
      BY <3>2 DEF Ships, Marked
    <3>4. checks.hive /\ route = "repair" => text'.verdict = "clean"
      BY <2>4, <3>2 DEF Verified
    <3> QED BY <1>1, <2>2, <3>2, <3>3, <3>4
  <2> QED BY <2>1, <2>3, <2>4
<1> QED BY <1>4, <1>5 DEF Repair

(* The enforcement of the invariant keeps it, with or without a repair.    *)
LEMMA InvariantKeeps ==
  ASSUME GuardsInv, NEW here \in Corrections, NEW next \in Corrections, NEW last \in BOOLEAN,
         Invariant(here, next, last)
  PROVE  GuardsInv'
<1>1. at \in Corrections /\ at \in Beyond
  BY DEF Invariant, Corrections
<1>2. Ships(text) /\ Typed /\ checks.seen = "no"
  BY <1>1, AtCorrection
<1>3. PICK said \in Verified(text) :
       /\ checks' = [checks EXCEPT !.unsure = last /\ said = "unavailable"]
       /\ \/ Repair(next, "repair")
          \/ Repair(next, "term repair")
          \/ Go(next) /\ UNCHANGED <<text, locals, team, writes, status>>
  BY DEF Invariant
<1>4. checks' \in Asked /\ checks'.seen = "no"
  BY <1>2, <1>3 DEF Typed, Asked
<1>5. Ships(text') /\ team' \in Flags /\ at' = next /\ writes' = writes
  BY <1>2, <1>3, RepairShips DEF Go, Typed
<1> QED BY <1>2, <1>4, <1>5, BeyondKeeps DEF Typed

-----------------------------------------------------------------------------
(* What the late corrections choose among is marked and replaces the       *)
(* report.                                                                 *)
LEMMA LateShips ==
  ASSUME Typed, NEW o \in LateOutcomes, o.how # "raised", NEW r \in Late(o)
  PROVE  Ships(r)
<1>1. o \in Outcomes
  BY DEF LateOutcomes
<1>2. Draft(o) \in Texts /\ Draft(o).end = o.end
  BY <1>1, DraftIs
<1>3. CASE team.stalled \/ o.end # "whole"
  <2>1. PICK c \in Completions(Draft(o)) : r = Replacing(c.text)
    BY <1>3 DEF Late
  <2>2. c.text \in Texts /\ (c.text.end = "cut" => c.text.note # "none")
    BY <1>2, CompletionsAre
  <2>3. r \in Texts /\ (r.end = "cut" => r.note # "none") /\ r.report = "replaced"
    BY <2>1, <2>2, ReplacingIs
  <2> QED BY <2>3 DEF Ships, Marked
<1>4. CASE ~(team.stalled \/ o.end # "whole")
  <2>1. r = Replacing(Draft(o))
    BY <1>4 DEF Late
  <2>2. r \in Texts /\ r.end = "whole" /\ r.report = "replaced"
    BY <1>2, <1>4, <2>1, ReplacingIs
  <2> QED BY <2>2 DEF Ships, Marked
<1> QED BY <1>3, <1>4

(* A correction keeps it if the text it leaves may ship.                   *)
LEMMA RewritesKeep ==
  ASSUME GuardsInv, NEW here \in Corrections, NEW next \in Corrections, at = here, at' = next,
         UNCHANGED <<locals, writes, checks, status>>, team' \in Flags, Ships(text')
  PROVE  GuardsInv'
<1>1. at \in Corrections /\ at \in Beyond
  BY DEF Corrections
<1> QED BY <1>1, AtCorrection, BeyondKeeps DEF Typed

(* Each text a correction may take ships.                                  *)
LEMMA TakenShip ==
  ASSUME NEW r, Ships(r), Ships(text), NEW u,
         u \in Reconciled(r) \/ u \in Integrated(r) \/ u \in Bridged(r)
  PROVE  Ships(u)
<1>1. /\ Ships(Told(r)) /\ Ships(Covered(r)) /\ Ships([Told(r) EXCEPT !.attempted = TRUE])
      /\ Ships(Told(text)) /\ Ships(Covered(text))
  BY NoticesShip
<1>2. CASE u \in StillFlagged(r)
  <2>1. u = [Told(r) EXCEPT !.attempted = TRUE]
    BY <1>2 DEF StillFlagged
  <2> QED BY <1>1, <2>1
<1>3. CASE u = [Told(r) EXCEPT !.verdict = text.verdict]
  <2>1. r \in Texts /\ text.verdict \in Verdicts /\ Told(r) \in Texts
    BY <1>1 DEF Ships, Texts
  <2>2. /\ u \in Texts /\ u.end = Told(r).end /\ u.via = Told(r).via
        /\ u.note = Told(r).note /\ u.report = Told(r).report
    BY <1>3, <2>1 DEF Texts
  <2> QED BY <1>1, <2>2 DEF Ships, Marked
<1>4. \/ u \in {r, Told(r), Covered(r), Told(text), Covered(text)}
      \/ u \in StillFlagged(r) \/ u = [Told(r) EXCEPT !.verdict = text.verdict]
  BY DEF Reconciled, Integrated, Bridged
<1> QED BY <1>1, <1>2, <1>3, <1>4

(* The four corrections: of the integrity of the evidence,                 *)
LEMMA IntegrityRewrites ==
  ASSUME GuardsInv, Rewrites("integrity", "integration", Covered, Reconciled)
  PROVE  GuardsInv'
<1>1. /\ at = "integrity" /\ at' = "integration"
      /\ UNCHANGED <<locals, writes, checks, status>>
  BY DEF Rewrites, Go
<1>2. "integrity" \in Corrections /\ "integration" \in Corrections
  BY DEF Corrections, Beyond, After
<1>3. Ships(text) /\ Typed
  BY <1>1, <1>2, AtCorrection DEF Corrections
<1>4. PICK o \in LateOutcomes :
       \/ o.how = "raised" /\ UNCHANGED team /\ text' = Covered(text)
       \/ /\ o.how # "raised" /\ team' = [team EXCEPT !.stalled = FALSE]
          /\ \E r \in Late(o) : text' \in Reconciled(r)
  BY DEF Rewrites
<1>5. team' \in Flags
  BY <1>3, <1>4 DEF Typed, Flags
<1>6. Ships(text')
  <2>1. CASE text' = Covered(text)
    BY <1>3, <2>1, NoticesShip
  <2>2. CASE o.how # "raised" /\ \E r \in Late(o) : text' \in Reconciled(r)
    <3>1. PICK r \in Late(o) : text' \in Reconciled(r)
      BY <2>2
    <3>2. Ships(r)
      BY <1>3, <2>2, LateShips
    <3> QED BY <1>3, <3>1, <3>2, TakenShip
  <2> QED BY <1>4, <2>1, <2>2
<1> QED BY <1>1, <1>2, <1>5, <1>6, RewritesKeep

(* of the integration,                                                     *)
LEMMA IntegrationRewrites ==
  ASSUME GuardsInv, Rewrites("integration", "coverage", Told, Integrated)
  PROVE  GuardsInv'
<1>1. /\ at = "integration" /\ at' = "coverage"
      /\ UNCHANGED <<locals, writes, checks, status>>
  BY DEF Rewrites, Go
<1>2. "integration" \in Corrections /\ "coverage" \in Corrections
  BY DEF Corrections, Beyond, After
<1>3. Ships(text) /\ Typed
  BY <1>1, <1>2, AtCorrection DEF Corrections
<1>4. PICK o \in LateOutcomes :
       \/ o.how = "raised" /\ UNCHANGED team /\ text' = Told(text)
       \/ /\ o.how # "raised" /\ team' = [team EXCEPT !.stalled = FALSE]
          /\ \E r \in Late(o) : text' \in Integrated(r)
  BY DEF Rewrites
<1>5. team' \in Flags
  BY <1>3, <1>4 DEF Typed, Flags
<1>6. Ships(text')
  <2>1. CASE text' = Told(text)
    BY <1>3, <2>1, NoticesShip
  <2>2. CASE o.how # "raised" /\ \E r \in Late(o) : text' \in Integrated(r)
    <3>1. PICK r \in Late(o) : text' \in Integrated(r)
      BY <2>2
    <3>2. Ships(r)
      BY <1>3, <2>2, LateShips
    <3> QED BY <1>3, <3>1, <3>2, TakenShip
  <2> QED BY <1>4, <2>1, <2>2
<1> QED BY <1>1, <1>2, <1>5, <1>6, RewritesKeep

(* of the coverage,                                                        *)
LEMMA CoverageRewrites ==
  ASSUME GuardsInv, Rewrites("coverage", "chain", Told, Bridged)
  PROVE  GuardsInv'
<1>1. /\ at = "coverage" /\ at' = "chain"
      /\ UNCHANGED <<locals, writes, checks, status>>
  BY DEF Rewrites, Go
<1>2. "coverage" \in Corrections /\ "chain" \in Corrections
  BY DEF Corrections, Beyond, After
<1>3. Ships(text) /\ Typed
  BY <1>1, <1>2, AtCorrection DEF Corrections
<1>4. PICK o \in LateOutcomes :
       \/ o.how = "raised" /\ UNCHANGED team /\ text' = Told(text)
       \/ /\ o.how # "raised" /\ team' = [team EXCEPT !.stalled = FALSE]
          /\ \E r \in Late(o) : text' \in Bridged(r)
  BY DEF Rewrites
<1>5. team' \in Flags
  BY <1>3, <1>4 DEF Typed, Flags
<1>6. Ships(text')
  <2>1. CASE text' = Told(text)
    BY <1>3, <2>1, NoticesShip
  <2>2. CASE o.how # "raised" /\ \E r \in Late(o) : text' \in Bridged(r)
    <3>1. PICK r \in Late(o) : text' \in Bridged(r)
      BY <2>2
    <3>2. Ships(r)
      BY <1>3, <2>2, LateShips
    <3> QED BY <1>3, <3>1, <3>2, TakenShip
  <2> QED BY <1>4, <2>1, <2>2
<1> QED BY <1>1, <1>2, <1>5, <1>6, RewritesKeep

(* of the coverage of a chain.                                             *)
LEMMA ChainRewrites ==
  ASSUME GuardsInv, Rewrites("chain", "reconstruction", Told, Bridged)
  PROVE  GuardsInv'
<1>1. /\ at = "chain" /\ at' = "reconstruction"
      /\ UNCHANGED <<locals, writes, checks, status>>
  BY DEF Rewrites, Go
<1>2. "chain" \in Corrections /\ "reconstruction" \in Corrections
  BY DEF Corrections, Beyond, After
<1>3. Ships(text) /\ Typed
  BY <1>1, <1>2, AtCorrection DEF Corrections
<1>4. PICK o \in LateOutcomes :
       \/ o.how = "raised" /\ UNCHANGED team /\ text' = Told(text)
       \/ /\ o.how # "raised" /\ team' = [team EXCEPT !.stalled = FALSE]
          /\ \E r \in Late(o) : text' \in Bridged(r)
  BY DEF Rewrites
<1>5. team' \in Flags
  BY <1>3, <1>4 DEF Typed, Flags
<1>6. Ships(text')
  <2>1. CASE text' = Told(text)
    BY <1>3, <2>1, NoticesShip
  <2>2. CASE o.how # "raised" /\ \E r \in Late(o) : text' \in Bridged(r)
    <3>1. PICK r \in Late(o) : text' \in Bridged(r)
      BY <2>2
    <3>2. Ships(r)
      BY <1>3, <2>2, LateShips
    <3> QED BY <1>3, <3>1, <3>2, TakenShip
  <2> QED BY <1>4, <2>1, <2>2
<1> QED BY <1>1, <1>2, <1>5, <1>6, RewritesKeep

(* A correction that finds nothing to correct.                             *)
LEMMA CorrectionPasses ==
  ASSUME GuardsInv, NEW here \in Corrections, NEW next \in Corrections, Passes(here, next)
  PROVE  GuardsInv'
<1>1. /\ at = here /\ at' = next /\ team' = team /\ text' = text
      /\ UNCHANGED <<locals, writes, checks, status>>
  BY DEF Passes, Go
<1>2. Ships(text) /\ Typed
  BY <1>1, AtCorrection DEF Corrections
<1> QED BY <1>1, <1>2, RewritesKeep DEF Typed

(* Each of the four, with the ways it has beside a rewrite.                *)
LEMMA CorrectionsKeep ==
  ASSUME GuardsInv,
         \/ EvidenceIntegrity \/ IntegrationCorrection
         \/ CoverageCorrection \/ ChainCoverageCorrection
  PROVE  GuardsInv'
<1>1. {"integrity", "integration", "coverage", "chain", "reconstruction"} \subseteq Corrections
  BY DEF Corrections, Beyond, After
<1>2. CASE /\ at = "coverage" /\ Go("chain") /\ text' = Told(text)
           /\ UNCHANGED <<locals, team, writes, checks, status>>
  <2>1. Ships(text) /\ Typed
    BY <1>1, <1>2, AtCorrection DEF Corrections
  <2>2. Ships(text') /\ team' \in Flags
    BY <1>2, <2>1, NoticesShip DEF Typed
  <2> QED BY <1>1, <1>2, <2>2, RewritesKeep DEF Go
<1>3. CASE EvidenceIntegrity
  BY <1>1, <1>3, CorrectionPasses, IntegrityRewrites DEF EvidenceIntegrity
<1>4. CASE IntegrationCorrection
  BY <1>1, <1>4, CorrectionPasses, IntegrationRewrites DEF IntegrationCorrection
<1>5. CASE CoverageCorrection
  BY <1>1, <1>2, <1>5, CorrectionPasses, CoverageRewrites DEF CoverageCorrection
<1>6. CASE ChainCoverageCorrection
  BY <1>1, <1>6, CorrectionPasses, ChainRewrites DEF ChainCoverageCorrection
<1> QED BY <1>3, <1>4, <1>5, <1>6

-----------------------------------------------------------------------------
(* After an exception the text is the one there is, or the caller's own.   *)
LEMMA RaisesKeep ==
  ASSUME GuardsInv, GuardRaises
  PROVE  GuardsInv'
<1>1. at' = "reconstruction" /\ Forgets
      /\ at \notin {"returned", "reconstruction", "last", "deliver", "done"}
      /\ text' = IF at \in After THEN text ELSE [Replacing(base) EXCEPT !.via = "raised"]
  BY DEF GuardRaises, Go
<1>2. Typed
  BY DEF GuardsInv
<1>3. team' \in Flags /\ checks' \in Asked /\ checks'.seen = "no"
  BY <1>1, <1>2 DEF Forgets, Typed, Flags, Asked, Unverified
<1>4. writes' \in Tallies /\ writes'.counted = writes.counted
  BY <1>1, <1>2 DEF Forgets, Typed, Tallies
<1>5. "reconstruction" \in Corrections
  BY DEF Corrections, Beyond
<1>6. CASE at \in After
  <2>1. Ships(text) /\ text' = text
    BY <1>1, <1>6, AtCorrection DEF Beyond
  <2> QED BY <1>1, <1>3, <1>4, <1>5, <2>1, BeyondKeeps DEF Typed
<1>7. CASE at \notin After
  <2>1. base \in Texts
    BY <1>1, <1>7 DEF GuardsInv, Drafts, Beyond
  <2>2. Replacing(base) \in Texts /\ Replacing(base).report = "replaced"
    BY <2>1, ReplacingIs
  <2>3. text' \in Texts /\ text'.via = "raised" /\ text'.report = "replaced"
    BY <1>1, <1>7, <2>2 DEF Texts, Routes
  <2>4. Ships(text')
    BY <2>3 DEF Ships, Marked
  <2> QED BY <1>1, <1>3, <1>4, <1>5, <2>4, BeyondKeeps DEF Typed
<1> QED BY <1>6, <1>7

(* A reconstruction comes by a way that does not ask.                      *)
LEMMA ReconstructionKeeps ==
  ASSUME GuardsInv, Reconstruction
  PROVE  GuardsInv'
<1>1. "reconstruction" \in Corrections /\ "last" \in Corrections
  BY DEF Corrections, Beyond
<1>2. CASE Passes("reconstruction", "last")
  BY <1>1, <1>2, CorrectionPasses
<1>3. CASE /\ at = "reconstruction" /\ Go("last")
           /\ \E o \in LateOutcomes :
                /\ o.how \in {"answer", "sentinel"} /\ "ok" \in Verified(o)
                /\ text' = [Replacing(Draft(o)) EXCEPT !.via = "reconstruction"]
                /\ team' = [team EXCEPT !.stalled = @ \/ o.end # "whole"]
           /\ UNCHANGED <<locals, writes, checks, status>>
  <2>1. PICK o \in LateOutcomes :
                /\ o.how \in {"answer", "sentinel"}
                /\ text' = [Replacing(Draft(o)) EXCEPT !.via = "reconstruction"]
                /\ team' = [team EXCEPT !.stalled = @ \/ o.end # "whole"]
    BY <1>3
  <2>2. Draft(o) \in Texts
    BY <2>1, DraftIs DEF LateOutcomes
  <2>3. Replacing(Draft(o)) \in Texts /\ Replacing(Draft(o)).report = "replaced"
    BY <2>2, ReplacingIs
  <2>4. text' \in Texts /\ text'.via = "reconstruction" /\ text'.report = "replaced"
    BY <2>1, <2>3 DEF Texts, Routes
  <2>5. Ships(text')
    BY <2>4 DEF Ships, Marked
  <2>6. team' \in Flags
    BY <2>1 DEF GuardsInv, Typed, Flags
  <2> QED BY <1>1, <1>3, <2>5, <2>6, RewritesKeep DEF Go
<1> QED BY <1>2, <1>3 DEF Reconstruction

(* The last enforcement of the invariant.                                  *)
LEMMA LastKeeps ==
  ASSUME GuardsInv, LastInvariant
  PROVE  GuardsInv'
<1>1. "last" \in Corrections /\ "deliver" \in Corrections
  BY DEF Corrections, Beyond
<1>2. CASE Invariant("last", "deliver", TRUE)
  BY <1>1, <1>2, InvariantKeeps
<1>3. CASE /\ at = "last" /\ Go("deliver") /\ checks' = [checks EXCEPT !.unsure = TRUE]
           /\ UNCHANGED <<text, locals, team, writes, status>>
  <2>1. Ships(text) /\ Typed /\ checks.seen = "no"
    BY <1>1, <1>3, AtCorrection DEF Corrections
  <2>2. checks' \in Asked /\ checks'.seen = "no"
    BY <1>3, <2>1 DEF Typed, Asked
  <2> QED BY <1>1, <1>3, <2>1, <2>2, BeyondKeeps DEF Typed, Go
<1> QED BY <1>2, <1>3 DEF LastInvariant

(* The delivery leaves the text alone.                                     *)
LEMMA DeliverKeeps ==
  ASSUME GuardsInv, Deliver
  PROVE  GuardsInv'
<1>1. "deliver" \in Corrections /\ "done" \in Corrections
  BY DEF Corrections, Beyond
<1>2. at = "deliver" /\ at' = "done" /\ UNCHANGED <<text, locals, team, writes, checks>>
  BY DEF Deliver, Go
<1>3. Ships(text) /\ Typed /\ checks.seen = "no"
  BY <1>1, <1>2, AtCorrection DEF Corrections
<1> QED BY <1>1, <1>2, <1>3, BeyondKeeps DEF Typed

-----------------------------------------------------------------------------
(* The main pass: whatever is not whole has put the flag up.               *)
LEMMA GuardsBegin == AnswerInit => GuardsInv
<1> SUFFICES ASSUME AnswerInit PROVE GuardsInv
  OBVIOUS
<1>1. PICK o \in {p \in Outcomes : p.how # "raised"}, stalled \in BOOLEAN, hive \in BOOLEAN :
    /\ o.end # "whole" => stalled
    /\ at = "complete"
    /\ text = Draft(o) /\ base = text
    /\ team = [spent |-> FALSE, stalled |-> stalled, repaired |-> FALSE]
    /\ writes = [counted |-> o.wrote, result |-> o.wrote]
    /\ checks = [hive |-> hive, seen |-> "no", unlisted |-> FALSE, unsure |-> FALSE]
  BY DEF AnswerInit
<1>2. text \in Texts /\ text.end = o.end /\ o.wrote \in BOOLEAN
  BY <1>1, DraftIs, OutcomesAre
<1>3. Typed
  BY <1>1, <1>2 DEF Typed, Flags, Tallies, Asked
<1>4. at \notin Beyond /\ at # "returned"
  BY <1>1, GuardsApart DEF Before
<1>5. Marks
  BY <1>1, <1>2 DEF Marks, Marked
<1> QED BY <1>1, <1>2, <1>3, <1>4, <1>5
        DEF GuardsInv, Drafts, Unasked, Vouched, Accounts, NothingUnverifiedGoesUntold

(* A stutter.                                                              *)
LEMMA GuardsStay ==
  ASSUME GuardsInv, UNCHANGED answerVars
  PROVE  GuardsInv'
BY DEF answerVars, locals, GuardsInv, Typed, Drafts, Marks, Marked, Unasked, Vouched, Accounts,
       NothingUnverifiedGoesUntold

(* Every step keeps the invariant.                                         *)
LEMMA GuardsKeep == GuardsInv /\ [AnswerNext]_answerVars => GuardsInv'
<1> SUFFICES ASSUME GuardsInv, [AnswerNext]_answerVars PROVE GuardsInv'
  OBVIOUS
<1>1. CASE \/ Complete \/ ReaskAfterSyntaxLoss \/ ReconcileComparison \/ VerifyUpFront
           \/ NoAnswer \/ UnfinishedIntent \/ WriteClaim \/ SearchClaim
  BY <1>1, CompleteKeeps, ReaskKeeps, ReconcileKeeps, VerifyKeeps, NoAnswerKeeps,
     IntentKeeps, WriteClaimKeeps, SearchClaimKeeps
<1>2. CASE NoEvidence \/ DbEvidence \/ NarratedTool \/ EnumerationEvidence \/ Counts
  BY <1>2, EvidenceKeeps, CountsKeep
<1>3. CASE \/ ClaimsAndSums \/ UnderDelivery \/ Recovered \/ ThinAnswer \/ Sources
           \/ UnderAnsweredComparison \/ UnderAnsweredEnumeration \/ RelayDrop \/ Capability
  BY <1>3, ShortKeeps
<1>4. CASE Notices \/ Dispose \/ Correct \/ Returns
  BY <1>4, NoticesKept, DisposeKeeps, CorrectKeeps, ReturnsKeep
<1>5. CASE FirstInvariant
  <2>1. "invariant" \in Corrections /\ "integrity" \in Corrections
    BY DEF Corrections, Beyond, After
  <2> QED BY <1>5, <2>1, InvariantKeeps DEF FirstInvariant
<1>6. CASE \/ EvidenceIntegrity \/ IntegrationCorrection
           \/ CoverageCorrection \/ ChainCoverageCorrection
  BY <1>6, CorrectionsKeep
<1>7. CASE GuardRaises \/ Reconstruction \/ LastInvariant \/ Deliver
  BY <1>7, RaisesKeep, ReconstructionKeeps, LastKeeps, DeliverKeeps
<1>8. CASE UNCHANGED answerVars
  BY <1>8, GuardsStay
<1> QED BY <1>1, <1>2, <1>3, <1>4, <1>5, <1>6, <1>7, <1>8 DEF AnswerNext

(* The invariant holds of every run.                                       *)
LEMMA GuardsHold == AnswerSpec => []GuardsInv
BY GuardsBegin, GuardsKeep, PTL DEF AnswerSpec

-----------------------------------------------------------------------------
(* Nothing but the last invariant hands a text over to be delivered.       *)
LEMMA OnlyTheLastDelivers ==
  ASSUME AnswerNext, ~LastInvariant, ~Deliver
  PROVE  at' \notin {"deliver", "done"} /\ status' = status
<1>1. CASE Complete
  BY <1>1 DEF Complete, Go
<1>2. CASE ReaskAfterSyntaxLoss
  BY <1>2 DEF ReaskAfterSyntaxLoss, Passes, Retry, Go
<1>3. CASE ReconcileComparison
  BY <1>3 DEF ReconcileComparison, Passes, Retry, Go
<1>4. CASE VerifyUpFront
  BY <1>4 DEF VerifyUpFront, Go
<1>5. CASE NoAnswer
  BY <1>5 DEF NoAnswer, Passes, Flagged, Return, Go
<1>6. CASE UnfinishedIntent
  BY <1>6 DEF UnfinishedIntent, Passes, Retry, Flagged, Spent, SameFault, Return, Go
<1>7. CASE WriteClaim
  BY <1>7 DEF WriteClaim, Return, Passes, Retry, SameFault, Go
<1>8. CASE SearchClaim
  BY <1>8 DEF SearchClaim, Passes, Grounded, Flagged, Spent, SameFault, Return, Go
<1>9. CASE NoEvidence
  BY <1>9 DEF NoEvidence, Passes, Retry, Flagged, Spent, Return, Go
<1>10. CASE DbEvidence
  BY <1>10 DEF DbEvidence, Passes, Retry, Flagged, Return, Go
<1>11. CASE NarratedTool
  BY <1>11 DEF NarratedTool, Passes, Retry, Go
<1>12. CASE EnumerationEvidence
  BY <1>12 DEF EnumerationEvidence, Passes, Retry, Flagged, Return, Go
<1>13. CASE Counts
  BY <1>13 DEF Counts, Return, Passes, Flagged, Go
<1>14. CASE ClaimsAndSums
  BY <1>14 DEF ClaimsAndSums, Passes, Flagged, Return, Go
<1>15. CASE UnderDelivery
  BY <1>15 DEF UnderDelivery, Passes, Grounded, Flagged, Recovers, Return, Go
<1>16. CASE Recovered
  BY <1>16 DEF Recovered, Recovers, Go
<1>17. CASE ThinAnswer
  BY <1>17 DEF ThinAnswer, Passes, Grounded, Go
<1>18. CASE Sources
  BY <1>18 DEF Sources, Passes, Flagged, Return, Go
<1>19. CASE UnderAnsweredComparison
  BY <1>19 DEF UnderAnsweredComparison, Passes, Grounded, Flagged, Return, Go
<1>20. CASE UnderAnsweredEnumeration
  BY <1>20 DEF UnderAnsweredEnumeration, Passes, Flagged, Return, Go
<1>21. CASE RelayDrop
  BY <1>21 DEF RelayDrop, Passes, Grounded, Flagged, Return, Go
<1>22. CASE Capability
  BY <1>22 DEF Capability, Passes, Flagged, Return, Go
<1>23. CASE Notices
  BY <1>23 DEF Notices, Passes, Go
<1>24. CASE Dispose
  BY <1>24 DEF Dispose, Unlisted, Return, Go
<1>25. CASE Correct
  BY <1>25 DEF Correct, Return, Go
<1>26. CASE Returns
  BY <1>26 DEF Returns, Forgets, Go
<1>27. CASE EvidenceIntegrity
  BY <1>27 DEF EvidenceIntegrity, Rewrites, Passes, Go
<1>28. CASE IntegrationCorrection
  BY <1>28 DEF IntegrationCorrection, Rewrites, Passes, Go
<1>29. CASE CoverageCorrection
  BY <1>29 DEF CoverageCorrection, Rewrites, Passes, Go
<1>30. CASE ChainCoverageCorrection
  BY <1>30 DEF ChainCoverageCorrection, Rewrites, Passes, Go
<1>31. CASE FirstInvariant
  BY <1>31 DEF FirstInvariant, Invariant, Repair, Go
<1>32. CASE GuardRaises
  BY <1>32 DEF GuardRaises, Forgets, Go
<1>33. CASE Reconstruction
  BY <1>33 DEF Reconstruction, Passes, Go
<1> QED
  BY <1>1, <1>2, <1>3, <1>4, <1>5, <1>6, <1>7, <1>8, <1>9, <1>10, <1>11,
     <1>12, <1>13, <1>14, <1>15, <1>16, <1>17, <1>18, <1>19, <1>20,
     <1>21, <1>22, <1>23, <1>24, <1>25, <1>26, <1>27, <1>28, <1>29,
     <1>30, <1>31, <1>32, <1>33
     DEF AnswerNext

(* The status is one of three; what is delivered is as it should be.       *)
Ending == status \in {"running", "ok", "ok_truncated"}
Delivered == GuardsInv /\ Ending /\ InventedNeverShipsClean

(* The last enforcement leaves no invented symbol without one of its       *)
(* exceptions.                                                             *)
LEMMA LastIsSure ==
  ASSUME GuardsInv, LastInvariant
  PROVE  InventedNeverShipsClean' /\ status' = status
<1>1. CASE checks' = [checks EXCEPT !.unsure = TRUE] /\ status' = status
  BY <1>1 DEF GuardsInv, Typed, Asked, InventedNeverShipsClean
<1>2. CASE Invariant("last", "deliver", TRUE)
  <2>1. PICK said \in Verified(text) :
       /\ checks' = [checks EXCEPT !.unsure = said = "unavailable"]
       /\ \/ said = "bad" /\ text.verdict = "invented" /\ Repair("deliver", "repair")
          \/ /\ ~(said = "bad" /\ text.verdict = "invented")
             /\ \/ Repair("deliver", "term repair")
                \/ UNCHANGED <<text, status>>
    BY <1>2 DEF Invariant
  <2>2. Typed /\ Ships(text)
    BY <1>2, AtCorrection DEF Invariant, Beyond
  <2>3. checks'.hive = checks.hive /\ checks'.unsure = (said = "unavailable")
    BY <2>1, <2>2 DEF Typed, Asked
  <2>4. status' = status
    BY <2>1 DEF Repair
  <2>5. CASE Repair("deliver", "repair") \/ Repair("deliver", "term repair")
    <3>1. \/ text'.head = "failed" \/ text'.via = "term repair"
          \/ checks.hive => text'.verdict = "clean"
      BY <2>2, <2>5, RepairShips
    <3> QED BY <2>3, <2>4, <3>1 DEF InventedNeverShipsClean
  <2>6. CASE ~(said = "bad" /\ text.verdict = "invented") /\ text' = text
    <3>1. checks.hive /\ text.verdict = "invented" => said = "unavailable"
      BY <2>6 DEF Verified
    <3> QED BY <2>3, <2>4, <2>6, <3>1 DEF InventedNeverShipsClean
  <2> QED BY <2>1, <2>5, <2>6
<1> QED BY <1>1, <1>2 DEF LastInvariant

(* Every step keeps that too.                                              *)
LEMMA DeliveredKeeps == Delivered /\ [AnswerNext]_answerVars => Delivered'
<1> SUFFICES ASSUME Delivered, [AnswerNext]_answerVars PROVE Delivered'
  OBVIOUS
<1>1. GuardsInv'
  BY GuardsKeep DEF Delivered
<1>2. CASE LastInvariant
  BY <1>1, <1>2, LastIsSure DEF Delivered, Ending
<1>3. CASE Deliver
  <2>1. at = "deliver" /\ text' = text /\ checks' = checks
        /\ status' \in {"ok_truncated", "ok"}
    BY <1>3 DEF Deliver
  <2> QED BY <1>1, <2>1 DEF Delivered, Ending, InventedNeverShipsClean
<1>4. CASE AnswerNext /\ ~LastInvariant /\ ~Deliver
  BY <1>1, <1>4, OnlyTheLastDelivers DEF Delivered, Ending, InventedNeverShipsClean
<1>5. CASE UNCHANGED answerVars
  BY <1>1, <1>5 DEF Delivered, Ending, InventedNeverShipsClean, answerVars, locals
<1> QED BY <1>2, <1>3, <1>4, <1>5

(* It holds of every run.                                                  *)
LEMMA DeliveredHolds == AnswerSpec => []Delivered
<1>1. AnswerInit => Delivered
  BY GuardsBegin DEF AnswerInit, Delivered, Ending, InventedNeverShipsClean
<1> QED BY <1>1, DeliveredKeeps, PTL DEF AnswerSpec

(* Every text that arises on the way of an answer is one of the texts, and *)
(* the status is one the record knows.                                     *)
THEOREM AnswersTypeCorrect == AnswerSpec => []AnswerTypeOK
<1>1. Delivered => AnswerTypeOK
  BY DEF Delivered, GuardsInv, Typed, Flags, Tallies, Asked, Ending, AnswerTypeOK
<1> QED BY <1>1, DeliveredHolds, PTL

(* verify_claims has passed the very text that leaves _verified_answer     *)
(* without a notice, whatever retries have replaced the draft, unless it   *)
(* names nothing invented and its report had no line that is listed.       *)
THEOREM UnverifiedIsTold == AnswerSpec => []NothingUnverifiedGoesUntold
<1>1. GuardsInv => NothingUnverifiedGoesUntold
  BY DEF GuardsInv
<1> QED BY <1>1, GuardsHold, PTL

(* An invented symbol is delivered only under the failure, or where the    *)
(* last check could not be had or was of the term alone.                   *)
THEOREM InventedIsHeaded == AnswerSpec => []InventedNeverShipsClean
<1>1. Delivered => InventedNeverShipsClean
  BY DEF Delivered
<1> QED BY <1>1, DeliveredHolds, PTL

(* A text that was cut short is delivered with a notice of it, or has come *)
(* by a way that never asks.                                               *)
THEOREM CutIsMarked == AnswerSpec => []CutTextIsMarked
<1>1. GuardsInv => CutTextIsMarked
  BY DEF GuardsInv, Marks, Marked, CutTextIsMarked
<1> QED BY <1>1, GuardsHold, PTL

(* A run one of whose passes wrote a file delivers the report of it, or a  *)
(* text that has replaced the one that had it.                             *)
THEOREM WritesReported == AnswerSpec => []WritesAreReported
<1>1. GuardsInv => WritesAreReported
  BY DEF GuardsInv, Accounts, Beyond, WritesAreReported
<1> QED BY <1>1, GuardsHold, PTL
=============================================================================

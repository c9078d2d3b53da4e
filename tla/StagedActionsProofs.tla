----------------------- MODULE StagedActionsProofs -------------------------
(***************************************************************************)
(* However many prompts confirm an action, one of them executes it; and    *)
(* whatever fails in the requests of executions that overlap, the page     *)
(* holds a whole text.  For any prompts, tool calls, actions, pieces of a  *)
(* text, faults and deaths.                                                *)
(***************************************************************************)
EXTENDS StagedActions, FiniteSetTheorems, TLAPS

Fields == {"at", "action", "seen", "after", "done", "result"}

(* What the steps read of a caller.                                        *)
Callings ==
  /\ DOMAIN call = Callers
  /\ \A c \in Callers : Fields \subseteq DOMAIN call[c]
  /\ staged \subseteq made

(* A prompt that has executed is at it or is over, a prompt at it has      *)
(* begun, and the loop runs one at a time.                                 *)
Turns ==
  /\ \A u \in Users : u \in began => Executing(u) \/ At(u, "over")
  /\ \A u \in Users : Executing(u) => u \in began
  /\ \A u, v \in Users : Executing(u) /\ Executing(v) => u = v

(* A prompt is for an action that had a file.  When its execution came to  *)
(* the end the file is gone, and none comes back under its name.           *)
Removed ==
  \A u \in Users :
    /\ ~At(u, "idle") => call[u].action \in made
    /\ u \in began \ cut /\ At(u, "over") => call[u].action \notin staged

ConfirmInv == Callings /\ Turns /\ Removed /\ ConfirmedOnce

(* A user is a caller, and no agent.                                       *)
LEMMA UsersCall == Users \subseteq Callers /\ Users \cap Agents = {}
  BY StagedAssumption DEF Callers

(* At first nobody has called.                                             *)
LEMMA InitConfirm == Init => ConfirmInv
<1>. SUFFICES ASSUME Init PROVE ConfirmInv
  OBVIOUS
<1>1. DOMAIN call = Callers /\ \A c \in Callers : call[c] = Idle
  BY DEF Init
<1>2. Callings
  BY <1>1 DEF Init, Callings, Idle, Fields
<1>3. \A u \in Users : At(u, "idle") /\ ~Executing(u) /\ ~At(u, "over")
  BY <1>1, UsersCall DEF At, Executing, Idle
<1>4. began = {}
  BY DEF Init
<1>. QED
  BY <1>2, <1>3, <1>4 DEF ConfirmInv, Turns, Removed, ConfirmedOnce

-----------------------------------------------------------------------------
(* A step of an execution that leaves it under way, and the files alone.   *)
LEMMA StillAtIt ==
  ASSUME ConfirmInv, NEW c \in Callers, Executing(c),
         DOMAIN call' = Callers, \A d \in Callers \ {c} : call'[d] = call[d],
         DOMAIN call'[c] = DOMAIN call[c], call'[c].action = call[c].action,
         call'[c].at \in {"read", "insert", "delete", "unlink"},
         UNCHANGED <<staged, made, began, cut>>
  PROVE  ConfirmInv'
<1>1. Callings'
  BY DEF ConfirmInv, Callings
<1>2. \A u \in Users : /\ call'[u].action = call[u].action
                       /\ Executing(u)' <=> Executing(u)
                       /\ At(u, "over")' <=> At(u, "over")
                       /\ At(u, "idle")' <=> At(u, "idle")
  BY UsersCall DEF Executing, At
<1>3. Turns' /\ Removed' /\ ConfirmedOnce'
  BY <1>2 DEF ConfirmInv, Turns, Removed, ConfirmedOnce
<1>. QED
  BY <1>1, <1>3 DEF ConfirmInv

(* An error leaves the execution at its end.                               *)
LEMMA FailedKeeps ==
  ASSUME ConfirmInv, NEW c \in Callers, Executing(c), Failed(c),
         UNCHANGED <<staged, made, began, cut>>
  PROVE  ConfirmInv'
<1>1. Callings
  BY DEF ConfirmInv
<1>2. /\ DOMAIN call' = Callers /\ \A d \in Callers \ {c} : call'[d] = call[d]
      /\ DOMAIN call'[c] = DOMAIN call[c] /\ call'[c].action = call[c].action
      /\ call'[c].at = "unlink"
  BY <1>1 DEF Callings, Failed, Fields
<1>. QED
  BY <1>2, StillAtIt

(* The requests of an execution, and their failures.                       *)
LEMMA RequestsKeep ==
  ASSUME ConfirmInv, NEW c \in Callers,
         ReadPage(c) \/ Insert(c) \/ Delete(c) \/ RequestFails(c)
  PROVE  ConfirmInv'
<1>1. Executing(c)
  BY DEF ReadPage, Insert, Delete, RequestFails, At, Executing
<1>2. UNCHANGED <<staged, made, began, cut>>
  BY DEF ReadPage, Insert, Delete, RequestFails, history
<1>3. Callings
  BY DEF ConfirmInv
<1>4. CASE Failed(c)
  BY <1>1, <1>2, <1>4, FailedKeeps
<1>5. CASE ~Failed(c)
  <2>. SUFFICES /\ DOMAIN call' = Callers /\ \A d \in Callers \ {c} : call'[d] = call[d]
                /\ DOMAIN call'[c] = DOMAIN call[c] /\ call'[c].action = call[c].action
                /\ call'[c].at \in {"read", "insert", "delete", "unlink"}
    BY <1>1, <1>2, StillAtIt
  <2>1. CASE ReadPage(c)
    BY <1>3, <1>5, <2>1 DEF ReadPage, Callings, After, Fields
  <2>2. CASE Insert(c)
    <3>1. PICK a, d, k :
            /\ k \in {"insert", "delete"}
            /\ call' = [call EXCEPT ![c] = [call[c] EXCEPT !.after = a, !.done = d, !.at = k]]
      <4>1. PICK last :
              call' = [call EXCEPT ![c] =
                [call[c] EXCEPT !.after = last,
                   !.done = IF call[c].done + 1 = Batches THEN 0 ELSE call[c].done + 1,
                   !.at = IF call[c].done + 1 = Batches THEN "delete" ELSE @]]
        BY <1>5, <2>2 DEF Insert, Block, After
      <4>. QED
        BY <1>3, <2>2, <4>1 DEF Insert, At, Callings, Fields
    <3>. QED
      BY <1>3, <3>1 DEF Callings, Fields
  <2>3. CASE Delete(c)
    <3>1. PICK d, k :
            /\ k \in {"delete", "unlink"}
            /\ call' = [call EXCEPT ![c] = [call[c] EXCEPT !.done = d, !.at = k]]
      BY <1>3, <1>5, <2>3 DEF Delete, At, After, Callings, Fields
    <3>. QED
      BY <1>3, <3>1 DEF Callings, Fields
  <2>4. CASE RequestFails(c)
    BY <1>5, <2>4 DEF RequestFails
  <2>. QED
    BY <2>1, <2>2, <2>3, <2>4
<1>. QED
  BY <1>4, <1>5

-----------------------------------------------------------------------------
(* A file is staged under a name that was never used before.               *)
LEMMA StageKeeps ==
  ASSUME ConfirmInv, NEW a \in Actions, Stage(a)
  PROVE  ConfirmInv'
  BY DEF ConfirmInv, Callings, Turns, Removed, ConfirmedOnce, Stage, Executing, At, history

(* A step at a prompt that has not begun.                                  *)
LEMMA PromptMoves ==
  ASSUME ConfirmInv, NEW u \in Users, ~Executing(u), u \notin began,
         DOMAIN call' = Callers, \A d \in Callers \ {u} : call'[d] = call[d],
         Fields \subseteq DOMAIN call'[u],
         call'[u].at \in {"prompt", "posted", "rejecting", "over"},
         call'[u].action \in made, staged' \subseteq staged, made' = made,
         UNCHANGED history
  PROVE  ConfirmInv'
<1>1. Callings'
  BY DEF ConfirmInv, Callings
<1>2. ~Executing(u)' /\ ~At(u, "idle")' /\ u \notin began'
  BY DEF Executing, At, history
<1>3. \A v \in Users \ {u} : call'[v] = call[v]
  BY UsersCall
<1>4. Turns' /\ Removed' /\ ConfirmedOnce'
  BY <1>2, <1>3 DEF ConfirmInv, Turns, Removed, ConfirmedOnce, Executing, At, history
<1>. QED
  BY <1>1, <1>4 DEF ConfirmInv

(* What a user does at the prompt, and the answer to a rejection.          *)
LEMMA PromptsKeep ==
  ASSUME ConfirmInv, NEW u \in Users, Prompt(u) \/ Choose(u) \/ RejectEnds(u)
  PROVE  ConfirmInv'
<1>1. u \in Callers /\ ~Executing(u) /\ u \notin began
  BY UsersCall DEF ConfirmInv, Turns, Prompt, Choose, RejectEnds, At, Executing
<1>2. Callings
  BY DEF ConfirmInv
<1>3. CASE Prompt(u)
  <2>1. PICK a \in staged : call' = [call EXCEPT ![u] = [Idle EXCEPT !.at = "prompt", !.action = a]]
    BY <1>3 DEF Prompt
  <2>2. /\ DOMAIN call' = Callers /\ \A d \in Callers \ {u} : call'[d] = call[d]
        /\ Fields \subseteq DOMAIN call'[u]
        /\ call'[u].at = "prompt" /\ call'[u].action = a
    BY <1>1, <1>2, <2>1 DEF Callings, Idle, Fields
  <2>. QED
    BY <1>1, <1>2, <1>3, <2>2, PromptMoves DEF Callings, Prompt
<1>4. CASE Choose(u)
  <2>1. PICK next \in {"posted", "rejecting", "over"} : call' = [call EXCEPT ![u].at = next]
    BY <1>4 DEF Choose
  <2>2. call[u].action \in made
    BY <1>4 DEF ConfirmInv, Removed, Choose, At
  <2>3. /\ DOMAIN call' = Callers /\ \A d \in Callers \ {u} : call'[d] = call[d]
        /\ Fields \subseteq DOMAIN call'[u]
        /\ call'[u].at = next /\ call'[u].action = call[u].action
    BY <1>1, <1>2, <2>1 DEF Callings, Fields
  <2>. QED
    BY <1>1, <1>4, <2>2, <2>3, PromptMoves DEF Choose
<1>5. CASE RejectEnds(u)
  <2>1. call[u].action \in made
    BY <1>5 DEF ConfirmInv, Removed, RejectEnds, At
  <2>2. /\ DOMAIN call' = Callers /\ \A d \in Callers \ {u} : call'[d] = call[d]
        /\ Fields \subseteq DOMAIN call'[u]
        /\ call'[u].at = "over" /\ call'[u].action = call[u].action
    BY <1>1, <1>2, <1>5 DEF Callings, RejectEnds, Fields
  <2>. QED
    BY <1>1, <1>5, <2>1, <2>2, PromptMoves DEF RejectEnds
<1>. QED
  BY <1>3, <1>4, <1>5

(* Steps that touch neither a user's call nor what has begun.              *)
LEMMA AsideKeeps ==
  ASSUME ConfirmInv, \A u \in Users : call'[u] = call[u], Callings',
         staged' \subseteq staged, made' = made, began' \cap Users = began \cap Users, cut' = cut
  PROVE  ConfirmInv'
<1>1. Turns' /\ Removed' /\ ConfirmedOnce'
  BY DEF ConfirmInv, Turns, Removed, ConfirmedOnce, Executing, At
<1>. QED
  BY <1>1 DEF ConfirmInv

(* What an agent calls.                                                    *)
LEMMA AgentsKeep ==
  ASSUME ConfirmInv, NEW g \in Agents, ToolCall(g) \/ AgentRejects(g)
  PROVE  ConfirmInv'
<1>1. g \in Callers /\ g \notin Users
  BY UsersCall DEF Callers
<1>2. Callings
  BY DEF ConfirmInv
<1>3. CASE ToolCall(g)
  <2>1. PICK a, k : call' = [call EXCEPT ![g] = [Idle EXCEPT !.at = k, !.action = a]]
    BY <1>3 DEF ToolCall
  <2>2. Callings'
    BY <1>1, <1>2, <1>3, <2>1 DEF Callings, ToolCall, Idle, Fields
  <2>3. \A u \in Users : call'[u] = call[u]
    BY <1>1, <1>2, <2>1, UsersCall DEF Callings
  <2>4. began' \cap Users = began \cap Users
    BY <1>1, <1>3 DEF ToolCall
  <2>. QED
    BY <1>3, <2>2, <2>3, <2>4, AsideKeeps DEF ToolCall
<1>4. CASE AgentRejects(g)
  <2>1. Callings'
    BY <1>1, <1>2, <1>4 DEF Callings, AgentRejects, Fields
  <2>2. \A u \in Users : call'[u] = call[u]
    BY <1>1, <1>2, <1>4, UsersCall DEF Callings, AgentRejects, Fields
  <2>. QED
    BY <1>4, <2>1, <2>2, AsideKeeps DEF AgentRejects, history
<1>. QED
  BY <1>3, <1>4

(* A user is told something, a file goes for a rejection, or nothing.      *)
LEMMA AnswersKeep ==
  ASSUME ConfirmInv, NEW u \in Users, GiveUp(u) \/ RejectServed(u)
  PROVE  ConfirmInv'
<1>1. call' = call /\ staged' \subseteq staged /\ made' = made /\ began' = began /\ cut' = cut
  BY DEF GiveUp, RejectServed, history
<1>2. Callings'
  BY <1>1 DEF ConfirmInv, Callings
<1>. QED
  BY <1>1, <1>2, AsideKeeps

-----------------------------------------------------------------------------
(* A prompt has its turn when no other is at it.  One that has executed    *)
(* the action and come to its end has removed the file.                    *)
LEMMA BeginKeeps ==
  ASSUME ConfirmInv, NEW c \in Callers, Begin(c)
  PROVE  ConfirmInv'
<1>. DEFINE there == call[c].action \in staged
<1>1. Callings /\ At(c, "posted")
  BY DEF ConfirmInv, Begin
<1>2. /\ DOMAIN call' = Callers /\ \A d \in Callers \ {c} : call'[d] = call[d]
      /\ Fields \subseteq DOMAIN call'[c] /\ call'[c].action = call[c].action
      /\ call'[c].at = IF there THEN "read" ELSE "over"
      /\ began' = IF there THEN began \cup {c} ELSE began
      /\ staged' = staged /\ made' = made /\ cut' = cut /\ strayed' = strayed
  BY <1>1 DEF Begin, Callings, Fields
<1>3. Callings'
  BY <1>1, <1>2 DEF Callings
<1>4. CASE c \notin Users
  BY <1>2, <1>3, <1>4, UsersCall, AsideKeeps
<1>5. CASE c \in Users
  <2>1. c \notin began /\ call[c].action \in made
    BY <1>1, <1>5 DEF ConfirmInv, Turns, Removed, At, Executing
  <2>2. CASE ~there
    <3>1. ~Executing(c) /\ history' = history
      BY <1>1, <1>2, <2>2 DEF At, Executing, history
    <3>. QED
      BY <1>2, <1>5, <2>1, <2>2, <3>1, PromptMoves
  <2>3. CASE there
    <3>1. \A u \in Users : ~Executing(u)
      BY <1>5 DEF Begin, MayRun, LoopFree
    <3>2. \A u \in Users \ {c} : call'[u] = call[u]
      BY <1>2, UsersCall
    <3>3. call'[c].at = "read" /\ began' = began \cup {c}
      BY <1>2, <2>3
    <3>4. Turns'
      BY <3>1, <3>2, <3>3 DEF ConfirmInv, Turns, Executing, At
    <3>5. Removed'
      BY <1>2, <2>1, <3>2, <3>3 DEF ConfirmInv, Removed, At
    <3>6. \A u \in Users \cap (began \ cut) : call[u].action # call[c].action
      BY <2>3, <3>1 DEF ConfirmInv, Turns, Removed
    <3>7. ConfirmedOnce'
      BY <1>2, <3>2, <3>3, <3>6 DEF ConfirmInv, ConfirmedOnce
    <3>. QED
      BY <1>3, <3>4, <3>5, <3>7 DEF ConfirmInv
  <2>. QED
    BY <2>2, <2>3
<1>. QED
  BY <1>4, <1>5

(* The file goes, or the execution counts as one that did not end.         *)
LEMMA UnlinkKeeps ==
  ASSUME ConfirmInv, NEW c \in Callers, Unlink(c)
  PROVE  ConfirmInv'
<1>1. Callings /\ At(c, "unlink") /\ Executing(c)
  BY DEF ConfirmInv, Unlink, At, Executing
<1>2. /\ DOMAIN call' = Callers /\ \A d \in Callers \ {c} : call'[d] = call[d]
      /\ Fields \subseteq DOMAIN call'[c] /\ call'[c].action = call[c].action
      /\ call'[c].at = "over" /\ made' = made /\ began' = began
  BY <1>1 DEF Unlink, Callings, Fields
<1>3. \/ staged' = staged \ {call[c].action} /\ cut' = cut
      \/ staged' = staged /\ cut' = cut \cup {c}
  BY DEF Unlink
<1>4. Callings'
  BY <1>1, <1>2, <1>3 DEF Callings
<1>5. \A u \in Users \ {c} : call'[u] = call[u]
  BY <1>2, UsersCall
<1>6. Turns'
  BY <1>1, <1>2, <1>5 DEF ConfirmInv, Turns, Executing, At
<1>7. Removed'
  BY <1>1, <1>2, <1>3, <1>5 DEF ConfirmInv, Removed, At
<1>8. ConfirmedOnce'
  BY <1>2, <1>3, <1>5 DEF ConfirmInv, ConfirmedOnce
<1>. QED
  BY <1>4, <1>6, <1>7, <1>8 DEF ConfirmInv

(* What was under way is cut, what waited for its turn never began.        *)
LEMMA DeathKeeps ==
  ASSUME ConfirmInv, Death
  PROVE  ConfirmInv'
<1>1. Callings
  BY DEF ConfirmInv
<1>2. \A c \in Callers :
        /\ Fields \subseteq DOMAIN call'[c] /\ call'[c].action = call[c].action
        /\ IF At(c, "posted") \/ Executing(c) THEN call'[c].at = "over"
                                              ELSE call'[c].at = call[c].at
  BY <1>1 DEF Death, Callings, Fields
<1>3. DOMAIN call' = Callers /\ staged' = staged /\ made' = made /\ began' = began
  BY DEF Death
<1>4. cut' = cut \cup {c \in Callers : Executing(c)}
  BY DEF Death
<1>5. Callings'
  BY <1>1, <1>2, <1>3 DEF Callings
<1>6. \A u \in Users : ~Executing(u)' /\ (At(u, "over") => At(u, "over")')
  BY <1>2, UsersCall DEF Executing, At
<1>7. \A u \in Users : Executing(u) => At(u, "over")' /\ u \in cut'
  BY <1>2, <1>4, UsersCall DEF At
<1>8. Turns'
  BY <1>3, <1>6, <1>7 DEF ConfirmInv, Turns
<1>9. Removed'
  <2>. SUFFICES ASSUME NEW u \in Users
                PROVE  /\ ~At(u, "idle")' => call'[u].action \in made
                       /\ u \in began \ cut' /\ At(u, "over")' => call'[u].action \notin staged
    BY <1>3 DEF Removed
  <2>1. u \in Callers /\ call'[u].action = call[u].action
    BY <1>2, UsersCall
  <2>2. At(u, "idle") => At(u, "idle")'
    BY <1>2, <2>1 DEF At, Executing
  <2>3. u \in began \ cut' => At(u, "over") /\ u \in began \ cut
    BY <1>4, <1>7 DEF ConfirmInv, Turns
  <2>. QED
    BY <2>1, <2>2, <2>3 DEF ConfirmInv, Removed
<1>10. ConfirmedOnce'
  BY <1>2, <1>3, <1>4, UsersCall DEF ConfirmInv, ConfirmedOnce
<1>. QED
  BY <1>5, <1>8, <1>9, <1>10 DEF ConfirmInv

-----------------------------------------------------------------------------
(* Every step keeps it.                                                    *)
LEMMA NextConfirm == ConfirmInv /\ [Next]_vars => ConfirmInv'
<1>. SUFFICES ASSUME ConfirmInv, [Next]_vars PROVE ConfirmInv'
  OBVIOUS
<1>1. CASE UNCHANGED vars
  BY <1>1 DEF ConfirmInv, Callings, Turns, Removed, ConfirmedOnce, Executing, At, vars, history
<1>2. ASSUME NEW a \in Actions, Stage(a) PROVE ConfirmInv'
  BY <1>2, StageKeeps
<1>3. ASSUME NEW u \in Users, Prompt(u) \/ Choose(u) \/ RejectEnds(u) PROVE ConfirmInv'
  BY <1>3, PromptsKeep
<1>4. ASSUME NEW u \in Users, GiveUp(u) \/ RejectServed(u) PROVE ConfirmInv'
  BY <1>4, AnswersKeep
<1>5. ASSUME NEW g \in Agents, ToolCall(g) \/ AgentRejects(g) PROVE ConfirmInv'
  BY <1>5, AgentsKeep
<1>6. ASSUME NEW c \in Callers, Begin(c) PROVE ConfirmInv'
  BY <1>6, BeginKeeps
<1>7. ASSUME NEW c \in Callers, ReadPage(c) \/ Insert(c) \/ Delete(c) \/ RequestFails(c)
      PROVE  ConfirmInv'
  BY <1>7, RequestsKeep
<1>8. ASSUME NEW c \in Callers, Unlink(c) PROVE ConfirmInv'
  BY <1>8, UnlinkKeeps
<1>9. CASE Death
  BY <1>9, DeathKeeps
<1>. QED
  BY <1>1, <1>2, <1>3, <1>4, <1>5, <1>6, <1>7, <1>8, <1>9 DEF Next

(* However many prompts confirm one action, however slow or failing the    *)
(* platform is, no two executions of it come to their end, because the     *)
(* routes hold the event loop (integrations/__init__.py:64-84).            *)
THEOREM ActionConfirmedOnce == Spec => []ConfirmedOnce
<1>1. Spec => []ConfirmInv
  BY InitConfirm, NextConfirm, PTL DEF Spec
<1>2. ConfirmInv => ConfirmedOnce
  BY DEF ConfirmInv
<1>. QED
  BY <1>1, <1>2, PTL
-----------------------------------------------------------------------------
(* The texts on the page: what holds of every state, in parts.             *)
Typed ==
  /\ page \in Seq(Blocks) /\ call \in [Callers -> Calls]
  /\ told \in [Callers -> {"", "done", "failed", "not found", "rejected"}]
  /\ staged \subseteq made /\ made \subseteq Actions

(* A block that is nowhere behind what follows the section.                *)
BeforeRest(b) ==
  \A i, j \in DOMAIN page : page[i] = b /\ page[j].of = "rest" => i < j

(* What follows the section is on the page, and behind it are only pieces  *)
(* of executions that strayed.  No block is there twice, and the pieces of  *)
(* a text are in order unless its execution strayed.                        *)
PageInOrder ==
  /\ OnPage(Block("rest", 1))
  /\ \A i \in DOMAIN page : page[i].of = "rest" => page[i].n = 1
  /\ \A i, j \in DOMAIN page : page[i] = page[j] => i = j
  /\ \A i, j \in DOMAIN page :
       i < j /\ page[i].of = "rest" => page[j].of \in strayed /\ page[j].n > 1
  /\ \A i, j \in DOMAIN page :
       i < j /\ page[i].of = page[j].of /\ page[i].of \notin strayed =>
         page[i].n < page[j].n

(* An execution that has read the page, and one whose text is in.          *)
Reader(c) == call[c].seen # <<>>
Filled(c) == call[c].after = Block(c, Batches)

Early == {"idle", "prompt", "posted", "rejecting", "read"}

(* How far an execution has come shows in the block it inserts after, as   *)
(* long as it has not strayed; it deletes, and says that it is done, when   *)
(* its whole text is in.                                                    *)
Standing(c) ==
  /\ ~Reader(c) => call[c].after = Block("old", 1)
  /\ call[c].at \in Early => ~Reader(c) /\ call[c].done = 0 /\ c \notin strayed
  /\ At(c, "insert") =>
       /\ Reader(c) /\ call[c].done < Batches
       /\ c \in strayed => call[c].done # 0
       /\ c \notin strayed =>
            /\ BeforeRest(call[c].after)
            /\ call[c].done # 0 => call[c].after = Block(c, call[c].done)
  /\ At(c, "delete") => Filled(c) /\ call[c].done < Len(call[c].seen)
  /\ At(c, "unlink") /\ call[c].result = "done" => Filled(c)
  /\ told[c] = "done" => Filled(c)
Stages == \A c \in Callers : Standing(c)

(* A piece on the page, or to insert after, is one that an execution has    *)
(* come to.                                                                 *)
Come(b) ==
  b.of \in Callers =>
    /\ Reader(b.of) /\ b.n # 0
    /\ At(b.of, "insert") => b.n <= call[b.of].done
Pieces ==
  /\ \A i \in DOMAIN page : Come(page[i])
  /\ \A c \in Callers : At(c, "insert") => Come(call[c].after)

Saw(d, b) == \E i \in DOMAIN call[d].seen : call[d].seen[i] = b
Sees(d, c) == \E i \in DOMAIN call[d].seen : call[d].seen[i].of = c

(* Nobody reads the text of one that has not read, or what follows the     *)
(* section.                                                                *)
Sights ==
  \A d \in Callers :
    /\ ~Sees(d, "rest")
    /\ \A c \in Callers : Sees(d, c) => Reader(c)

(* Of any that have read, one is last, and its text none of them has seen. *)
OneIsLast ==
  \A S \in SUBSET Callers :
    S # {} /\ (\A c \in S : Reader(c)) => \E c \in S : \A d \in S : ~Sees(d, c)

(* What was inserted is on the page unless an execution has read it whose  *)
(* own text is in.                                                         *)
Kept(b) == OnPage(b) \/ \E d \in Callers : Filled(d) /\ Saw(d, b)
TextsKept ==
  /\ Kept(Block("old", 1)) /\ Kept(Block("old", 2))
  /\ \A c \in Callers : \A n \in 1..Batches :
       Filled(c) \/ (At(c, "insert") /\ n <= call[c].done) => Kept(Block(c, n))

TextInv == Typed /\ PageInOrder /\ Stages /\ Pieces /\ Sights /\ OneIsLast /\ TextsKept

-----------------------------------------------------------------------------
(* What stands where when sequences are joined, and in a part of one.      *)
LEMMA Joined ==
  ASSUME NEW T, NEW a \in Seq(T), NEW b \in Seq(T)
  PROVE  /\ a \o b \in Seq(T) /\ Len(a \o b) = Len(a) + Len(b)
         /\ \A i \in 1..Len(a) : (a \o b)[i] = a[i]
         /\ \A i \in 1..Len(b) : (a \o b)[Len(a) + i] = b[i]
  OBVIOUS

LEMMA Part ==
  ASSUME NEW T, NEW s \in Seq(T), NEW m \in 1..(Len(s) + 1), NEW n \in 0..Len(s), m <= n + 1
  PROVE  /\ SubSeq(s, m, n) \in Seq(T) /\ Len(SubSeq(s, m, n)) = (n - m) + 1
         /\ \A i \in 1..((n - m) + 1) : SubSeq(s, m, n)[i] = s[(m - 1) + i]
  OBVIOUS

(* An element is put after the k-th of a sequence.                         *)
OneMore(T, s, k, e, t) ==
  /\ t \in Seq(T) /\ Len(t) = Len(s) + 1
  /\ \A i \in 1..(Len(s) + 1) :
       t[i] = IF i <= k THEN s[i] ELSE IF i = k + 1 THEN e ELSE s[i - 1]

LEMMA PutIn ==
  ASSUME NEW T, NEW s \in Seq(T), NEW e \in T, NEW k \in 1..Len(s)
  PROVE  OneMore(T, s, k, e, InsertAt(s, k + 1, e))
<1>1. PICK front : front = SubSeq(s, 1, k)
  OBVIOUS
<1>2. PICK back : back = SubSeq(s, k + 1, Len(s))
  OBVIOUS
<1>3. PICK middle : middle = <<e>>
  OBVIOUS
<1>4. front \in Seq(T) /\ Len(front) = k /\ \A i \in 1..k : front[i] = s[i]
  BY <1>1, Part
<1>5. back \in Seq(T) /\ Len(back) = Len(s) - k /\ \A i \in 1..(Len(s) - k) : back[i] = s[k + i]
  BY <1>2, Part
<1>6. middle \in Seq(T) /\ Len(middle) = 1 /\ middle[1] = e
  BY <1>3
<1>7. PICK t : t = front \o middle
  OBVIOUS
<1>8. t \in Seq(T) /\ Len(t) = k + 1 /\ t[k + 1] = e /\ \A i \in 1..k : t[i] = s[i]
  <2>1. /\ front \o middle \in Seq(T) /\ Len(front \o middle) = Len(front) + Len(middle)
        /\ \A i \in 1..Len(front) : (front \o middle)[i] = front[i]
        /\ \A i \in 1..Len(middle) : (front \o middle)[Len(front) + i] = middle[i]
    <3>1. front \in Seq(T) /\ middle \in Seq(T)
      BY <1>4, <1>6
    <3>. QED
      BY <3>1, Joined
  <2>. QED
    BY <1>4, <1>6, <1>7, <2>1
<1>9. PICK u : u = t \o back
  OBVIOUS
<1>10. /\ u \in Seq(T) /\ Len(u) = Len(s) + 1
       /\ \A i \in 1..(k + 1) : u[i] = t[i]
       /\ \A i \in 1..(Len(s) - k) : u[(k + 1) + i] = s[k + i]
  <2>1. /\ t \o back \in Seq(T) /\ Len(t \o back) = Len(t) + Len(back)
        /\ \A i \in 1..Len(t) : (t \o back)[i] = t[i]
        /\ \A i \in 1..Len(back) : (t \o back)[Len(t) + i] = back[i]
    <3>1. t \in Seq(T) /\ back \in Seq(T)
      BY <1>5, <1>8
    <3>. QED
      BY <3>1, Joined
  <2>2. Len(t) = k + 1 /\ Len(back) = Len(s) - k /\ (k + 1) + (Len(s) - k) = Len(s) + 1
    BY <1>5, <1>8
  <2>3. /\ u \in Seq(T) /\ Len(u) = Len(s) + 1 /\ \A i \in 1..(k + 1) : u[i] = t[i]
        /\ \A i \in 1..(Len(s) - k) : u[(k + 1) + i] = back[i]
    BY <1>9, <2>1, <2>2
  <2>. QED
    BY <1>5, <2>3
<1>11. ASSUME NEW i \in 1..(Len(s) + 1), i > k + 1 PROVE u[i] = s[i - 1]
  <2>1. i - (k + 1) \in 1..(Len(s) - k)
    BY <1>11
  <2>2. u[(k + 1) + (i - (k + 1))] = s[k + (i - (k + 1))]
    BY <1>10, <2>1
  <2>. QED
    BY <1>11, <2>2
<1>12. InsertAt(s, k + 1, e) = u
  <2>1. (k + 1) - 1 = k
    OBVIOUS
  <2>2. InsertAt(s, k + 1, e) = (SubSeq(s, 1, (k + 1) - 1) \o <<e>>) \o SubSeq(s, k + 1, Len(s))
    BY DEF InsertAt
  <2>3. InsertAt(s, k + 1, e) = (SubSeq(s, 1, k) \o <<e>>) \o SubSeq(s, k + 1, Len(s))
    BY <2>1, <2>2
  <2>. QED
    BY <1>1, <1>2, <1>3, <1>7, <1>9, <2>3
<1>13. \A i \in 1..(Len(s) + 1) : u[i] = IF i <= k THEN s[i]
                                        ELSE IF i = k + 1 THEN e ELSE s[i - 1]
  BY <1>8, <1>10, <1>11
<1>. QED
  <2>1. OneMore(T, s, k, e, u)
    BY <1>10, <1>13 DEF OneMore
  <2>. QED
    BY <1>12, <2>1

(* The k-th element is taken out of a sequence.                            *)
LEMMA TakenOut ==
  ASSUME NEW T, NEW s \in Seq(T), NEW k \in 1..Len(s)
  PROVE  /\ RemoveAt(s, k) \in Seq(T) /\ Len(RemoveAt(s, k)) = Len(s) - 1
         /\ \A i \in 1..(Len(s) - 1) :
              RemoveAt(s, k)[i] = IF i < k THEN s[i] ELSE s[i + 1]
<1>1. PICK front : front = SubSeq(s, 1, k - 1)
  OBVIOUS
<1>2. PICK back : back = SubSeq(s, k + 1, Len(s))
  OBVIOUS
<1>3. front \in Seq(T) /\ Len(front) = k - 1 /\ \A i \in 1..(k - 1) : front[i] = s[i]
  BY <1>1, Part
<1>4. back \in Seq(T) /\ Len(back) = Len(s) - k /\ \A i \in 1..(Len(s) - k) : back[i] = s[k + i]
  BY <1>2, Part
<1>5. PICK u : u = front \o back
  OBVIOUS
<1>6. /\ u \in Seq(T) /\ Len(u) = Len(s) - 1 /\ \A i \in 1..(k - 1) : u[i] = s[i]
      /\ \A i \in 1..(Len(s) - k) : u[(k - 1) + i] = s[k + i]
  <2>1. /\ front \o back \in Seq(T) /\ Len(front \o back) = Len(front) + Len(back)
        /\ \A i \in 1..Len(front) : (front \o back)[i] = front[i]
        /\ \A i \in 1..Len(back) : (front \o back)[Len(front) + i] = back[i]
    <3>1. front \in Seq(T) /\ back \in Seq(T)
      BY <1>3, <1>4
    <3>. QED
      BY <3>1, Joined
  <2>. QED
    BY <1>3, <1>4, <1>5, <2>1
<1>7. ASSUME NEW i \in 1..(Len(s) - 1), i >= k PROVE u[i] = s[i + 1]
  <2>1. i - (k - 1) \in 1..(Len(s) - k)
    BY <1>7
  <2>2. u[(k - 1) + (i - (k - 1))] = s[k + (i - (k - 1))]
    BY <1>6, <2>1
  <2>. QED
    BY <1>7, <2>2
<1>8. RemoveAt(s, k) = u
  BY <1>1, <1>2, <1>5 DEF RemoveAt
<1>9. \A i \in 1..(Len(s) - 1) : u[i] = IF i < k THEN s[i] ELSE s[i + 1]
  BY <1>6, <1>7
<1>. QED
  BY <1>6, <1>8, <1>9

(* A block is found where it stands.                                       *)
LEMMA Placed ==
  ASSUME NEW b, OnPage(b)
  PROVE  PlaceOf(b) \in DOMAIN page /\ page[PlaceOf(b)] = b
  BY DEF OnPage, PlaceOf

(* The blocks of the texts.                                                *)
LEMMA BlockTypes ==
  /\ \A t \in Callers \cup {"old", "rest"} : \A n \in Nat : Block(t, n) \in Blocks
  /\ \A b \in Blocks : b = Block(b.of, b.n)
  /\ \A t, u, n, m : Block(t, n) = Block(u, m) => t = u /\ n = m
  /\ \A t, n : Block(t, n).of = t /\ Block(t, n).n = n
  BY DEF Block, Blocks

(* What the steps read of the page and of a call.                          *)
LEMMA PageFacts ==
  ASSUME Typed
  PROVE  /\ Len(page) \in Nat /\ DOMAIN page = 1..Len(page)
         /\ \A i \in 1..Len(page) : page[i] \in Blocks /\ page[i].n \in Nat
         /\ \A c \in Callers :
              /\ call[c].done \in Nat /\ call[c].seen \in Seq(Blocks) /\ call[c].after \in Blocks
              /\ DOMAIN call[c].seen = 1..Len(call[c].seen) /\ Len(call[c].seen) \in Nat
<1>1. \A b \in Blocks : b.n \in Nat
  BY DEF Blocks
<1>2. page \in Seq(Blocks) /\ Len(page) \in Nat /\ DOMAIN page = 1..Len(page)
  <2>1. page \in Seq(Blocks)
    BY DEF Typed
  <2>. QED
    BY <2>1
<1>3. \A i \in 1..Len(page) : page[i] \in Blocks
  BY <1>2
<1>4. ASSUME NEW c \in Callers
      PROVE  call[c].done \in Nat /\ call[c].seen \in Seq(Blocks) /\ call[c].after \in Blocks
  <2>1. call[c] \in Calls
    BY DEF Typed
  <2>. QED
    BY <2>1 DEF Calls
<1>5. \A s \in Seq(Blocks) : DOMAIN s = 1..Len(s) /\ Len(s) \in Nat
  OBVIOUS
<1>. QED
  BY <1>1, <1>2, <1>3, <1>4, <1>5

(* Where the blocks of a page with one put in have come from.              *)
CameFrom(p, k) ==
  /\ p \in [DOMAIN page' \ {k + 1} -> DOMAIN page]
  /\ \A x \in DOMAIN page' \ {k + 1} : page'[x] = page[p[x]] /\ (x < k + 1 <=> p[x] <= k)
  /\ \A x, y \in DOMAIN page' \ {k + 1} : x < y <=> p[x] < p[y]
  /\ \A z \in DOMAIN page : \E x \in DOMAIN page' \ {k + 1} : p[x] = z

LEMMA PutPlaces ==
  ASSUME Typed, NEW new \in Blocks, NEW k \in 1..Len(page), page' = InsertAt(page, k + 1, new)
  PROVE  /\ page' \in Seq(Blocks) /\ DOMAIN page' = 1..(Len(page) + 1)
         /\ k + 1 \in DOMAIN page' /\ page'[k + 1] = new
         /\ \E p : CameFrom(p, k)
<1>1. /\ page \in Seq(Blocks) /\ Len(page) \in Nat /\ DOMAIN page = 1..Len(page)
      /\ k \in Nat
  <2>1. page \in Seq(Blocks) /\ Len(page) \in Nat /\ DOMAIN page = 1..Len(page)
    BY PageFacts DEF Typed
  <2>. QED
    BY <2>1
<1>2. /\ page' \in Seq(Blocks) /\ Len(page') = Len(page) + 1
      /\ \A i \in 1..(Len(page) + 1) :
           page'[i] = IF i <= k THEN page[i] ELSE IF i = k + 1 THEN new ELSE page[i - 1]
  <2>1. OneMore(Blocks, page, k, new, InsertAt(page, k + 1, new))
    <3>1. page \in Seq(Blocks) /\ new \in Blocks /\ k \in 1..Len(page)
      BY <1>1
    <3>. QED
      BY <3>1, PutIn
  <2>. QED
    BY <2>1 DEF OneMore
<1>3. DOMAIN page' = 1..(Len(page) + 1)
  BY <1>1, <1>2
<1>4. k + 1 \in DOMAIN page' /\ page'[k + 1] = new
  <2>1. k + 1 \in 1..(Len(page) + 1) /\ ~(k + 1 <= k)
    BY <1>1
  <2>. QED
    BY <1>2, <1>3, <2>1
<1>5. PICK p : p = [x \in DOMAIN page' \ {k + 1} |-> IF x <= k THEN x ELSE x - 1]
  OBVIOUS
<1>6. \A x \in DOMAIN page' \ {k + 1} :
        /\ p[x] = IF x <= k THEN x ELSE x - 1
        /\ p[x] \in DOMAIN page /\ (x < k + 1 <=> p[x] <= k)
  BY <1>1, <1>3, <1>5
<1>7. \A x \in DOMAIN page' \ {k + 1} : page'[x] = page[p[x]]
  BY <1>1, <1>2, <1>3, <1>6
<1>8. \A x, y \in DOMAIN page' \ {k + 1} : x < y <=> p[x] < p[y]
  BY <1>1, <1>3, <1>6
<1>9. ASSUME NEW z \in DOMAIN page PROVE \E x \in DOMAIN page' \ {k + 1} : p[x] = z
  <2>1. CASE z <= k
    <3>1. z \in DOMAIN page' \ {k + 1} /\ p[z] = z
      BY <1>1, <1>3, <1>6, <2>1
    <3>. QED
      BY <3>1
  <2>2. CASE z > k
    <3>1. z + 1 \in DOMAIN page' \ {k + 1} /\ p[z + 1] = z
      BY <1>1, <1>3, <1>6, <2>2
    <3>. QED
      BY <3>1
  <2>. QED
    BY <1>1, <2>1, <2>2
<1>10. p \in [DOMAIN page' \ {k + 1} -> DOMAIN page]
  BY <1>5, <1>6
<1>. QED
  <2>1. CameFrom(p, k)
    BY <1>6, <1>7, <1>8, <1>9, <1>10 DEF CameFrom
  <2>. QED
    BY <1>2, <1>3, <1>4, <2>1

(* A piece is put after the last one of its text, or after the section, or *)
(* anywhere when its execution has strayed.                                *)
LEMMA PutOnPage ==
  ASSUME Typed, PageInOrder, Stages, Pieces, NEW c \in Callers, At(c, "insert"),
         NEW new, new = Block(c, call[c].done + 1), OnPage(call[c].after),
         page' = PutAfter(call[c].after, new), strayed \subseteq strayed'
  PROVE  /\ page' \in Seq(Blocks) /\ PageInOrder'
         /\ \A b : OnPage(b)' <=> OnPage(b) \/ b = new
         /\ \A b : b # new /\ BeforeRest(b) => BeforeRest(b)'
         /\ c \notin strayed => BeforeRest(new)'
<1>. DEFINE k == PlaceOf(call[c].after)
            d == call[c].done
<1>1. k \in 1..Len(page) /\ page[k] = call[c].after
  BY Placed, PageFacts
<1>2. new \in Blocks /\ new.of = c /\ new.n = d + 1 /\ d \in Nat /\ c # "rest"
  BY BlockTypes, PageFacts, StagedAssumption
<1>3. page' = InsertAt(page, k + 1, new)
  BY DEF PutAfter
<1>. HIDE DEF k
<1>. DEFINE D == DOMAIN page' \ {k + 1}
<1>4. /\ page' \in Seq(Blocks) /\ k + 1 \in DOMAIN page' /\ page'[k + 1] = new
      /\ DOMAIN page' = 1..(Len(page) + 1)
  BY <1>1, <1>2, <1>3, PutPlaces
<1>5. PICK p \in [D -> DOMAIN page] :
        /\ \A x \in D : page'[x] = page[p[x]] /\ (x < k + 1 <=> p[x] <= k)
        /\ \A x, y \in D : x < y <=> p[x] < p[y]
        /\ \A z \in DOMAIN page : \E x \in D : p[x] = z
  <2>1. new \in Blocks /\ k \in 1..Len(page) /\ page' = InsertAt(page, k + 1, new)
    BY <1>1, <1>2, <1>3
  <2>2. PICK p : CameFrom(p, k)
    BY <2>1, PutPlaces
  <2>. QED
    BY <2>2 DEF CameFrom
<1>6. /\ \A x \in DOMAIN page' : x = k + 1 \/ x \in D
      /\ \A x \in D : x \in Int /\ p[x] \in Int /\ p[x] \in DOMAIN page
      /\ k \in Int /\ \A x \in D : x # k + 1
  BY <1>1, <1>4, <1>5, PageFacts
<1>. HIDE DEF D
<1>7. \A i \in DOMAIN page : page[i].of = c => page[i].n \in 1..d
  <2>. SUFFICES ASSUME NEW i \in DOMAIN page, page[i].of = c PROVE page[i].n \in 1..d
    OBVIOUS
  <2>1. page[i].n \in Nat
    BY PageFacts
  <2>2. page[i].n # 0 /\ page[i].n <= d
    BY DEF Pieces, Come
  <2>. QED
    BY <1>2, <2>1, <2>2
<1>8. \A i \in DOMAIN page : page[i] # new
  BY <1>2, <1>7
<1>9. \A i \in DOMAIN page : page[i].of = c /\ c \notin strayed => i <= k
  <2>. SUFFICES ASSUME NEW i \in DOMAIN page, page[i].of = c, c \notin strayed, k < i
                PROVE  FALSE
    BY <1>1, PageFacts
  <2>1. page[i].n \in 1..d
    BY <1>7
  <2>2. d # 0
    BY <1>2, <2>1
  <2>3. page[k] = Block(c, d)
    BY <1>1, <2>2 DEF Stages, Standing
  <2>4. page[k].of = c /\ page[k].n = d
    BY <2>3, BlockTypes
  <2>5. page[k].n < page[i].n
    BY <1>1, <2>4, PageFacts DEF PageInOrder
  <2>. QED
    BY <1>2, <2>1, <2>4, <2>5
<1>10. \A j \in DOMAIN page : page[j].of = "rest" /\ c \notin strayed => k < j
  BY <1>1, PageFacts DEF Stages, Standing, BeforeRest
<1>11. \A b : OnPage(b)' <=> OnPage(b) \/ b = new
  <2>. SUFFICES ASSUME NEW b PROVE OnPage(b)' <=> OnPage(b) \/ b = new
    OBVIOUS
  <2>1. ASSUME OnPage(b)' PROVE OnPage(b) \/ b = new
    BY <1>4, <1>5, <1>6, <2>1 DEF OnPage
  <2>2. ASSUME OnPage(b) PROVE OnPage(b)'
    <3>1. PICK z \in DOMAIN page : page[z] = b
      BY <2>2 DEF OnPage
    <3>2. PICK x \in D : p[x] = z
      BY <1>5
    <3>3. x \in DOMAIN page' /\ page'[x] = b
      BY <1>5, <3>1, <3>2 DEF D
    <3>. QED
      BY <3>3 DEF OnPage
  <2>3. OnPage(new)'
    BY <1>4 DEF OnPage
  <2>. QED
    BY <2>1, <2>2, <2>3
<1>12. \A i \in DOMAIN page' : page'[i].of = "rest" => page'[i].n = 1
  BY <1>2, <1>4, <1>5, <1>6 DEF PageInOrder
<1>13. \A i, j \in DOMAIN page' : page'[i] = page'[j] => i = j
  <2>. SUFFICES ASSUME NEW i \in DOMAIN page', NEW j \in DOMAIN page', page'[i] = page'[j]
                PROVE  i = j
    OBVIOUS
  <2>1. CASE i \in D /\ j \in D
    <3>1. p[i] = p[j]
      BY <1>5, <1>6, <2>1 DEF PageInOrder
    <3>2. ~(i < j) /\ ~(j < i) /\ i \in Int /\ j \in Int
      BY <1>5, <1>6, <2>1, <3>1
    <3>. QED
      BY <3>2
  <2>2. CASE ~(i \in D /\ j \in D)
    BY <1>4, <1>5, <1>6, <1>8, <2>2
  <2>. QED
    BY <2>1, <2>2
<1>14. ASSUME NEW i \in DOMAIN page', NEW j \in DOMAIN page', i < j, page'[i].of = "rest"
       PROVE  page'[j].of \in strayed' /\ page'[j].n > 1
  <2>1. i \in D
    BY <1>2, <1>4, <1>6, <1>14
  <2>2. CASE j \in D
    BY <1>5, <1>6, <1>14, <2>1, <2>2 DEF PageInOrder
  <2>3. CASE j = k + 1
    <3>1. p[i] <= k /\ page[p[i]].of = "rest" /\ p[i] \in DOMAIN page
      BY <1>5, <1>6, <1>14, <2>1, <2>3
    <3>2. c \in strayed
      BY <1>6, <1>10, <2>1, <3>1
    <3>3. d # 0
      BY <3>2 DEF Stages, Standing
    <3>. QED
      BY <1>2, <1>4, <2>3, <3>2, <3>3
  <2>. QED
    BY <1>6, <2>2, <2>3
<1>15. ASSUME NEW i \in DOMAIN page', NEW j \in DOMAIN page', i < j,
              page'[i].of = page'[j].of, page'[i].of \notin strayed'
       PROVE  page'[i].n < page'[j].n
  <2>1. CASE i \in D /\ j \in D
    BY <1>5, <1>6, <1>15, <2>1 DEF PageInOrder
  <2>2. CASE i = k + 1
    <3>1. j \in D /\ ~(j < k + 1) /\ page'[j] = page[p[j]] /\ page'[i] = new
      BY <1>4, <1>5, <1>6, <1>15, <2>2
    <3>2. p[j] \in DOMAIN page /\ page[p[j]].of = c /\ c \notin strayed /\ ~(p[j] <= k)
      BY <1>2, <1>5, <1>6, <1>15, <3>1
    <3>. QED
      BY <1>9, <3>2
  <2>3. CASE j = k + 1
    <3>1. i \in D /\ page'[i] = page[p[i]] /\ page'[j] = new
      BY <1>4, <1>5, <1>6, <1>15, <2>3
    <3>2. p[i] \in DOMAIN page /\ page[p[i]].of = c
      BY <1>2, <1>6, <1>15, <3>1
    <3>3. page[p[i]].n \in 1..d
      BY <1>7, <3>2
    <3>. QED
      BY <1>2, <3>1, <3>3
  <2>. QED
    BY <1>6, <2>1, <2>2, <2>3
<1>16. ASSUME NEW b, b # new, BeforeRest(b) PROVE BeforeRest(b)'
  <2>. SUFFICES ASSUME NEW i \in DOMAIN page', NEW j \in DOMAIN page', page'[i] = b,
                       page'[j].of = "rest"
                PROVE  i < j
    BY DEF BeforeRest
  <2>1. i \in D /\ j \in D
    BY <1>2, <1>4, <1>6, <1>16
  <2>. QED
    BY <1>5, <1>6, <1>16, <2>1 DEF BeforeRest
<1>17. ASSUME c \notin strayed PROVE BeforeRest(new)'
  <2>. SUFFICES ASSUME NEW i \in DOMAIN page', NEW j \in DOMAIN page', page'[i] = new,
                       page'[j].of = "rest"
                PROVE  i < j
    BY DEF BeforeRest
  <2>1. i = k + 1 /\ j \in D
    BY <1>2, <1>4, <1>5, <1>6, <1>8
  <2>2. k < p[j]
    BY <1>5, <1>6, <1>10, <1>17, <2>1
  <2>3. ~(j < k + 1) /\ j \in Int /\ j # k + 1
    BY <1>5, <1>6, <2>1, <2>2
  <2>. QED
    BY <1>6, <2>1, <2>3
<1>18. PageInOrder'
  <2>1. OnPage(Block("rest", 1))'
    BY <1>11 DEF PageInOrder
  <2>. QED
    BY <1>12, <1>13, <1>14, <1>15, <2>1 DEF PageInOrder
<1>. QED
  BY <1>4, <1>11, <1>16, <1>17, <1>18

(* A block other than what follows the section goes to the trash.          *)
LEMMA TrashFromPage ==
  ASSUME Typed, PageInOrder, NEW old, old.of # "rest", page' = Trashed(old), strayed' = strayed
  PROVE  /\ page' \in Seq(Blocks) /\ PageInOrder'
         /\ \A b : OnPage(b)' <=> OnPage(b) /\ b # old
         /\ \A b : BeforeRest(b) => BeforeRest(b)'
<1>1. CASE ~OnPage(old)
  <2>1. page' = page
    BY <1>1 DEF Trashed
  <2>2. page' \in Seq(Blocks)
    BY <2>1 DEF Typed
  <2>3. PageInOrder'
    BY <2>1 DEF PageInOrder, OnPage
  <2>4. \A b : (OnPage(b)' <=> OnPage(b)) /\ (BeforeRest(b) => BeforeRest(b)')
    BY <2>1 DEF OnPage, BeforeRest
  <2>. QED
    BY <1>1, <2>2, <2>3, <2>4
<1>2. CASE OnPage(old)
  <2>. DEFINE k == PlaceOf(old)
  <2>1. k \in 1..Len(page) /\ page[k] = old
    BY <1>2, Placed, PageFacts
  <2>2. page' = RemoveAt(page, k)
    BY <1>2 DEF Trashed
  <2>. HIDE DEF k
  <2>3. /\ page' \in Seq(Blocks) /\ Len(page') = Len(page) - 1
        /\ \A i \in 1..(Len(page) - 1) : page'[i] = IF i < k THEN page[i] ELSE page[i + 1]
    BY <2>1, <2>2, TakenOut DEF Typed
  <2>4. Len(page) \in Nat /\ DOMAIN page = 1..Len(page) /\ DOMAIN page' = 1..(Len(page) - 1)
    BY <2>1, <2>3, PageFacts
  <2>5. PICK p : p = [x \in DOMAIN page' |-> IF x < k THEN x ELSE x + 1]
    OBVIOUS
  <2>6. \A x \in DOMAIN page' :
          /\ p[x] = IF x < k THEN x ELSE x + 1
          /\ p[x] \in DOMAIN page /\ p[x] # k /\ p[x] \in Int /\ x \in Int
    BY <2>1, <2>4, <2>5
  <2>7. \A x \in DOMAIN page' : page'[x] = page[p[x]]
    BY <2>1, <2>3, <2>4, <2>6
  <2>8. \A x, y \in DOMAIN page' : x < y <=> p[x] < p[y]
    BY <2>1, <2>4, <2>6
  <2>9. ASSUME NEW z \in DOMAIN page, z # k PROVE \E x \in DOMAIN page' : p[x] = z
    <3>1. CASE z < k
      <4>1. z \in DOMAIN page' /\ p[z] = z
        BY <2>1, <2>4, <2>6, <3>1
      <4>. QED
        BY <4>1
    <3>2. CASE z > k
      <4>1. z - 1 \in DOMAIN page' /\ p[z - 1] = z
        BY <2>1, <2>4, <2>6, <3>2
      <4>. QED
        BY <4>1
    <3>. QED
      BY <2>1, <2>4, <2>9, <3>1, <3>2
  <2>10. \A b : OnPage(b)' <=> OnPage(b) /\ b # old
    <3>. SUFFICES ASSUME NEW b PROVE OnPage(b)' <=> OnPage(b) /\ b # old
      OBVIOUS
    <3>1. ASSUME OnPage(b)' PROVE OnPage(b) /\ b # old
      <4>1. PICK i \in DOMAIN page' : page'[i] = b
        BY <3>1 DEF OnPage
      <4>2. p[i] \in DOMAIN page /\ p[i] # k /\ page[p[i]] = b
        BY <2>6, <2>7, <4>1
      <4>3. k \in DOMAIN page
        BY <2>1, <2>4
      <4>. QED
        BY <2>1, <4>2, <4>3 DEF OnPage, PageInOrder
    <3>2. ASSUME OnPage(b), b # old PROVE OnPage(b)'
      <4>1. PICK z \in DOMAIN page : page[z] = b
        BY <3>2 DEF OnPage
      <4>2. PICK x \in DOMAIN page' : p[x] = z
        BY <2>1, <2>9, <3>2, <4>1
      <4>. QED
        BY <2>7, <4>1, <4>2 DEF OnPage
    <3>. QED
      BY <3>1, <3>2
  <2>11. PageInOrder'
    <3>1. OnPage(Block("rest", 1))'
      <4>1. Block("rest", 1) # old
        BY BlockTypes
      <4>. QED
        BY <2>10, <4>1 DEF PageInOrder
    <3>2. \A i \in DOMAIN page' : page'[i].of = "rest" => page'[i].n = 1
      BY <2>6, <2>7 DEF PageInOrder
    <3>3. ASSUME NEW i \in DOMAIN page', NEW j \in DOMAIN page', page'[i] = page'[j]
          PROVE  i = j
      <4>1. p[i] = p[j]
        BY <2>6, <2>7, <3>3 DEF PageInOrder
      <4>2. ~(i < j) /\ ~(j < i) /\ i \in Int /\ j \in Int
        BY <2>6, <2>8, <4>1
      <4>. QED
        BY <4>2
    <3>4. \A i, j \in DOMAIN page' :
            i < j /\ page'[i].of = "rest" => page'[j].of \in strayed' /\ page'[j].n > 1
      BY <2>6, <2>7, <2>8 DEF PageInOrder
    <3>5. \A i, j \in DOMAIN page' :
            i < j /\ page'[i].of = page'[j].of /\ page'[i].of \notin strayed' =>
              page'[i].n < page'[j].n
      BY <2>6, <2>7, <2>8 DEF PageInOrder
    <3>. QED
      BY <3>1, <3>2, <3>3, <3>4, <3>5 DEF PageInOrder
  <2>12. \A b : BeforeRest(b) => BeforeRest(b)'
    BY <2>6, <2>7, <2>8 DEF BeforeRest
  <2>. QED
    BY <2>3, <2>10, <2>11, <2>12
<1>. QED
  BY <1>1, <1>2

-----------------------------------------------------------------------------
(* A block that was kept is kept as long as the page does not lose it but  *)
(* to an execution whose text is in, and nobody forgets what it has read.  *)
LEMMA StaysKept ==
  ASSUME NEW c \in Callers, NEW old,
         \A d \in Callers : call'[d].seen = call[d].seen /\ (Filled(d) => Filled(d)'),
         \A b : OnPage(b) /\ b # old => OnPage(b)',
         OnPage(old)' \/ (Filled(c)' /\ Saw(c, old)),
         NEW b, Kept(b)
  PROVE  Kept(b)'
<1>1. \A d \in Callers : Saw(d, b)' <=> Saw(d, b)
  BY DEF Saw
<1>2. CASE \E d \in Callers : Filled(d) /\ Saw(d, b)
  BY <1>1, <1>2 DEF Kept
<1>3. CASE OnPage(b)
  BY <1>1, <1>3 DEF Kept
<1>. QED
  BY <1>2, <1>3 DEF Kept

(* Who has read what does not change when nobody reads.                    *)
LEMMA SightsStay ==
  ASSUME Sights, OneIsLast, \A d \in Callers : call'[d].seen = call[d].seen
  PROVE  /\ Sights' /\ OneIsLast'
         /\ \A d \in Callers : Reader(d)' <=> Reader(d)
<1>1. \A d \in Callers : Reader(d)' <=> Reader(d)
  BY DEF Reader
<1>2. \A d \in Callers : \A t : Sees(d, t)' <=> Sees(d, t)
  BY DEF Sees
<1>3. Sights'
  BY <1>1, <1>2 DEF Sights
<1>4. OneIsLast'
  <2>. SUFFICES ASSUME NEW S \in SUBSET Callers, S # {}, \A c \in S : Reader(c)'
                PROVE  \E c \in S : \A d \in S : ~Sees(d, c)'
    BY DEF OneIsLast
  <2>1. PICK c \in S : \A d \in S : ~Sees(d, c)
    BY <1>1 DEF OneIsLast
  <2>. QED
    BY <1>2, <2>1
<1>. QED
  BY <1>1, <1>3, <1>4

(* What an idle caller begins with is what it had.                         *)
LEMMA EarlyHasNothing ==
  ASSUME TextInv, NEW c \in Callers, call[c].at \in Early
  PROVE  call[c].seen = <<>> /\ call[c].after = Block("old", 1) /\ call[c].done = 0
  BY DEF TextInv, Stages, Standing, Reader

(* Steps that leave the page alone, and take nobody further into an        *)
(* execution than to its end.                                              *)
LEMMA QuietKeeps ==
  ASSUME TextInv, Typed', page' = page, strayed' = strayed,
         \A c \in Callers :
           /\ call'[c].seen = call[c].seen /\ call'[c].after = call[c].after
           /\ call'[c].at \in Early =>
                call[c].at \in Early /\ call'[c].done = call[c].done
           /\ call'[c].at \in {"insert", "delete"} =>
                call'[c].at = call[c].at /\ call'[c].done = call[c].done
           /\ call'[c].at = "unlink" /\ call'[c].result = "done" =>
                At(c, "unlink") /\ call[c].result = "done"
           /\ told'[c] = "done" =>
                told[c] = "done" \/ (At(c, "unlink") /\ call[c].result = "done")
  PROVE  TextInv'
<1>1. Sights' /\ OneIsLast' /\ \A d \in Callers : Reader(d)' <=> Reader(d)
  BY SightsStay DEF TextInv
<1>2. \A d \in Callers : Filled(d)' <=> Filled(d)
  BY DEF Filled
<1>3. \A c \in Callers : At(c, "insert")' => At(c, "insert") /\ call'[c].done = call[c].done
  BY DEF At
<1>4. PageInOrder'
  BY DEF TextInv, PageInOrder, OnPage
<1>5. Stages'
  <2>. SUFFICES ASSUME NEW c \in Callers PROVE Standing(c)'
    BY DEF Stages
  <2>. QED
    BY <1>1, <1>2 DEF TextInv, Stages, Standing, At, BeforeRest
<1>6. Pieces'
  <2>1. \A b : Come(b) => Come(b)'
    BY <1>1, <1>3 DEF Come
  <2>. QED
    BY <1>3, <2>1 DEF TextInv, Pieces
<1>7. TextsKept'
  <2>1. \A b : Kept(b) => Kept(b)'
    BY <1>2 DEF Kept, Saw, OnPage
  <2>. QED
    BY <1>2, <1>3, <2>1 DEF TextInv, TextsKept
<1>. QED
  BY <1>1, <1>4, <1>5, <1>6, <1>7 DEF TextInv

(* A request that puts a piece on the page, and is heard of or not.        *)
LEMMA PutKeeps ==
  ASSUME TextInv, Typed', NEW c \in Callers, At(c, "insert"), OnPage(call[c].after),
         page' = PutAfter(call[c].after, Block(c, call[c].done + 1)),
         told' = told, \A d \in Callers \ {c} : call'[d] = call[d],
         call'[c].seen = call[c].seen,
         \/ /\ call'[c].at = "unlink" /\ call'[c].result = "failed"
            /\ call'[c].after = call[c].after /\ strayed' = strayed
         \/ /\ call[c].done + 1 = Batches
            /\ call'[c].after = Block(c, call[c].done + 1) /\ strayed' = strayed
            /\ call'[c].at = "delete" /\ call'[c].done = 0
         \/ /\ call[c].done + 1 # Batches
            /\ call'[c].at = "insert" /\ call'[c].done = call[c].done + 1
            /\ \/ call'[c].after = Block(c, call[c].done + 1) /\ strayed' = strayed
               \/ OnPage(call'[c].after) /\ strayed' = strayed \cup {c}
  PROVE  TextInv'
<1>. PICK new : new = Block(c, call[c].done + 1)
  OBVIOUS
<1>1. /\ page' \in Seq(Blocks) /\ PageInOrder'
      /\ \A b : OnPage(b)' <=> OnPage(b) \/ b = new
      /\ \A b : b # new /\ BeforeRest(b) => BeforeRest(b)'
      /\ c \notin strayed => BeforeRest(new)'
  <2>1. strayed \subseteq strayed'
    OBVIOUS
  <2>. QED
    BY <2>1, PutOnPage DEF TextInv
<1>2. /\ call[c].done \in Nat /\ call[c].done < Batches /\ Batches \in Nat
      /\ Reader(c) /\ ~Filled(c) /\ Len(call[c].seen) # 0
  <2>1. call[c].done \in Nat /\ call[c].seen \in Seq(Blocks)
    BY PageFacts DEF TextInv
  <2>2. call[c].done < Batches /\ Reader(c) /\ Batches \in Nat
    BY StagedAssumption DEF TextInv, Stages, Standing
  <2>3. ~Filled(c)
    <3>1. Come(call[c].after)
      BY DEF TextInv, Pieces
    <3>. QED
      BY <2>1, <2>2, <3>1, BlockTypes DEF Come, Filled
  <2>. QED
    BY <2>1, <2>2, <2>3 DEF Reader
<1>3. \A d \in Callers : call'[d].seen = call[d].seen
  OBVIOUS
<1>4. Sights' /\ OneIsLast' /\ \A d \in Callers : Reader(d)' <=> Reader(d)
  BY <1>3, SightsStay DEF TextInv
<1>5. \A d \in Callers : Filled(d) => Filled(d)'
  BY <1>2 DEF Filled
<1>6. \A b : Kept(b) => Kept(b)'
  BY <1>1, <1>3, <1>5 DEF Kept, Saw
<1>7. Kept(new)'
  BY <1>1 DEF Kept
<1>8. new.of = c /\ new.n = call[c].done + 1 /\ ~Come(new) /\ Come(new)'
  <2>1. new.of = c /\ new.n = call[c].done + 1
    BY BlockTypes
  <2>2. At(c, "insert")' => call'[c].done = call[c].done + 1
    BY DEF At
  <2>. QED
    BY <1>2, <1>4, <2>1, <2>2 DEF Come
<1>9. ASSUME NEW b \in Blocks, Come(b) PROVE Come(b)'
  <2>1. CASE b.of = c
    <3>1. At(c, "insert")' => call'[c].done = call[c].done + 1
      BY DEF At
    <3>2. b.n <= call[c].done /\ b.n # 0 /\ b.n \in Nat
      BY <1>9, <2>1 DEF Come, Blocks
    <3>. QED
      BY <1>2, <1>4, <2>1, <3>1, <3>2 DEF Come
  <2>2. CASE b.of # c
    BY <1>4, <1>9, <2>2 DEF Come, At
  <2>. QED
    BY <2>1, <2>2
<1>10. Pieces'
  <2>1. ASSUME NEW i \in DOMAIN page', NEW b, b = page'[i] PROVE Come(b)'
    <3>1. b = new \/ OnPage(b)
      <4>1. OnPage(b)'
        BY <2>1 DEF OnPage
      <4>. QED
        BY <1>1, <4>1
    <3>2. CASE OnPage(b)
      <4>1. PICK j \in DOMAIN page : page[j] = b
        BY <3>2 DEF OnPage
      <4>2. b \in Blocks
        BY <4>1, PageFacts DEF TextInv
      <4>3. Come(b)
        BY <4>1 DEF TextInv, Pieces
      <4>. QED
        BY <1>9, <4>2, <4>3
    <3>. QED
      BY <1>8, <3>1, <3>2
  <2>2. ASSUME NEW d \in Callers, At(d, "insert")', NEW b, b = call'[d].after PROVE Come(b)'
    <3>1. b \in Blocks
      <4>1. call'[d] \in Calls
        BY DEF Typed
      <4>. QED
        BY <2>2, <4>1 DEF Calls
    <3>2. b = new \/ Come(b)
      <4>1. CASE d # c
        BY <2>2, <4>1 DEF TextInv, Pieces, At
      <4>2. CASE OnPage(b)
        BY <4>2 DEF TextInv, Pieces, OnPage
      <4>3. d = c => b = new \/ OnPage(b)
        BY <2>2 DEF At
      <4>. QED
        BY <4>1, <4>2, <4>3
    <3>. QED
      BY <1>8, <1>9, <3>1, <3>2
  <2>. QED
    BY <2>1, <2>2 DEF Pieces
<1>12. Stages'
  <2>. SUFFICES ASSUME NEW d \in Callers PROVE Standing(d)'
    BY DEF Stages
  <2>1. CASE d # c
    <3>1. At(d, "insert") /\ d \notin strayed => BeforeRest(call[d].after)'
      <4>. SUFFICES ASSUME At(d, "insert"), d \notin strayed, NEW b, b = call[d].after
                    PROVE  BeforeRest(b)' /\ call'[d].after = b
        BY DEF BeforeRest
      <4>1. Come(b) /\ BeforeRest(b)
        BY DEF TextInv, Pieces, Stages, Standing
      <4>. QED
        BY <1>1, <1>8, <2>1, <4>1
    <3>2. d \in strayed' <=> d \in strayed
      BY <2>1
    <3>. QED
      BY <1>4, <1>5, <2>1, <3>1, <3>2 DEF TextInv, Stages, Standing, At
  <2>2. CASE d = c
    <3>1. told'[c] # "done"
      BY <1>2 DEF TextInv, Stages, Standing
    <3>2. CASE call'[c].at = "unlink" /\ call'[c].result = "failed"
      BY <1>2, <1>4, <2>2, <3>1, <3>2 DEF Standing, At, Early
    <3>3. CASE /\ call'[c].after = new /\ call[c].done + 1 = Batches
               /\ call'[c].at = "delete" /\ call'[c].done = 0
      <4>1. Filled(c)' /\ 0 < Len(call'[c].seen)
        <5>1. call[c].seen \in Seq(Blocks)
          BY PageFacts DEF TextInv
        <5>2. Len(call[c].seen) \in Nat
          BY <5>1
        <5>. QED
          BY <1>2, <3>3, <5>2 DEF Filled
      <4>. QED
        BY <1>2, <1>4, <2>2, <3>1, <3>3, <4>1 DEF Standing, At, Early
    <3>4. CASE /\ call[c].done + 1 # Batches
               /\ call'[c].at = "insert" /\ call'[c].done = call[c].done + 1
               /\ \/ call'[c].after = new /\ strayed' = strayed
                  \/ OnPage(call'[c].after) /\ strayed' = strayed \cup {c}
      <4>1. call'[c].done # 0 /\ call'[c].done < Batches
        BY <1>2, <3>4
      <4>2. c \notin strayed' =>
              BeforeRest(call[c].after)' /\ call'[c].after = Block(c, call'[c].done)
        BY <1>1, <3>4
      <4>. QED
        BY <1>2, <1>4, <2>2, <3>1, <3>4, <4>1, <4>2 DEF Standing, At, Early
    <3>. QED
      BY <3>2, <3>3, <3>4
  <2>. QED
    BY <2>1, <2>2
<1>11. TextsKept'
  <2>. SUFFICES ASSUME NEW d \in Callers, NEW n \in 1..Batches,
                       Filled(d)' \/ (At(d, "insert")' /\ n <= call'[d].done)
                PROVE  Kept(Block(d, n))'
    BY <1>6 DEF TextInv, TextsKept
  <2>1. CASE d # c
    BY <1>6, <2>1 DEF TextInv, TextsKept, Filled, At
  <2>2. CASE d = c
    <3>2. call[c].done + 1 # Batches => ~Filled(c)'
      <4>1. ASSUME OnPage(call'[c].after) PROVE ~Filled(c)'
        <5>1. Come(call'[c].after)
          BY <4>1 DEF TextInv, Pieces, OnPage
        <5>. QED
          BY <1>2, <5>1, BlockTypes DEF Come, Filled
      <4>. QED
        BY <1>2, <4>1, BlockTypes DEF Filled
    <3>1. n <= call[c].done \/ n = call[c].done + 1
      BY <1>2, <2>2, <3>2 DEF At
    <3>. QED
      <4>1. n <= call[c].done => Kept(Block(c, n))
        BY DEF TextInv, TextsKept
      <4>. QED
        BY <1>6, <1>7, <2>2, <3>1, <4>1
  <2>. QED
    BY <2>1, <2>2
<1>. QED
  BY <1>1, <1>4, <1>10, <1>11, <1>12 DEF TextInv

(* A request that trashes a block, and is heard of or not.                 *)
LEMMA TrashKeeps ==
  ASSUME TextInv, Typed', NEW c \in Callers, At(c, "delete"),
         page' = Trashed(call[c].seen[call[c].done + 1]),
         told' = told, strayed' = strayed, \A d \in Callers \ {c} : call'[d] = call[d],
         call'[c].seen = call[c].seen, call'[c].after = call[c].after,
         \/ call'[c].at = "unlink"
         \/ /\ call'[c].at = "delete" /\ call'[c].done = call[c].done + 1
            /\ call'[c].done # Len(call[c].seen)
  PROVE  TextInv'
<1>. DEFINE old == call[c].seen[call[c].done + 1]
<1>1. /\ Filled(c) /\ call[c].done \in Nat /\ Len(call[c].seen) \in Nat
      /\ call[c].done < Len(call[c].seen)
  BY PageFacts DEF TextInv, Stages, Standing
<1>2. Saw(c, old) /\ old.of # "rest"
  <2>1. call[c].done + 1 \in DOMAIN call[c].seen
    BY <1>1, PageFacts DEF TextInv
  <2>. QED
    BY <2>1 DEF TextInv, Sights, Saw, Sees
<1>3. /\ page' \in Seq(Blocks) /\ PageInOrder'
      /\ \A b : OnPage(b)' <=> OnPage(b) /\ b # old
      /\ \A b : BeforeRest(b) => BeforeRest(b)'
  BY <1>2, TrashFromPage DEF TextInv
<1>4. \A d \in Callers : call'[d].seen = call[d].seen
  OBVIOUS
<1>5. Sights' /\ OneIsLast' /\ \A d \in Callers : Reader(d)' <=> Reader(d)
  BY <1>4, SightsStay DEF TextInv
<1>6. \A d \in Callers : Filled(d)' <=> Filled(d)
  BY DEF Filled
<1>7. \A b : Kept(b) => Kept(b)'
  BY <1>1, <1>2, <1>3, <1>4, <1>6 DEF Kept, Saw
<1>8. Stages'
  <2>. SUFFICES ASSUME NEW d \in Callers PROVE Standing(d)'
    BY DEF Stages
  <2>1. CASE d # c
    BY <1>3, <1>5, <1>6, <2>1 DEF TextInv, Stages, Standing, At
  <2>2. CASE d = c
    <3>1. (~Reader(c)' => call'[c].after = Block("old", 1)) /\ Filled(c)'
      BY <1>1, <1>5, <1>6 DEF TextInv, Stages, Standing
    <3>2. call'[c].at = "delete" => call'[c].done < Len(call'[c].seen)
      BY <1>1
    <3>. QED
      BY <2>2, <3>1, <3>2 DEF Standing, At, Early
  <2>. QED
    BY <2>1, <2>2
<1>9. \A d \in Callers : At(d, "insert")' => At(d, "insert") /\ call'[d].done = call[d].done
  BY DEF At
<1>10. Pieces'
  <2>1. \A b : Come(b) => Come(b)'
    BY <1>5, <1>9 DEF Come
  <2>2. ASSUME NEW i \in DOMAIN page', NEW b, b = page'[i] PROVE OnPage(b)
    <3>1. OnPage(b)'
      BY <2>2 DEF OnPage
    <3>. QED
      BY <1>3, <3>1
  <2>3. \A b : OnPage(b) => Come(b)
    BY DEF TextInv, Pieces, OnPage
  <2>4. \A d \in Callers : At(d, "insert")' => call'[d].after = call[d].after
    OBVIOUS
  <2>. QED
    BY <1>9, <2>1, <2>2, <2>3, <2>4 DEF TextInv, Pieces
<1>11. TextsKept'
  BY <1>6, <1>7, <1>9 DEF TextInv, TextsKept
<1>. QED
  BY <1>3, <1>5, <1>8, <1>10, <1>11 DEF TextInv

(* The section begins with a heading and ends before what follows it.      *)
LEMMA SectionTypes ==
  ASSUME TextInv, HeadingsOf(page) # {}
  PROVE  /\ Section(page) \in Seq(Blocks) /\ Section(page) # <<>>
         /\ \A i \in DOMAIN Section(page) : OnPage(Section(page)[i]) /\ BeforeRest(Section(page)[i])
         /\ OnPage(Last(Section(page))) /\ BeforeRest(Last(Section(page)))
         /\ Last(Section(page)) \in Blocks
<1>. DEFINE first == CHOOSE i \in HeadingsOf(page) : TRUE
            end == CHOOSE i \in DOMAIN page : page[i].of = "rest"
<1>1. /\ Len(page) \in Nat /\ DOMAIN page = 1..Len(page) /\ page \in Seq(Blocks)
      /\ "rest" \notin Callers /\ PageInOrder
  BY PageFacts, StagedAssumption DEF TextInv, Typed
<1>2. end \in 1..Len(page) /\ page[end].of = "rest"
  <2>1. \E i \in DOMAIN page : page[i].of = "rest"
    BY <1>1, BlockTypes DEF PageInOrder, OnPage
  <2>. QED
    BY <1>1, <2>1
<1>3. first \in 1..Len(page) /\ page[first].n = 1 /\ page[first].of # "rest"
  <2>1. first \in HeadingsOf(page)
    OBVIOUS
  <2>. HIDE DEF first
  <2>. QED
    BY <1>1, <2>1 DEF HeadingsOf, IsHeading
<1>. DEFINE s == Section(page)
<1>4. s = SubSeq(page, first, end - 1)
  BY DEF Section
<1>. HIDE DEF first, end, s
<1>5. first < end
  <2>1. first # end
    BY <1>2, <1>3
  <2>2. ~(end < first)
    BY <1>1, <1>2, <1>3 DEF PageInOrder
  <2>. QED
    BY <1>2, <1>3, <2>1, <2>2
<1>6. \A j \in DOMAIN page : page[j].of = "rest" => j = end
  BY <1>1, <1>2, BlockTypes, PageFacts DEF PageInOrder, TextInv
<1>7. ASSUME NEW j \in 1..(end - 1) PROVE j \in DOMAIN page /\ OnPage(page[j]) /\ BeforeRest(page[j])
  <2>1. j \in DOMAIN page /\ j < end
    BY <1>1, <1>2
  <2>2. ASSUME NEW x \in DOMAIN page, NEW y \in DOMAIN page, page[x] = page[j],
               page[y].of = "rest"
        PROVE  x < y
    BY <1>1, <1>6, <2>1, <2>2 DEF PageInOrder
  <2>. QED
    BY <2>1, <2>2 DEF OnPage, BeforeRest
<1>8. /\ s \in Seq(Blocks) /\ Len(s) \in Nat /\ Len(s) # 0 /\ DOMAIN s = 1..Len(s)
      /\ \A i \in 1..Len(s) : \E j \in 1..(end - 1) : s[i] = page[j]
  <2>1. PICK last : last = end - 1
    OBVIOUS
  <2>2. /\ first \in 1..(Len(page) + 1) /\ last \in 0..Len(page)
        /\ first <= last + 1 /\ first <= last
    BY <1>1, <1>2, <1>3, <1>5, <2>1
  <2>3. /\ s \in Seq(Blocks) /\ Len(s) = (last - first) + 1
        /\ \A i \in 1..((last - first) + 1) : s[i] = page[(first - 1) + i]
    BY <1>1, <1>4, <2>1, <2>2, Part
  <2>4. ASSUME NEW i \in 1..Len(s) PROVE \E j \in 1..(end - 1) : s[i] = page[j]
    <3>1. s[i] = page[(first - 1) + i]
      BY <2>3
    <3>2. (first - 1) + i \in 1..(end - 1)
      BY <2>1, <2>2, <2>3
    <3>. QED
      BY <3>1, <3>2
  <2>5. Len(s) \in Nat /\ DOMAIN s = 1..Len(s)
    BY <2>3
  <2>. QED
    BY <2>2, <2>3, <2>4, <2>5
<1>9. Last(s) = s[Len(s)] /\ Len(s) \in 1..Len(s) /\ s[Len(s)] \in Blocks /\ s # <<>>
  BY <1>8 DEF Last
<1>10. \A i \in DOMAIN s : OnPage(s[i]) /\ BeforeRest(s[i])
  BY <1>7, <1>8
<1>. QED
  BY <1>8, <1>9, <1>10 DEF s

(* The page is read, and the section found.  Nobody has read the text of   *)
(* the one that reads, so that it is the last of all that have.            *)
LEMMA ReadKeeps ==
  ASSUME TextInv, Typed', NEW c \in Callers, At(c, "read"), page' = page, told' = told,
         strayed' = strayed,
         \A d \in Callers \ {c} : call'[d] = call[d],
         HeadingsOf(page) # {}, call'[c].at = "insert", call'[c].done = 0,
         call'[c].seen = Section(page), call'[c].after = Last(Section(page))
  PROVE  TextInv'
<1>1. /\ Len(page) \in Nat /\ DOMAIN page = 1..Len(page)
      /\ "rest" \notin Callers /\ ~Reader(c)
  BY PageFacts, StagedAssumption DEF TextInv, Stages, Standing, At, Early
<1>2. PICK s : s = Section(page)
  OBVIOUS
<1>3. /\ s # <<>> /\ \A i \in DOMAIN s : OnPage(s[i]) /\ BeforeRest(s[i])
      /\ OnPage(Last(s)) /\ BeforeRest(Last(s))
  BY <1>2, SectionTypes
<1>6. /\ call'[c].seen = s /\ s # <<>>
      /\ OnPage(call'[c].after) /\ BeforeRest(call'[c].after)
  BY <1>2, <1>3
<1>7. \A d \in Callers : Reader(d)' <=> Reader(d) \/ d = c
  BY <1>6 DEF Reader
<1>8. ASSUME NEW b, OnPage(b)
      PROVE  /\ Come(b) /\ b.of # c
             /\ BeforeRest(b) => b.of # "rest"
  <2>1. PICK j \in DOMAIN page : page[j] = b
    BY <1>8 DEF OnPage
  <2>2. Come(b)
    BY <2>1 DEF TextInv, Pieces
  <2>3. b.of # c
    BY <1>1, <2>2 DEF Come
  <2>4. BeforeRest(b) => b.of # "rest"
    BY <1>1, <2>1 DEF BeforeRest
  <2>. QED
    BY <2>2, <2>3, <2>4
<1>9. /\ ~Sees(c, "rest")' /\ ~Sees(c, c)'
      /\ \A d \in Callers : Sees(c, d)' => Reader(d)
  <2>. SUFFICES ASSUME NEW t, Sees(c, t)'
                PROVE  t # "rest" /\ t # c /\ (t \in Callers => Reader(t))
    OBVIOUS
  <2>1. PICK i \in DOMAIN s : s[i].of = t
    BY <1>6 DEF Sees
  <2>2. OnPage(s[i]) /\ BeforeRest(s[i])
    BY <1>3
  <2>. QED
    BY <1>8, <2>1, <2>2 DEF Come
<1>10. \A d \in Callers \ {c} : \A t : Sees(d, t)' <=> Sees(d, t)
  BY DEF Sees
<1>11. \A d \in Callers : ~Sees(d, c)'
  BY <1>1, <1>9, <1>10 DEF TextInv, Sights
<1>12. Sights'
  BY <1>7, <1>9, <1>10 DEF TextInv, Sights
<1>13. OneIsLast'
  <2>. SUFFICES ASSUME NEW S \in SUBSET Callers, S # {}, \A d \in S : Reader(d)'
                PROVE  \E e \in S : \A d \in S : ~Sees(d, e)'
    BY DEF OneIsLast
  <2>1. CASE c \in S
    BY <1>11, <2>1
  <2>2. CASE c \notin S
    <3>1. PICK e \in S : \A d \in S : ~Sees(d, e)
      BY <1>7, <2>2 DEF TextInv, OneIsLast
    <3>. QED
      BY <1>10, <2>2, <3>1
  <2>. QED
    BY <2>1, <2>2
<1>14. ~Filled(c) /\ ~Filled(c)' /\ call'[c].after.of # c /\ call'[c].after.of # "rest"
  <2>1. call[c].after = Block("old", 1) /\ "old" \notin Callers
    BY <1>1, StagedAssumption DEF TextInv, Stages, Standing
  <2>. QED
    BY <1>6, <1>8, <2>1, BlockTypes DEF Filled
<1>15. \A d \in Callers : Filled(d)' <=> Filled(d)
  BY <1>14 DEF Filled
<1>16. PageInOrder'
  BY DEF TextInv, PageInOrder, OnPage
<1>17. Stages'
  <2>. SUFFICES ASSUME NEW d \in Callers PROVE Standing(d)'
    BY DEF Stages
  <2>1. CASE d # c
    BY <1>7, <1>15, <2>1 DEF TextInv, Stages, Standing, At, BeforeRest
  <2>2. CASE d = c
    <3>1. told'[c] # "done" /\ 0 < Batches
      BY <1>14, StagedAssumption DEF TextInv, Stages, Standing
    <3>2. c \notin strayed' /\ BeforeRest(call[c].after)'
      BY <1>6 DEF TextInv, Stages, Standing, At, Early, BeforeRest
    <3>. QED
      BY <1>7, <1>14, <2>2, <3>1, <3>2 DEF Standing, At, Early
  <2>. QED
    BY <2>1, <2>2
<1>18. Pieces'
  <2>1. \A b : b.of # c /\ Come(b) => Come(b)'
    BY <1>7 DEF Come, At
  <2>2. \A b : OnPage(b) => Come(b)'
    BY <1>8, <2>1
  <2>3. ASSUME NEW d \in Callers, At(d, "insert")', NEW b, b = call'[d].after PROVE Come(b)'
    <3>1. CASE d = c
      BY <1>6, <2>2, <2>3, <3>1
    <3>2. CASE d # c
      <4>1. Come(b)
        BY <2>3, <3>2 DEF TextInv, Pieces, At
      <4>2. b.of # c
        BY <1>1, <4>1 DEF Come
      <4>. QED
        BY <2>1, <4>1, <4>2
    <3>. QED
      BY <3>1, <3>2
  <2>. QED
    BY <2>2, <2>3 DEF Pieces, OnPage
<1>19. TextsKept'
  <2>1. \A d \in Callers \ {c} : \A b : Saw(d, b)' <=> Saw(d, b)
    BY DEF Saw
  <2>2. \A b : Kept(b) => Kept(b)'
    BY <1>14, <1>15, <2>1 DEF Kept, OnPage
  <2>3. \A d \in Callers : \A n \in 1..Batches :
          Filled(d)' \/ (At(d, "insert")' /\ n <= call'[d].done) =>
            Filled(d) \/ (At(d, "insert") /\ n <= call[d].done)
    BY <1>15 DEF At
  <2>. QED
    BY <2>2, <2>3 DEF TextInv, TextsKept
<1>. QED
  BY <1>12, <1>13, <1>16, <1>17, <1>18, <1>19 DEF TextInv

-----------------------------------------------------------------------------
(* At first the section has the text it had.                               *)
LEMMA InitText == Init => TextInv
<1>. SUFFICES ASSUME Init PROVE TextInv
  OBVIOUS
<1>1. PICK o, p, r : o = Block("old", 1) /\ p = Block("old", 2) /\ r = Block("rest", 1)
  OBVIOUS
<1>2. o \in Blocks /\ p \in Blocks /\ r \in Blocks
  BY <1>1, BlockTypes
<1>3. /\ page \in Seq(Blocks) /\ Len(page) = 3
      /\ page[1] = o /\ page[2] = p /\ page[3] = r /\ DOMAIN page = 1..3
  <2>1. page = <<o, p>> \o <<r>>
    BY <1>1 DEF Init, OldText
  <2>2. /\ <<o, p>> \in Seq(Blocks) /\ Len(<<o, p>>) = 2 /\ <<o, p>>[1] = o /\ <<o, p>>[2] = p
        /\ <<r>> \in Seq(Blocks) /\ Len(<<r>>) = 1 /\ <<r>>[1] = r
    BY <1>2
  <2>. QED
    BY <2>1, <2>2
<1>4. /\ o.of = "old" /\ o.n = 1 /\ p.of = "old" /\ p.n = 2 /\ r.of = "rest"
      /\ "old" \notin Callers /\ "rest" \notin Callers
  BY <1>1, StagedAssumption, BlockTypes
<1>5. \A c \in Callers :
        /\ call[c] = Idle /\ told[c] = "" /\ call[c].at = "idle" /\ call[c].seen = <<>>
        /\ call[c].after = o /\ call[c].done = 0
  BY <1>1 DEF Init, Idle
<1>6. Idle \in Calls
  BY <1>1, <1>2 DEF Idle, Calls
<1>7. Typed
  BY <1>3, <1>6 DEF Init, Typed
<1>8. PageInOrder
  <2>1. OnPage(r) /\ r.n = 1
    BY <1>1, <1>3, BlockTypes DEF OnPage
  <2>2. \A i \in 1..3 : i = 1 \/ i = 2 \/ i = 3
    OBVIOUS
  <2>3. o # p /\ p # r /\ o # r
    BY <1>4, <1>1, BlockTypes
  <2>. QED
    BY <1>1, <1>3, <1>4, <2>1, <2>2, <2>3 DEF PageInOrder
<1>9. Stages
  BY <1>1, <1>5 DEF Init, Stages, Standing, At, Reader, Early
<1>10. Pieces
  <2>1. \A i \in DOMAIN page : Come(page[i])
    <3>1. Come(o) /\ Come(p) /\ Come(r)
      BY <1>4 DEF Come
    <3>2. \A i \in 1..3 : i = 1 \/ i = 2 \/ i = 3
      OBVIOUS
    <3>. QED
      BY <1>3, <3>1, <3>2
  <2>2. \A c \in Callers : ~At(c, "insert")
    BY <1>5 DEF At
  <2>. QED
    BY <2>1, <2>2 DEF Pieces
<1>11. Sights /\ OneIsLast
  <2>1. \A c \in Callers : ~Reader(c) /\ \A x : ~Sees(c, x)
    <3>1. DOMAIN <<>> = {}
      OBVIOUS
    <3>. QED
      BY <1>5, <3>1 DEF Sees, Reader
  <2>. QED
    BY <2>1 DEF Sights, OneIsLast
<1>12. TextsKept
  <2>1. OnPage(o) /\ OnPage(p)
    BY <1>3 DEF OnPage
  <2>2. \A c \in Callers : ~Filled(c) /\ ~At(c, "insert")
    <3>1. \A c \in Callers : o # Block(c, Batches)
      BY <1>1, <1>4, BlockTypes
    <3>. QED
      BY <1>5, <3>1 DEF Filled, At
  <2>. QED
    BY <1>1, <2>1, <2>2 DEF TextsKept, Kept
<1>. QED
  BY <1>7, <1>8, <1>9, <1>10, <1>11, <1>12 DEF TextInv

(* A call, as the steps change it.                                         *)
LEMMA CallFields ==
  ASSUME Typed, NEW c \in Callers
  PROVE  /\ call[c] \in Calls /\ DOMAIN call = Callers
         /\ \A k \in {"idle", "prompt", "posted", "rejecting", "read", "insert", "delete",
                      "unlink", "over"} : [call[c] EXCEPT !.at = k] \in Calls
         /\ \A a \in Actions, k \in {"prompt", "posted", "read"} :
              [Idle EXCEPT !.at = k, !.action = a] \in Calls
<1>1. call[c] \in Calls /\ DOMAIN call = Callers
  BY DEF Typed
<1>2. Block("old", 1) \in Blocks
  BY BlockTypes
<1>3. Idle \in Calls
  BY <1>2 DEF Calls, Idle
<1>. QED
  BY <1>1, <1>3 DEF Calls

(* An error ends an execution.                                             *)
LEMMA FailedEnds ==
  ASSUME Typed, NEW c \in Callers, Failed(c)
  PROVE  /\ call' \in [Callers -> Calls] /\ \A d \in Callers \ {c} : call'[d] = call[d]
         /\ call'[c].at = "unlink" /\ call'[c].result = "failed"
         /\ call'[c].seen = call[c].seen /\ call'[c].after = call[c].after
<1>1. call \in [Callers -> Calls] /\ call[c] \in Calls
  BY DEF Typed
<1>2. call' = [call EXCEPT ![c] = [call[c] EXCEPT !.at = "unlink", !.result = "failed"]]
  BY <1>1 DEF Failed, Calls
<1>3. [call[c] EXCEPT !.at = "unlink", !.result = "failed"] \in Calls
  BY <1>1 DEF Calls
<1>. QED
  BY <1>1, <1>2, <1>3 DEF Calls

(* An error that leaves the page as it is.                                 *)
LEMMA FailedQuiet ==
  ASSUME TextInv, NEW c \in Callers, Executing(c), Failed(c),
         UNCHANGED <<page, told, staged, made, strayed>>
  PROVE  TextInv'
<1>1. /\ call' \in [Callers -> Calls] /\ \A d \in Callers \ {c} : call'[d] = call[d]
      /\ call'[c].at = "unlink" /\ call'[c].result = "failed"
      /\ call'[c].seen = call[c].seen /\ call'[c].after = call[c].after
  BY FailedEnds DEF TextInv
<1>2. Typed'
  BY <1>1 DEF TextInv, Typed
<1>. QED
  BY <1>1, <1>2, QuietKeeps DEF Early, At

(* The place of one call changes, or it begins.                            *)
LEMMA CallMoves ==
  ASSUME TextInv, NEW c \in Callers, NEW r \in Calls, call' = [call EXCEPT ![c] = r],
         r.seen = call[c].seen, r.after = call[c].after, r.done = call[c].done,
         r.at \in Early => call[c].at \in Early,
         r.at \notin {"insert", "delete", "unlink"},
         page' = page, strayed' = strayed, staged' \subseteq made', made' \subseteq Actions,
         told' \in [Callers -> {"", "done", "failed", "not found", "rejected"}],
         \A d \in Callers : told'[d] = "done" =>
           told[d] = "done" \/ (At(d, "unlink") /\ call[d].result = "done")
  PROVE  TextInv'
<1>1. call \in [Callers -> Calls] /\ page \in Seq(Blocks)
  BY DEF TextInv, Typed
<1>2. call' \in [Callers -> Calls] /\ call'[c] = r /\ \A d \in Callers \ {c} : call'[d] = call[d]
  BY <1>1
<1>3. Typed'
  BY <1>1, <1>2 DEF Typed
<1>. QED
  BY <1>2, <1>3, QuietKeeps DEF At

(* What is answered is what is said, once.                                 *)
LEMMA AnswerTypes ==
  ASSUME Typed, NEW c \in Callers, NEW w \in {"done", "failed", "not found", "rejected"},
         Answered(c, w)
  PROVE  /\ told' \in [Callers -> {"", "done", "failed", "not found", "rejected"}]
         /\ \A d \in Callers : told'[d] = "done" => told[d] = "done" \/ (d = c /\ w = "done")
  BY DEF Typed, Answered

(* Prompts, tool calls, and the beginning of an execution.                 *)
LEMMA BeginningsKeepText ==
  ASSUME TextInv, NEW c \in Callers,
         \/ c \in Users /\ (Prompt(c) \/ Choose(c) \/ RejectEnds(c))
         \/ c \in Agents /\ (ToolCall(c) \/ AgentRejects(c))
         \/ Begin(c)
  PROVE  TextInv'
<1>1. Typed /\ call[c] \in Calls /\ call \in [Callers -> Calls]
  BY DEF TextInv, Typed
<1>2. ASSUME NEW a \in Actions, NEW k \in {"prompt", "posted", "read"}, At(c, "idle"),
             call' = [call EXCEPT ![c] = [Idle EXCEPT !.at = k, !.action = a]],
             UNCHANGED <<page, staged, made, told, strayed>>
      PROVE  TextInv'
  <2>1. PICK r : r = [Idle EXCEPT !.at = k, !.action = a]
    OBVIOUS
  <2>2. r \in Calls
    BY <1>1, <2>1, CallFields
  <2>3. r.seen = call[c].seen /\ r.after = call[c].after /\ r.done = call[c].done /\ r.at = k
    BY <1>2, <2>1, EarlyHasNothing DEF Idle, At, Early
  <2>4. staged' \subseteq made' /\ made' \subseteq Actions /\ told' = told
        /\ told \in [Callers -> {"", "done", "failed", "not found", "rejected"}]
    BY <1>1, <1>2 DEF Typed
  <2>. QED
    BY <1>2, <2>1, <2>2, <2>3, <2>4, CallMoves DEF At, Early
<1>3. ASSUME NEW k \in {"posted", "rejecting", "read", "over"}, call[c].at \in Early,
             call' = [call EXCEPT ![c].at = k],
             page' = page, staged' \subseteq staged, made' = made, strayed' = strayed,
             told' = told \/ Answered(c, "not found") \/ Answered(c, "rejected")
      PROVE  TextInv'
  <2>1. PICK r : r = [call[c] EXCEPT !.at = k]
    OBVIOUS
  <2>2. /\ r \in Calls /\ r.seen = call[c].seen /\ r.after = call[c].after
        /\ r.done = call[c].done /\ r.at = k
    BY <1>1, <2>1 DEF Calls
  <2>3. call' = [call EXCEPT ![c] = r]
    BY <1>1, <1>3, <2>1
  <2>4. staged' \subseteq made' /\ made' \subseteq Actions
    BY <1>1, <1>3 DEF Typed
  <2>5. /\ told' \in [Callers -> {"", "done", "failed", "not found", "rejected"}]
        /\ \A d \in Callers : told'[d] = "done" => told[d] = "done"
    BY <1>1, <1>3, AnswerTypes DEF Typed
  <2>. QED
    <3>1. r.at \notin {"insert", "delete", "unlink"} /\ page' = page /\ strayed' = strayed
      BY <1>3, <2>2
    <3>. QED
      BY <1>3, <2>2, <2>3, <2>4, <2>5, <3>1, CallMoves
<1>4. CASE c \in Users /\ Prompt(c)
  BY <1>1, <1>2, <1>4 DEF Prompt, Typed, history
<1>5. CASE c \in Users /\ Choose(c)
  <2>1. call[c].at \in Early /\ UNCHANGED <<page, staged, made, told, strayed>>
    BY <1>5 DEF Choose, At, Early, history
  <2>. QED
    BY <1>3, <1>5, <2>1 DEF Choose
<1>6. CASE c \in Users /\ RejectEnds(c)
  <2>1. call[c].at \in Early /\ page' = page /\ made' = made /\ staged' \subseteq staged
        /\ strayed' = strayed
        /\ Answered(c, "rejected") /\ call' = [call EXCEPT ![c].at = "over"]
    BY <1>6 DEF RejectEnds, At, Early, history
  <2>. QED
    BY <1>3, <2>1
<1>7. CASE c \in Agents /\ ToolCall(c)
  <2>1. At(c, "idle") /\ UNCHANGED <<page, staged, made, told, strayed>>
    BY <1>7 DEF ToolCall, history
  <2>2. \E a \in Actions : \E k \in {"posted", "read"} :
          call' = [call EXCEPT ![c] = [Idle EXCEPT !.at = k, !.action = a]]
    BY <1>1, <1>7 DEF ToolCall, Typed, history
  <2>. QED
    BY <1>2, <2>1, <2>2
<1>8. CASE c \in Agents /\ AgentRejects(c)
  <2>1. call[c].at \in Early /\ UNCHANGED <<page, made, told, strayed>> /\ staged' \subseteq staged
        /\ call' = [call EXCEPT ![c].at = "over"]
    BY <1>8 DEF AgentRejects, At, Early, history
  <2>. QED
    BY <1>3, <2>1
<1>9. CASE Begin(c)
  <2>1. call[c].at \in Early /\ UNCHANGED <<page, staged, made, strayed>>
        /\ \E k \in {"read", "over"} : call' = [call EXCEPT ![c].at = k]
        /\ (told' = told \/ Answered(c, "not found"))
    BY <1>9 DEF Begin, At, Early
  <2>. QED
    BY <1>3, <2>1
<1>. QED
  BY <1>4, <1>5, <1>6, <1>7, <1>8, <1>9

(* The end of confirm_action.                                              *)
LEMMA UnlinkKeepsText ==
  ASSUME TextInv, NEW c \in Callers, Unlink(c)
  PROVE  TextInv'
<1>1. Typed /\ call[c] \in Calls /\ call \in [Callers -> Calls]
  BY DEF TextInv, Typed
<1>2. PICK r : r = [call[c] EXCEPT !.at = "over"]
  OBVIOUS
<1>3. /\ r \in Calls /\ r.seen = call[c].seen /\ r.after = call[c].after
      /\ r.done = call[c].done /\ r.at = "over"
  BY <1>1, <1>2 DEF Calls
<1>4. At(c, "unlink") /\ call' = [call EXCEPT ![c] = r] /\ page' = page /\ made' = made /\ strayed' = strayed
  BY <1>1, <1>2 DEF Unlink
<1>5. staged' \subseteq made' /\ made' \subseteq Actions
  BY <1>1, <1>4 DEF Unlink, Typed
<1>6. PICK w \in {"done", "failed"} : Answered(c, w) /\ (w = "done" => call[c].result = "done")
  BY <1>1 DEF Unlink, Calls
<1>7. /\ told' \in [Callers -> {"", "done", "failed", "not found", "rejected"}]
      /\ \A d \in Callers : told'[d] = "done" =>
           told[d] = "done" \/ (At(d, "unlink") /\ call[d].result = "done")
  BY <1>1, <1>4, <1>6, AnswerTypes
<1>. QED
  BY <1>3, <1>4, <1>5, <1>7, CallMoves DEF Early

(* Steps that move no call.                                                *)
LEMMA OthersKeepText ==
  ASSUME TextInv, call' = call, page' = page, strayed' = strayed,
         staged' \subseteq made', made' \subseteq Actions,
         told' \in [Callers -> {"", "done", "failed", "not found", "rejected"}],
         \A d \in Callers : told'[d] = "done" => told[d] = "done"
  PROVE  TextInv'
<1>1. Typed'
  BY DEF TextInv, Typed
<1>. QED
  BY <1>1, QuietKeeps DEF At

(* The server dies: every execution is over where it is.                   *)
LEMMA DeathKeepsText ==
  ASSUME TextInv, Death
  PROVE  TextInv'
<1>1. Typed
  BY DEF TextInv
<1>2. \A c \in Callers :
        call[c] \in Calls /\ told[c] \in {"", "done", "failed", "not found", "rejected"}
  BY <1>1 DEF Typed
<1>3. \A c \in Callers : [call[c] EXCEPT !.at = "over"] \in Calls
  BY <1>1, CallFields
<1>4. /\ DOMAIN call' = Callers /\ page' = page /\ staged' = staged /\ made' = made
      /\ strayed' = strayed
      /\ \A c \in Callers :
           \/ call'[c] = [call[c] EXCEPT !.at = "over"]
           \/ call'[c] = call[c]
  BY DEF Death
<1>5. call' \in [Callers -> Calls]
  <2>1. call' = [c \in Callers |-> call'[c]]
    BY DEF Death
  <2>. QED
    BY <1>2, <1>3, <1>4, <2>1
<1>6. /\ told' \in [Callers -> {"", "done", "failed", "not found", "rejected"}]
      /\ \A c \in Callers : told'[c] = "done" => told[c] = "done"
  BY <1>2 DEF Death
<1>7. Typed'
  BY <1>1, <1>4, <1>5, <1>6 DEF Typed
<1>8. ASSUME NEW c \in Callers
      PROVE  /\ call'[c].seen = call[c].seen /\ call'[c].after = call[c].after
             /\ call'[c].at \in Early =>
                  call[c].at \in Early /\ call'[c].done = call[c].done
             /\ call'[c].at \in {"insert", "delete"} =>
                  call'[c].at = call[c].at /\ call'[c].done = call[c].done
             /\ call'[c].at = "unlink" /\ call'[c].result = "done" =>
                  At(c, "unlink") /\ call[c].result = "done"
  <2>1. CASE call'[c] = call[c]
    BY <2>1 DEF At
  <2>2. CASE call'[c] = [call[c] EXCEPT !.at = "over"]
    BY <1>2, <2>2 DEF Calls, Early
  <2>. QED
    BY <1>4, <2>1, <2>2
<1>. QED
  BY <1>4, <1>6, <1>7, <1>8, QuietKeeps

-----------------------------------------------------------------------------
(* The page is read.                                                       *)
LEMMA ReadPageKeepsText ==
  ASSUME TextInv, NEW c \in Callers, ReadPage(c)
  PROVE  TextInv'
<1>1. At(c, "read") /\ UNCHANGED <<page, told, staged, made, strayed>>
  BY DEF ReadPage, history
<1>2. CASE Cardinality(HeadingsOf(page)) = 1
  <2>1. HeadingsOf(page) # {}
    BY <1>2, FS_EmptySet
  <2>2. Section(page) \in Seq(Blocks) /\ Last(Section(page)) \in Blocks
    BY <2>1, SectionTypes
  <2>3. PICK r : r = [call[c] EXCEPT !.at = "insert", !.seen = Section(page),
                                     !.after = Last(Section(page))]
    OBVIOUS
  <2>4. call[c] \in Calls /\ call \in [Callers -> Calls]
    BY DEF TextInv, Typed
  <2>5. call' = [call EXCEPT ![c] = r]
    BY <1>2, <2>3, <2>4 DEF ReadPage, After
  <2>6. r \in Calls /\ r.at = "insert" /\ r.seen = Section(page)
        /\ r.after = Last(Section(page)) /\ r.done = call[c].done
    BY <2>2, <2>3, <2>4 DEF Calls
  <2>7. call' \in [Callers -> Calls] /\ call'[c] = r
        /\ \A d \in Callers \ {c} : call'[d] = call[d]
    BY <2>4, <2>5, <2>6
  <2>8. Typed'
    BY <1>1, <2>7 DEF TextInv, Typed
  <2>9. call[c].done = 0
    BY <1>1 DEF TextInv, Stages, Standing, At, Early
  <2>. QED
    BY <1>1, <2>1, <2>6, <2>7, <2>8, <2>9, ReadKeeps
<1>3. CASE Cardinality(HeadingsOf(page)) # 1
  <2>1. Failed(c) /\ Executing(c)
    BY <1>1, <1>3 DEF ReadPage, Executing, At
  <2>. QED
    BY <1>1, <2>1, FailedQuiet
<1>. QED
  BY <1>2, <1>3

(* A piece is inserted, or there is nothing to insert it after.            *)
LEMMA InsertKeepsText ==
  ASSUME TextInv, NEW c \in Callers, Insert(c)
  PROVE  TextInv'
<1>1. At(c, "insert") /\ UNCHANGED <<told, staged, made>>
  BY DEF Insert
<1>2. CASE ~OnPage(call[c].after)
  <2>1. Failed(c) /\ page' = page /\ Executing(c) /\ strayed' = strayed
    BY <1>1, <1>2 DEF Insert, Executing, At
  <2>. QED
    BY <1>1, <2>1, FailedQuiet
<1>3. CASE OnPage(call[c].after)
  <2>1. PICK new : new = Block(c, call[c].done + 1)
    OBVIOUS
  <2>2. call[c] \in Calls /\ call \in [Callers -> Calls] /\ call[c].done \in Nat
    BY DEF TextInv, Typed, Calls
  <2>3. new \in Blocks /\ new.n = call[c].done + 1
    BY <2>1, <2>2, BlockTypes
  <2>4. PICK last \in Chained(new) :
          /\ page' = PutAfter(call[c].after, new)
          /\ strayed' = IF last = new THEN strayed ELSE strayed \cup {c}
          /\ call' = [call EXCEPT ![c] =
               [call[c] EXCEPT !.after = last,
                               !.done = IF new.n = Batches THEN 0 ELSE new.n,
                               !.at = IF new.n = Batches THEN After("insert") ELSE @]]
    BY <1>3, <2>1 DEF Insert
  <2>5. page' \in Seq(Blocks)
    <3>1. strayed \subseteq strayed'
      BY <2>4
    <3>. QED
      BY <1>1, <1>3, <2>1, <2>4, <3>1, PutOnPage DEF TextInv
  <2>6. last = new \/ (new.n # Batches /\ OnPage(last))
    BY DEF Chained, Range, OnPage
  <2>7. last \in Blocks
    BY <2>3, <2>6, PageFacts DEF OnPage, TextInv
  <2>8. PICK n \in Nat : n = IF new.n = Batches THEN 0 ELSE new.n
    BY <2>2, <2>3
  <2>9. PICK k \in {"delete", "insert"} :
           k = IF new.n = Batches THEN "delete" ELSE "insert"
    OBVIOUS
  <2>10. PICK r : r = [call[c] EXCEPT !.after = last, !.done = n, !.at = k]
    OBVIOUS
  <2>11. call' = [call EXCEPT ![c] = r]
    BY <1>1, <2>2, <2>4, <2>8, <2>9, <2>10 DEF After, At, Calls
  <2>12. /\ r \in Calls /\ r.seen = call[c].seen /\ r.after = last
         /\ r.done = n /\ r.at = k
    BY <2>2, <2>7, <2>10 DEF Calls
  <2>13. call' \in [Callers -> Calls] /\ call'[c] = r
         /\ \A d \in Callers \ {c} : call'[d] = call[d]
    BY <2>2, <2>11, <2>12
  <2>14. Typed'
    BY <1>1, <2>5, <2>13 DEF TextInv, Typed
  <2>15. \/ /\ call[c].done + 1 = Batches
            /\ call'[c].after = Block(c, call[c].done + 1) /\ strayed' = strayed
            /\ call'[c].at = "delete" /\ call'[c].done = 0
         \/ /\ call[c].done + 1 # Batches
            /\ call'[c].at = "insert" /\ call'[c].done = call[c].done + 1
            /\ \/ call'[c].after = Block(c, call[c].done + 1) /\ strayed' = strayed
               \/ OnPage(call'[c].after) /\ strayed' = strayed \cup {c}
    BY <2>1, <2>3, <2>4, <2>6, <2>8, <2>9, <2>12, <2>13
  <2>. QED
    BY <1>1, <1>3, <2>1, <2>4, <2>12, <2>13, <2>14, <2>15, PutKeeps
<1>. QED
  BY <1>2, <1>3

(* What is deleted stands before what follows the section.                 *)
LEMMA DeletesText ==
  ASSUME TextInv, NEW c \in Callers, At(c, "delete"),
         page' = Trashed(call[c].seen[call[c].done + 1]), strayed' = strayed
  PROVE  page' \in Seq(Blocks)
<1>1. call[c].done + 1 \in DOMAIN call[c].seen
  BY PageFacts DEF TextInv, Stages, Standing
<1>2. call[c].seen[call[c].done + 1].of # "rest"
  BY <1>1 DEF TextInv, Sights, Sees
<1>. QED
  BY <1>2, TrashFromPage DEF TextInv

(* A block is deleted, or was gone.                                        *)
LEMMA DeleteKeepsText ==
  ASSUME TextInv, NEW c \in Callers, Delete(c)
  PROVE  TextInv'
<1>1. At(c, "delete") /\ UNCHANGED <<told, staged, made, strayed>>
      /\ page' = Trashed(call[c].seen[call[c].done + 1])
  BY DEF Delete, history
<1>2. page' \in Seq(Blocks)
  BY <1>1, DeletesText
<1>3. CASE Failed(c)
  <2>1. /\ call' \in [Callers -> Calls] /\ \A d \in Callers \ {c} : call'[d] = call[d]
        /\ call'[c].at = "unlink" /\ call'[c].seen = call[c].seen
        /\ call'[c].after = call[c].after
    BY <1>3, FailedEnds DEF TextInv
  <2>2. Typed'
    BY <1>1, <1>2, <2>1 DEF TextInv, Typed
  <2>. QED
    BY <1>1, <2>1, <2>2, TrashKeeps
<1>4. CASE ~Failed(c)
  <2>. DEFINE end == call[c].done + 1 = Len(call[c].seen)
  <2>1. call[c] \in Calls /\ call \in [Callers -> Calls] /\ call[c].done \in Nat
    BY DEF TextInv, Typed, Calls
  <2>2. PICK n \in Nat : n = IF end THEN 0 ELSE call[c].done + 1
    BY <2>1
  <2>3. PICK k \in {"unlink", "delete"} : k = IF end THEN "unlink" ELSE "delete"
    OBVIOUS
  <2>4. PICK r : r = [call[c] EXCEPT !.done = n, !.at = k]
    OBVIOUS
  <2>5. call' = [call EXCEPT ![c] = r]
    BY <1>1, <1>4, <2>4, <2>1, <2>2, <2>3 DEF Delete, After, At, Calls
  <2>6. /\ r \in Calls /\ r.seen = call[c].seen /\ r.after = call[c].after
        /\ r.done = n /\ r.at = k
    BY <2>4, <2>1 DEF Calls
  <2>7. call' \in [Callers -> Calls] /\ call'[c] = r
        /\ \A d \in Callers \ {c} : call'[d] = call[d]
    BY <2>1, <2>5, <2>6
  <2>8. Typed'
    BY <1>1, <1>2, <2>7 DEF TextInv, Typed
  <2>. QED
    BY <1>1, <2>6, <2>7, <2>8, <2>2, <2>3, TrashKeeps
<1>. QED
  BY <1>3, <1>4

(* A request fails, with its effect or without.                            *)
LEMMA RequestFailsKeepsText ==
  ASSUME TextInv, NEW c \in Callers, RequestFails(c)
  PROVE  TextInv'
<1>1. Failed(c) /\ Executing(c) /\ UNCHANGED <<told, staged, made, strayed>>
  BY DEF RequestFails, Executing, history
<1>2. /\ call' \in [Callers -> Calls] /\ \A d \in Callers \ {c} : call'[d] = call[d]
      /\ call'[c].at = "unlink" /\ call'[c].result = "failed"
      /\ call'[c].seen = call[c].seen /\ call'[c].after = call[c].after
  BY <1>1, FailedEnds DEF TextInv
<1>3. CASE page' = page
  BY <1>1, <1>3, FailedQuiet
<1>4. CASE /\ At(c, "insert") /\ OnPage(call[c].after)
           /\ page' = PutAfter(call[c].after, Block(c, call[c].done + 1))
  <2>1. page' \in Seq(Blocks)
    BY <1>1, <1>4, PutOnPage DEF TextInv
  <2>2. Typed'
    BY <1>1, <1>2, <2>1 DEF TextInv, Typed
  <2>. QED
    BY <1>1, <1>2, <1>4, <2>2, PutKeeps
<1>5. CASE At(c, "delete") /\ page' = Trashed(call[c].seen[call[c].done + 1])
  <2>1. page' \in Seq(Blocks)
    BY <1>1, <1>5, DeletesText
  <2>2. Typed'
    BY <1>1, <1>2, <2>1 DEF TextInv, Typed
  <2>. QED
    BY <1>1, <1>2, <1>5, <2>2, TrashKeeps
<1>. QED
  BY <1>3, <1>4, <1>5 DEF RequestFails

-----------------------------------------------------------------------------
(* Every step keeps it.                                                    *)
LEMMA NextText == TextInv /\ [Next]_vars => TextInv'
<1>. SUFFICES ASSUME TextInv, [Next]_vars PROVE TextInv'
  OBVIOUS
<1>1. Typed
  BY DEF TextInv
<1>2. CASE UNCHANGED vars
  BY <1>1, <1>2, OthersKeepText DEF vars, Typed, history
<1>3. ASSUME NEW a \in Actions, Stage(a) PROVE TextInv'
  BY <1>1, <1>3, OthersKeepText DEF Stage, Typed, history
<1>4. ASSUME NEW u \in Users, Prompt(u) \/ Choose(u) \/ RejectEnds(u) PROVE TextInv'
  BY <1>4, UsersCall, BeginningsKeepText
<1>5. ASSUME NEW u \in Users, GiveUp(u) \/ RejectServed(u) PROVE TextInv'
  BY <1>1, <1>5, UsersCall, OthersKeepText DEF GiveUp, RejectServed, Typed, history
<1>6. ASSUME NEW g \in Agents, ToolCall(g) \/ AgentRejects(g) PROVE TextInv'
  BY <1>6, BeginningsKeepText DEF Callers
<1>7. ASSUME NEW c \in Callers, Begin(c) PROVE TextInv'
  BY <1>7, BeginningsKeepText
<1>8. ASSUME NEW c \in Callers,
             ReadPage(c) \/ Insert(c) \/ Delete(c) \/ RequestFails(c) \/ Unlink(c)
      PROVE  TextInv'
  BY <1>8, ReadPageKeepsText, InsertKeepsText, DeleteKeepsText, RequestFailsKeepsText,
     UnlinkKeepsText
<1>9. CASE Death
  BY <1>9, DeathKeepsText
<1>. QED
  BY <1>2, <1>3, <1>4, <1>5, <1>6, <1>7, <1>8, <1>9 DEF Next

(* A text all pieces of which are on the page is there in order.           *)
LEMMA PresentWhenOnPage ==
  ASSUME TextInv, NEW t, t # "rest", NEW m, \A n \in 1..m : OnPage(Block(t, n))
  PROVE  Present(t, m)
<1>. SUFFICES ASSUME t \notin strayed, NEW i \in DOMAIN page, NEW j \in DOMAIN page, i < j,
                     page[j].of = t
              PROVE  page[i].of # "rest" /\ (page[i].of = t => page[i].n < page[j].n)
  BY DEF Present, Whole, InPlace
<1>. QED
  BY DEF TextInv, PageInOrder

(* However many prompts and tools replace a section at once, whatever      *)
(* requests fail, with their effect or without, whatever block is named in *)
(* an answer, and wherever the server dies: of the executions that came to *)
(* deleting there is one that read last, and nobody has deleted its text.  *)
(* It is in its place unless its own execution strayed (_execute,          *)
(* notion.py:168-231).                                                     *)
THEOREM TextSurvives == Spec => []SomeTextIsThere
<1>1. TextInv => SomeTextIsThere
  <2>. SUFFICES ASSUME TextInv PROVE SomeTextIsThere
    OBVIOUS
  <2>1. "old" # "rest" /\ "rest" \notin Callers
    BY StagedAssumption
  <2>2. CASE \A c \in Callers : ~Filled(c)
    <3>1. OnPage(Block("old", 1)) /\ OnPage(Block("old", 2))
      BY <2>2 DEF TextInv, TextsKept, Kept
    <3>2. \A n \in 1..2 : n = 1 \/ n = 2
      OBVIOUS
    <3>3. Present("old", 2)
      BY <2>1, <3>1, <3>2, PresentWhenOnPage
    <3>. QED
      BY <3>3 DEF SomeTextIsThere
  <2>3. CASE \E c \in Callers : Filled(c)
    <3>. DEFINE S == {c \in Callers : Filled(c)}
    <3>1. \A c \in S : Reader(c)
      BY StagedAssumption, BlockTypes DEF TextInv, Stages, Standing, Filled
    <3>2. PICK c \in S : \A d \in S : ~Sees(d, c)
      BY <2>3, <3>1 DEF TextInv, OneIsLast
    <3>3. \A n \in 1..Batches : OnPage(Block(c, n))
      <4>. SUFFICES ASSUME NEW n \in 1..Batches PROVE OnPage(Block(c, n))
        OBVIOUS
      <4>1. Kept(Block(c, n))
        BY DEF TextInv, TextsKept
      <4>2. \A d \in S : ~Saw(d, Block(c, n))
        BY <3>2, BlockTypes DEF Saw, Sees
      <4>. QED
        BY <4>1, <4>2 DEF Kept
    <3>4. Present(c, Batches)
      BY <2>1, <3>3, PresentWhenOnPage
    <3>. QED
      BY <3>4 DEF SomeTextIsThere
  <2>. QED
    BY <2>2, <2>3
<1>2. Spec => []TextInv
  BY InitText, NextText, PTL DEF Spec
<1>. QED
  BY <1>1, <1>2, PTL

(* Whoever is told that the section was replaced finds the text there, or  *)
(* another execution read some of it to replace it: what is told is told   *)
(* after the last piece went in, and the pieces are in their place unless  *)
(* the execution strayed (_execute, notion.py:168-231).                    *)
THEOREM ToldTextIsThere == Spec => []ReplacedIsThere
<1>1. TextInv => ReplacedIsThere
  <2>. SUFFICES ASSUME TextInv, NEW c \in Callers, told[c] = "done",
                       \A d \in Callers \ {c} : ~Sees(d, c)
                PROVE  Present(c, Batches)
    BY DEF ReplacedIsThere, Sees
  <2>1. Filled(c) /\ "rest" \notin Callers
    BY StagedAssumption DEF TextInv, Stages, Standing
  <2>2. ~Sees(c, c)
    <3>1. CASE Reader(c)
      <4>1. \E d \in {c} : \A e \in {c} : ~Sees(e, d)
        BY <3>1 DEF TextInv, OneIsLast
      <4>. QED
        BY <4>1
    <3>2. CASE ~Reader(c)
      BY <3>2 DEF TextInv, Sights
    <3>. QED
      BY <3>1, <3>2
  <2>3. \A n \in 1..Batches : OnPage(Block(c, n))
    <3>. SUFFICES ASSUME NEW n \in 1..Batches PROVE OnPage(Block(c, n))
      OBVIOUS
    <3>1. Kept(Block(c, n))
      BY <2>1 DEF TextInv, TextsKept
    <3>2. \A d \in Callers : ~Saw(d, Block(c, n))
      BY <2>2, BlockTypes DEF Saw, Sees
    <3>. QED
      BY <3>1, <3>2 DEF Kept
  <2>. QED
    BY <2>1, <2>3, PresentWhenOnPage
<1>2. Spec => []TextInv
  BY InitText, NextText, PTL DEF Spec
<1>. QED
  BY <1>1, <1>2, PTL
=============================================================================

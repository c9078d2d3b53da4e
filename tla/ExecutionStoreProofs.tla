------------------------- MODULE ExecutionStoreProofs -------------------------
(* Proofs about ExecutionStore, for any number of runs, executions, calls and *)
(* sessions and any bound on the failed writes.                               *)
EXTENDS ExecutionStore, TLAPS

-----------------------------------------------------------------------------
(* What the operators the actions are built from do to the types. *)

\* The top of a run's stack is an execution, or there is none.
LEMMA CurrentType ==
    ASSUME TypeOK, NEW r \in Runs
    PROVE  Current(r) \in Execs \union {NoExec}
  BY DEF TypeOK, Current

\* RunContext.start_execution keeps the stacks stacks of executions.
LEMMA PushType ==
    ASSUME TypeOK, NEW r \in Runs, NEW e \in Execs, Push(r, e)
    PROVE  stack' \in [Runs -> Seq(Execs)]
<1>1. stack \in [Runs -> Seq(Execs)]
  BY DEF TypeOK
<1>2. Append(stack[r], e) \in Seq(Execs)
  BY <1>1
<1> QED BY <1>1, <1>2 DEF Push

\* So does RunContext.finish_execution, whichever execution it is called with.
LEMMA PopType ==
    ASSUME TypeOK, NEW r \in Runs, NEW e \in Execs, Pop(r, e)
    PROVE  stack' \in [Runs -> Seq(Execs)]
<1>1. stack \in [Runs -> Seq(Execs)]
  BY DEF TypeOK
<1>2. ASSUME Current(r) = e PROVE SubSeq(stack[r], 1, Len(stack[r]) - 1) \in Seq(Execs)
  <2>1. stack[r] # <<>>
    BY <1>2, NoValuesAssumption DEF Current
  <2> QED BY <1>1, <2>1
<1> QED BY <1>1, <1>2 DEF Pop

\* A failed write is counted up to the bound.
LEMMA WriteType ==
    ASSUME TypeOK, NEW landed \in BOOLEAN, Write(landed)
    PROVE  lost' \in 0 .. MaxLost
  BY MaxLostAssumption DEF TypeOK, Write

\* persist_checkpoint appends a status to the checkpoints of one run.
LEMMA CheckpointType ==
    ASSUME TypeOK, NEW r \in Runs, NEW status \in RunStatus, Checkpoint(r, status)
    PROVE  checkpoints' \in [Runs -> Seq(RunStatus)] /\ lost' \in 0 .. MaxLost
<1>1. checkpoints \in [Runs -> Seq(RunStatus)]
  BY DEF TypeOK
<1>2. Append(checkpoints[r], status) \in Seq(RunStatus)
  BY <1>1
<1>3. PICK landed \in BOOLEAN :
        /\ Write(landed)
        /\ checkpoints' = [checkpoints EXCEPT ![r] =
              IF landed /\ runRow[r] # "none" THEN Append(@, status) ELSE @]
  BY DEF Checkpoint
<1>4. checkpoints' \in [Runs -> Seq(RunStatus)]
  BY <1>1, <1>2, <1>3
<1> QED BY <1>3, <1>4, WriteType

\* A new execution is a record of the right shape.
LEMMA MintType ==
    ASSUME TypeOK, NEW r \in Runs, NEW e \in Execs, NEW parent \in Execs \union {NoExec},
           NEW kind \in {"coordinator", "delegation"}, Mint(r, e, parent, kind)
    PROVE  exec' \in [Execs -> ExecutionRecord] /\ Minted' = Minted \union {e}
<1>1. exec' \in [Execs -> ExecutionRecord]
  BY DEF TypeOK, Mint, ExecutionRecord, RunStatus
<1>2. Minted' = Minted \union {e}
  BY DEF TypeOK, Mint, Minted, ExecutionRecord
<1> QED BY <1>1, <1>2

\* finish_execution gives a minted execution its end.
LEMMA FinishType ==
    ASSUME TypeOK, NEW e \in Minted, NEW status \in {"ok", "failed"},
           exec' = [exec EXCEPT ![e].status = status]
    PROVE  exec' \in [Execs -> ExecutionRecord] /\ Minted' = Minted
<1>1. exec \in [Execs -> ExecutionRecord] /\ e \in Execs /\ exec[e] \in ExecutionRecord
  BY DEF TypeOK, Minted
<1>2. [exec[e] EXCEPT !.status = status] \in ExecutionRecord
  BY <1>1 DEF ExecutionRecord, RunStatus
<1>3. exec' = [exec EXCEPT ![e] = [exec[e] EXCEPT !.status = status]]
  BY <1>1
<1>4. exec' \in [Execs -> ExecutionRecord]
  BY <1>1, <1>2, <1>3
<1>5. exec'[e].status = status /\ \A f \in Execs \ {e} : exec'[f] = exec[f]
  BY <1>1 DEF ExecutionRecord
<1>6. Minted' = Minted
  BY <1>5 DEF Minted
<1> QED BY <1>4, <1>6

\* persist_execution_created and persist_execution_completed write statuses.
LEMMA ExecWriteType ==
    ASSUME TypeOK, NEW e \in Minted, ExecCreated(e) \/ ExecCompleted(e)
    PROVE  execRow' \in [Execs -> RunStatus \union {"none"}] /\ lost' \in 0 .. MaxLost
<1>1. PICK landed \in BOOLEAN, new \in RunStatus \union {"none"} :
        Write(landed) /\ execRow' = [execRow EXCEPT ![e] = new]
  <2>1. /\ execRow[e] \in RunStatus \union {"none"} /\ "running" \in RunStatus
        /\ exec[e].status \in RunStatus
    BY DEF TypeOK, RunStatus, ExecutionRecord, Minted
  <2>2. CASE ExecCreated(e)
    BY <2>1, <2>2 DEF ExecCreated
  <2>3. CASE ExecCompleted(e)
    BY <2>1, <2>3 DEF ExecCompleted
  <2> QED BY <2>2, <2>3
<1>2. execRow' \in [Execs -> RunStatus \union {"none"}]
  BY <1>1 DEF TypeOK
<1> QED BY <1>1, <1>2, WriteType

\* A hook moves on to a stage its call is ready for: the call's record and
\* the ids it holds stay well formed.
LEMMA StageType ==
    ASSUME TypeOK, NEW c \in Calls, NEW stage \in Stage \ {"unborn"}, SetStage(c, stage),
           call[c].run \in Runs, UNCHANGED <<pc, attempt, exec>>,
           stage \in {"created", "opening", "finishing", "closing"}
              => call[c].kind = "delegation",
           call[c].kind = "delegation" /\ stage \notin {"creating", "created", "abandoned"}
              => call[c].child \in Minted
    PROVE  call' \in [Calls -> ToolCallRecord] /\ IdsMinted'
<1>1. call \in [Calls -> ToolCallRecord] /\ call[c] \in ToolCallRecord
  BY DEF TypeOK
<1>2. [call[c] EXCEPT !.stage = stage] \in ToolCallRecord
  BY <1>1 DEF ToolCallRecord
<1>3. call' \in [Calls -> ToolCallRecord]
  BY <1>2 DEF TypeOK, SetStage
<1>4. /\ call'[c].stage = stage /\ call'[c].run = call[c].run
      /\ call'[c].kind = call[c].kind /\ call'[c].child = call[c].child
      /\ \A d \in Calls \ {c} : call'[d] = call[d]
  BY <1>1 DEF SetStage, ToolCallRecord
<1>5. IdsMinted
  BY DEF TypeOK
<1>6. IdsMinted'
  BY <1>4, <1>5 DEF IdsMinted, Minted
<1> QED BY <1>3, <1>6

-----------------------------------------------------------------------------
(* Type correctness *)

\* Every step of a run, of a hook or of the session store keeps every variable
\* in its type.
LEMMA NextType == TypeOK /\ [Next]_vars => TypeOK'
<1> SUFFICES ASSUME TypeOK, [Next]_vars PROVE TypeOK'
  OBVIOUS
<1> IdsMinted
  BY DEF TypeOK
<1>1. ASSUME NEW r \in Runs, NEW s \in Sessions \union {NoSession}, NEW e \in Execs,
             BeginRun(r, s, e)
      PROVE  TypeOK'
  <2>1. stack' \in [Runs -> Seq(Execs)]
    BY <1>1, PushType DEF BeginRun
  <2>2. exec' \in [Execs -> ExecutionRecord] /\ Minted' = Minted \union {e}
    BY <1>1, MintType DEF BeginRun
  <2>3. IdsMinted'
    BY <1>1, <2>2 DEF BeginRun, Goto, IdsMinted, TypeOK
  <2> QED BY <1>1, <2>1, <2>2, <2>3 DEF TypeOK, BeginRun, Goto, durable
<1>2. ASSUME NEW r \in Runs, PersistRunStarted(r) PROVE TypeOK'
  <2>1. attempt[r] \in Execs \union {NoExec} /\ "running" \in RunStatus
    BY DEF TypeOK, RunStatus
  <2>2. PICK landed \in BOOLEAN, done \in BOOLEAN :
          /\ Write(landed)
          /\ runRow' = [runRow EXCEPT ![r] = IF done THEN "running" ELSE @]
          /\ execRow' = [execRow EXCEPT ![attempt[r]] = IF done THEN "running" ELSE @]
    BY <1>2 DEF PersistRunStarted
  <2>3. runRow' \in [Runs -> RunStatus \union {"none"}]
    BY <2>1, <2>2 DEF TypeOK
  <2>4. execRow' \in [Execs -> RunStatus \union {"none"}]
    BY <2>1, <2>2 DEF TypeOK
  <2>5. lost' \in 0 .. MaxLost
    BY <2>2, WriteType
  <2>6. IdsMinted'
    BY <1>2 DEF Minted, PersistRunStarted, At, Goto, IdsMinted, TypeOK
  <2> QED BY <1>2, <2>3, <2>4, <2>5, <2>6 DEF TypeOK, PersistRunStarted, Goto
<1>3. ASSUME NEW r \in Runs, PersistBaselineCheckpoint(r) PROVE TypeOK'
  <2>1. checkpoints' \in [Runs -> Seq(RunStatus)] /\ lost' \in 0 .. MaxLost
    BY <1>3, CheckpointType DEF PersistBaselineCheckpoint, RunStatus
  <2>2. IdsMinted'
    BY <1>3 DEF Minted, PersistBaselineCheckpoint, At, Goto, IdsMinted, TypeOK
  <2> QED BY <1>3, <2>1, <2>2 DEF TypeOK, PersistBaselineCheckpoint, Goto
<1>4. ASSUME NEW r \in Runs, NEW status \in {"ok", "failed"}, FinishAttempt(r, status)
      PROVE  TypeOK'
  <2>1. attempt[r] \in Minted /\ attempt[r] \in Execs
    BY <1>4 DEF FinishAttempt, At, IdsMinted, Minted
  <2>2. stack' \in [Runs -> Seq(Execs)]
    BY <1>4, <2>1, PopType DEF FinishAttempt
  <2>3. exec' \in [Execs -> ExecutionRecord] /\ Minted' = Minted
    BY <1>4, <2>1, FinishType DEF FinishAttempt
  <2>4. IdsMinted'
    BY <1>4, <2>3 DEF FinishAttempt, At, Goto, IdsMinted, TypeOK
  <2> QED BY <1>4, <2>2, <2>3, <2>4 DEF TypeOK, FinishAttempt, Goto, durable
<1>5. ASSUME NEW r \in Runs, PersistAttemptCompleted(r) PROVE TypeOK'
  <2>1. attempt[r] \in Minted
    BY <1>5 DEF PersistAttemptCompleted, At, IdsMinted
  <2>2. execRow' \in [Execs -> RunStatus \union {"none"}] /\ lost' \in 0 .. MaxLost
    BY <1>5, <2>1, ExecWriteType DEF PersistAttemptCompleted
  <2>3. IdsMinted'
    BY <1>5 DEF Minted, PersistAttemptCompleted, At, Goto, IdsMinted, TypeOK
  <2> QED BY <1>5, <2>2, <2>3 DEF TypeOK, PersistAttemptCompleted, Goto
<1>6. ASSUME NEW r \in Runs, NEW e \in Execs, StartRetry(r, e) PROVE TypeOK'
  <2>1. PICK root \in Execs : Mint(r, e, root, "coordinator")
    BY <1>6 DEF StartRetry
  <2>2. stack' \in [Runs -> Seq(Execs)]
    BY <1>6, PushType DEF StartRetry
  <2>3. exec' \in [Execs -> ExecutionRecord] /\ Minted' = Minted \union {e}
    BY <2>1, MintType
  <2>4. IdsMinted'
    BY <1>6, <2>3 DEF StartRetry, Goto, IdsMinted, TypeOK
  <2> QED BY <1>6, <2>2, <2>3, <2>4 DEF TypeOK, StartRetry, Goto, durable
<1>7. ASSUME NEW r \in Runs, PersistRetryCreated(r) PROVE TypeOK'
  <2>1. attempt[r] \in Minted
    BY <1>7 DEF PersistRetryCreated, At, IdsMinted
  <2>2. execRow' \in [Execs -> RunStatus \union {"none"}] /\ lost' \in 0 .. MaxLost
    BY <1>7, <2>1, ExecWriteType DEF PersistRetryCreated
  <2>3. IdsMinted'
    BY <1>7 DEF Minted, PersistRetryCreated, At, Goto, IdsMinted, TypeOK
  <2> QED BY <1>7, <2>2, <2>3 DEF TypeOK, PersistRetryCreated, Goto
<1>8. ASSUME NEW r \in Runs, NEW status \in {"ok", "failed"}, PersistRunCompleted(r, status)
      PROVE  TypeOK'
  <2>1. PICK landed \in BOOLEAN :
          /\ Write(landed)
          /\ runRow' = [runRow EXCEPT ![r] = IF landed /\ @ # "none" THEN status ELSE @]
    BY <1>8 DEF PersistRunCompleted
  <2>2. runRow' \in [Runs -> RunStatus \union {"none"}] /\ lost' \in 0 .. MaxLost
    <3>1. runRow \in [Runs -> RunStatus \union {"none"}] /\ status \in RunStatus
      BY DEF TypeOK, RunStatus
    <3>2. runRow' \in [Runs -> RunStatus \union {"none"}]
      BY <2>1, <3>1
    <3> QED BY <2>1, <3>2, WriteType
  <2>3. outcome' \in [Runs -> RunStatus]
    BY <1>8 DEF PersistRunCompleted, TypeOK, RunStatus
  <2>4. IdsMinted'
    BY <1>8 DEF Minted, PersistRunCompleted, At, Goto, IdsMinted, TypeOK
  <2> QED BY <1>8, <2>2, <2>3, <2>4 DEF TypeOK, PersistRunCompleted, Goto
<1>9. ASSUME NEW r \in Runs, PersistTerminalCheckpoint(r) PROVE TypeOK'
  <2>1. outcome[r] \in RunStatus
    BY DEF TypeOK
  <2>2. checkpoints' \in [Runs -> Seq(RunStatus)] /\ lost' \in 0 .. MaxLost
    BY <1>9, <2>1, CheckpointType DEF PersistTerminalCheckpoint
  <2>3. IdsMinted'
    BY <1>9 DEF Minted, PersistTerminalCheckpoint, At, Goto, IdsMinted, TypeOK
  <2> QED BY <1>9, <2>2, <2>3 DEF TypeOK, PersistTerminalCheckpoint, Goto
<1>10. ASSUME NEW r \in Runs, Kill(r) PROVE TypeOK'
  <2>1. IdsMinted'
    BY <1>10 DEF Minted, Kill, IdsMinted
  <2> QED BY <1>10, <2>1 DEF TypeOK, Kill, durable
<1>11. ASSUME NEW r \in Runs, NEW c \in Calls, NEW kind \in {"tool", "delegation", "comparison"},
              StartCall(r, c, kind)
       PROVE  TypeOK'
  <2>1. [run |-> r, exec |-> Current(r), child |-> NoExec, kind |-> kind,
         stage |-> "creating", status |-> "running"] \in ToolCallRecord
    BY CurrentType DEF ToolCallRecord, Stage, CallStatus
  <2>2. call' \in [Calls -> ToolCallRecord]
    BY <1>11, <2>1 DEF StartCall, TypeOK
  <2>3. IdsMinted'
    BY <1>11 DEF Minted, StartCall, IdsMinted, TypeOK
  <2> QED BY <1>11, <2>2, <2>3 DEF TypeOK, StartCall, durable
<1>12. ASSUME NEW c \in Calls, PersistCallCreated(c) PROVE TypeOK'
  <2>1. PICK landed \in BOOLEAN, new \in CallStatus \union {"none"} :
          Write(landed) /\ callRow' = [callRow EXCEPT ![c] = new]
    BY <1>12 DEF PersistCallCreated, TypeOK, CallStatus
  <2>2. callRow' \in [Calls -> CallStatus \union {"none"}] /\ lost' \in 0 .. MaxLost
    <3>1. callRow' \in [Calls -> CallStatus \union {"none"}]
      BY <2>1 DEF TypeOK
    <3> QED BY <2>1, <3>1, WriteType
  <2>3. PICK stage \in {IF call[c].kind = "delegation" THEN "created" ELSE "running",
                        "abandoned"} : SetStage(c, stage)
    BY <1>12 DEF PersistCallCreated
  <2>4. call' \in [Calls -> ToolCallRecord] /\ IdsMinted'
    BY <1>12, <2>3, StageType DEF PersistCallCreated, Hook, Stage, IdsMinted
  <2> QED BY <1>12, <2>2, <2>4 DEF TypeOK, PersistCallCreated
<1>13. ASSUME NEW c \in Calls, NEW e \in Execs, StartDelegation(c, e) PROVE TypeOK'
  <2>1. call[c].run \in Runs /\ call[c] \in ToolCallRecord /\ call[c].kind = "delegation"
    BY <1>13 DEF StartDelegation, Hook, IdsMinted, TypeOK
  <2>2. stack' \in [Runs -> Seq(Execs)]
    BY <1>13, <2>1, PushType DEF StartDelegation
  <2>3. exec' \in [Execs -> ExecutionRecord] /\ Minted' = Minted \union {e}
    BY <1>13, <2>1, CurrentType, MintType DEF StartDelegation
  <2>4. [call[c] EXCEPT !.child = e, !.stage = "opening"] \in ToolCallRecord
    BY <2>1 DEF ToolCallRecord, Stage
  <2>5. call' = [call EXCEPT ![c] = [call[c] EXCEPT !.child = e, !.stage = "opening"]]
    BY <1>13 DEF StartDelegation, TypeOK
  <2>6. call' \in [Calls -> ToolCallRecord]
    BY <2>4, <2>5 DEF TypeOK
  <2>7. /\ call'[c].run = call[c].run /\ call'[c].child = e
        /\ call'[c].stage = "opening" /\ call'[c].kind = "delegation"
        /\ \A d \in Calls \ {c} : call'[d] = call[d]
    BY <2>1, <2>5 DEF TypeOK, ToolCallRecord
  <2>8. IdsMinted'
    <3>1. \A r \in Runs : pc'[r] # "unborn" => attempt'[r] \in Minted'
      BY <1>13, <2>3 DEF IdsMinted, StartDelegation
    <3>2. e \in Minted' /\ Minted \subseteq Minted'
      BY <2>3
    <3> QED BY <2>1, <2>7, <3>1, <3>2 DEF IdsMinted
  <2> QED BY <1>13, <2>2, <2>3, <2>6, <2>8 DEF TypeOK, StartDelegation, durable
<1>14. ASSUME NEW c \in Calls, PersistDelegationCreated(c) PROVE TypeOK'
  <2>1. /\ call[c].stage = "opening" /\ call[c].run \in Runs /\ call[c].child \in Minted
        /\ call[c].kind = "delegation"
    BY <1>14 DEF PersistDelegationCreated, Hook, IdsMinted
  <2>2. execRow' \in [Execs -> RunStatus \union {"none"}] /\ lost' \in 0 .. MaxLost
    BY <1>14, <2>1, ExecWriteType DEF PersistDelegationCreated
  <2>3. PICK stage \in {"running", "abandoned"} : SetStage(c, stage)
    BY <1>14 DEF PersistDelegationCreated
  <2>4. call' \in [Calls -> ToolCallRecord] /\ IdsMinted'
    BY <1>14, <2>1, <2>3, StageType DEF PersistDelegationCreated, Stage
  <2> QED BY <1>14, <2>2, <2>4 DEF TypeOK, PersistDelegationCreated
<1>15. ASSUME NEW c \in Calls, NEW status \in {"ok", "error"}, ReturnCall(c, status)
       PROVE  TypeOK'
  <2>1. call[c].stage = "running" /\ call[c].run \in Runs /\ call[c] \in ToolCallRecord
    BY <1>15 DEF ReturnCall, Hook, IdsMinted, TypeOK
  <2>2. [call[c] EXCEPT !.status = status, !.stage = "returned"] \in ToolCallRecord
    BY <2>1 DEF ToolCallRecord, Stage, CallStatus
  <2>3. call' = [call EXCEPT ![c] = [call[c] EXCEPT !.status = status, !.stage = "returned"]]
    BY <1>15 DEF ReturnCall, TypeOK
  <2>4. call' \in [Calls -> ToolCallRecord]
    BY <2>2, <2>3 DEF TypeOK
  <2>5. /\ call'[c].run = call[c].run /\ call'[c].child = call[c].child
        /\ call'[c].stage = "returned" /\ call'[c].kind = call[c].kind
        /\ \A d \in Calls \ {c} : call'[d] = call[d]
    BY <2>1, <2>3 DEF TypeOK, ToolCallRecord
  <2>6. IdsMinted'
    BY <1>15, <2>1, <2>5 DEF IdsMinted, Minted, ReturnCall
  <2> QED BY <1>15, <2>4, <2>6 DEF TypeOK, ReturnCall, durable
<1>16. ASSUME NEW c \in Calls, PersistCallCompleted(c) PROVE TypeOK'
  <2>1. PICK landed \in BOOLEAN : Write(landed) /\ CallCompleted(c, landed)
    BY <1>16 DEF PersistCallCompleted
  <2>2. call[c].stage = "returned" /\ call[c].run \in Runs /\ call[c].status \in CallStatus
    BY <1>16 DEF PersistCallCompleted, Hook, IdsMinted, TypeOK, ToolCallRecord
  <2>3. lost' \in 0 .. MaxLost
    BY <2>1, WriteType
  <2>4. callRow' \in [Calls -> CallStatus \union {"none"}] /\ evidence' \subseteq Calls
    BY <2>1, <2>2 DEF CallCompleted, TypeOK
  <2>5. call' \in [Calls -> ToolCallRecord] /\ IdsMinted'
    BY <1>16, <2>2, StageType DEF PersistCallCompleted, Stage, IdsMinted
  <2> QED BY <1>16, <2>3, <2>4, <2>5 DEF TypeOK, PersistCallCompleted
<1>17. ASSUME NEW c \in Calls, FinishDelegation(c) PROVE TypeOK'
  <2>1. /\ call[c].stage = "finishing" /\ call[c].run \in Runs
        /\ call[c].kind = "delegation" /\ call[c].child \in Minted
        /\ call[c].child \in Execs /\ call[c] \in ToolCallRecord
    BY <1>17 DEF FinishDelegation, Hook, IdsMinted, Minted, TypeOK
  <2>2. stack' \in [Runs -> Seq(Execs)]
    BY <1>17, <2>1, PopType DEF FinishDelegation
  <2>3. exec' \in [Execs -> ExecutionRecord] /\ Minted' = Minted
    <3>1. (IF call[c].status = "ok" THEN "ok" ELSE "failed") \in {"ok", "failed"}
      OBVIOUS
    <3> QED BY <1>17, <2>1, <3>1, FinishType DEF FinishDelegation
  <2>4. call' = [call EXCEPT ![c] = [call[c] EXCEPT !.stage = "closing"]]
    BY <1>17 DEF FinishDelegation, SetStage, TypeOK
  <2>5. call' \in [Calls -> ToolCallRecord]
    BY <2>1, <2>4 DEF TypeOK, ToolCallRecord, Stage
  <2>6. /\ call'[c].run = call[c].run /\ call'[c].child = call[c].child
        /\ call'[c].stage = "closing" /\ call'[c].kind = call[c].kind
        /\ \A d \in Calls \ {c} : call'[d] = call[d]
    BY <2>1, <2>4 DEF TypeOK, ToolCallRecord
  <2>7. IdsMinted'
    BY <1>17, <2>1, <2>3, <2>6 DEF IdsMinted, FinishDelegation
  <2> QED BY <1>17, <2>2, <2>3, <2>5, <2>7 DEF TypeOK, FinishDelegation, durable
<1>18. ASSUME NEW c \in Calls, PersistDelegationCompleted(c) PROVE TypeOK'
  <2>1. /\ call[c].stage = "closing" /\ call[c].run \in Runs /\ call[c].child \in Minted
        /\ call[c].kind = "delegation"
    BY <1>18 DEF PersistDelegationCompleted, Hook, IdsMinted
  <2>2. execRow' \in [Execs -> RunStatus \union {"none"}] /\ lost' \in 0 .. MaxLost
    BY <1>18, <2>1, ExecWriteType DEF PersistDelegationCompleted
  <2>3. call' \in [Calls -> ToolCallRecord] /\ IdsMinted'
    BY <1>18, <2>1, StageType DEF PersistDelegationCompleted, Stage
  <2> QED BY <1>18, <2>2, <2>3 DEF TypeOK, PersistDelegationCompleted
<1>19. ASSUME NEW c \in Calls, NEW verdict \in Verdict, ReconcileClaim(c, verdict)
       PROVE  TypeOK'
  <2>1. call[c].stage = "closed" /\ call[c].run \in Runs /\ call[c].kind = "comparison"
    BY <1>19 DEF ReconcileClaim, Hook, IdsMinted
  <2>2. PICK landed \in BOOLEAN, new \in {"none", "linked", "unlinked"} :
          Write(landed) /\ claimRow' = [claimRow EXCEPT ![call[c].run] = new]
    BY <1>19, <2>1 DEF ReconcileClaim, TypeOK
  <2>3. claimRow' \in [Runs -> {"none", "linked", "unlinked"}] /\ lost' \in 0 .. MaxLost
    <3>1. claimRow' \in [Runs -> {"none", "linked", "unlinked"}]
      BY <2>2 DEF TypeOK
    <3> QED BY <2>2, <3>1, WriteType
  <2>4. call' \in [Calls -> ToolCallRecord] /\ IdsMinted'
    BY <1>19, <2>1, StageType DEF ReconcileClaim, Stage
  <2> QED BY <1>19, <2>3, <2>4 DEF TypeOK, ReconcileClaim
<1>20. ASSUME NEW s \in Sessions, Expire(s) PROVE TypeOK'
  BY <1>20 DEF TypeOK, Expire, memory, durable, IdsMinted, Minted
<1>21. ASSUME NEW s \in Sessions, PersistSession(s) PROVE TypeOK'
  BY <1>21 DEF TypeOK, PersistSession, memory, durable, IdsMinted, Minted
<1>22. ASSUME NEW s \in Sessions, CleanupExpired(s) \/ DeleteSession(s) PROVE TypeOK'
  <2>1. /\ Cascade(s) /\ UNCHANGED <<memory, lost>>
        /\ \/ session' = [session EXCEPT ![s] = "swept"]
           \/ session' = [session EXCEPT ![s] = "deleted"]
    BY <1>22 DEF CleanupExpired, DeleteSession
  <2>2. session' \in [Sessions -> {"live", "expired", "kept"} \union Deleted]
    BY <2>1 DEF TypeOK, Deleted
  <2>3. /\ runRow' \in [Runs -> RunStatus \union {"none"}]
        /\ execRow' \in [Execs -> RunStatus \union {"none"}]
        /\ callRow' \in [Calls -> CallStatus \union {"none"}]
        /\ evidence' \subseteq Calls
        /\ claimRow' \in [Runs -> {"none", "linked", "unlinked"}]
    BY <2>1 DEF TypeOK, Cascade
  <2>4. checkpoints' \in [Runs -> Seq(RunStatus)]
    BY <2>1 DEF TypeOK, Cascade
  <2>5. IdsMinted'
    BY <2>1 DEF memory, IdsMinted, Minted
  <2> QED BY <2>1, <2>2, <2>3, <2>4, <2>5 DEF TypeOK, memory
<1>23. ASSUME UNCHANGED vars PROVE TypeOK'
  BY <1>23 DEF TypeOK, vars, memory, durable, IdsMinted, Minted
<1> QED
  BY <1>1, <1>2, <1>3, <1>4, <1>5, <1>6, <1>7, <1>8, <1>9, <1>10, <1>11, <1>12, <1>13,
     <1>14, <1>15, <1>16, <1>17, <1>18, <1>19, <1>20, <1>21, <1>22, <1>23 DEF Next

\* The initial state is well typed.
LEMMA InitType == Init => TypeOK
<1> SUFFICES ASSUME Init PROVE TypeOK
  OBVIOUS
<1>1. exec \in [Execs -> ExecutionRecord] /\ call \in [Calls -> ToolCallRecord]
  BY DEF Init, ExecutionRecord, ToolCallRecord, RunStatus, CallStatus, Stage
<1>2. stack \in [Runs -> Seq(Execs)] /\ checkpoints \in [Runs -> Seq(RunStatus)]
  BY DEF Init
<1>3. lost \in 0 .. MaxLost
  BY MaxLostAssumption DEF Init
<1>4. IdsMinted
  BY DEF Init, IdsMinted
<1> QED BY <1>1, <1>2, <1>3, <1>4 DEF Init, TypeOK, RunStatus, CallStatus

\* Type correctness: whatever order hooks, writes, kills and sweeps come in,
\* the rows and the in-memory identities keep their shape, and no step of the
\* run or of a hook follows the id of an execution that was never started.
THEOREM TypeCorrect == Spec => []TypeOK
  BY InitType, NextType, PTL DEF Spec

-----------------------------------------------------------------------------
(* The inductive invariant *)

\* Whom an id belongs to: what is on a run's stack, its current attempt, the
\* execution and the child of each of its calls are executions of that run, an
\* attempt is never a delegation and no two calls share a child.
Ownership ==
    /\ \A r \in Runs : \A i \in 1 .. Len(stack[r]) :
          stack[r][i] \in Minted /\ exec[stack[r][i]].run = r
    /\ \A r \in Runs : attempt[r] # NoExec =>
          /\ attempt[r] \in Minted
          /\ exec[attempt[r]].run = r /\ exec[attempt[r]].kind = "coordinator"
    /\ \A c \in Calls : call[c].exec # NoExec =>
          call[c].exec \in Minted /\ exec[call[c].exec].run = call[c].run
    /\ \A c \in Calls : call[c].child # NoExec =>
          call[c].child \in Minted /\ exec[call[c].child].kind = "delegation"
    /\ \A c, d \in Calls : c # d /\ call[c].child # NoExec => call[c].child # call[d].child

\* The runs row against the worker's progress.
RunProgress ==
    \A r \in Runs :
        /\ pc[r] \notin {"completing", "done"} => runRow[r] \in {"none", "running"}
        /\ runRow[r] \in {"ok", "failed"} => runRow[r] = outcome[r]
        /\ lost = 0 /\ pc[r] \in {"completing", "done"} => runRow[r] # "running"
        /\ /\ lost = 0 /\ pc[r] \notin {"unborn", "starting", "completing", "done"}
           /\ runSession[r] # NoSession /\ session[runSession[r]] \notin Deleted
           => runRow[r] = "running"

\* The executions rows against the executions, which are open while an attempt
\* or a delegation is.
ExecProgress ==
    /\ \A e \in Execs :
        /\ exec[e].status = "unborn" => execRow[e] = "none"
        /\ execRow[e] \in {"ok", "failed"} => execRow[e] = exec[e].status
    /\ \A r \in Runs : pc[r] \in {"starting", "started", "active", "retry_opening"} =>
          exec[attempt[r]].status = "running"
    /\ \A c \in Calls : /\ call[c].kind = "delegation"
                        /\ call[c].stage \in {"opening", "running", "returned", "finishing"}
                        => exec[call[c].child].status = "running"

\* The tool_calls and evidence rows against the hooks.
CallProgress ==
    /\ \A c \in Calls :
        /\ call[c].stage \in {"unborn", "creating"} => callRow[c] = "none"
        /\ call[c].stage \in {"created", "opening", "running", "returned", "abandoned"} =>
              callRow[c] \in {"none", "running"}
        /\ call[c].stage = "returned" => call[c].status \in {"ok", "error"}
        /\ callRow[c] # "none" => call[c].exec # NoExec
        /\ callRow[c] \in {"ok", "error"} => callRow[c] = call[c].status
    /\ evidence = {c \in Calls : callRow[c] \in {"ok", "error"}}

IInv ==
    /\ TypeOK
    /\ Ownership
    /\ RunProgress
    /\ ExecProgress
    /\ CallProgress
    /\ NoRowsUnderDeletedSession

\* What a step that mints nothing and pops nothing keeps of the identities.
KeepsIds ==
    /\ UNCHANGED <<stack, attempt>>
    /\ \A e \in Execs : /\ exec'[e].run = exec[e].run /\ exec'[e].kind = exec[e].kind
                        /\ exec'[e].status = "unborn" <=> exec[e].status = "unborn"
    /\ \A c \in Calls : /\ call'[c].run = call[c].run /\ call'[c].exec = call[c].exec
                        /\ call'[c].child = call[c].child /\ call'[c].kind = call[c].kind

\* Moving a hook on keeps the identities.
LEMMA SetStageKeepsIds ==
    ASSUME TypeOK, NEW c \in Calls, NEW stage, SetStage(c, stage),
           UNCHANGED <<stack, attempt, exec>>
    PROVE  KeepsIds
<1>1. call \in [Calls -> ToolCallRecord] /\ call[c] \in ToolCallRecord
  BY DEF TypeOK
<1>2. \A d \in Calls : /\ call'[d].run = call[d].run /\ call'[d].exec = call[d].exec
                       /\ call'[d].child = call[d].child /\ call'[d].kind = call[d].kind
  BY <1>1 DEF SetStage, ToolCallRecord
<1> QED BY <1>2 DEF KeepsIds

\* Only six kinds of step start or finish an execution or a call.
LEMMA IdSteps ==
    ASSUME TypeOK, [Next]_vars
    PROVE  \/ KeepsIds
           \/ \E r \in Runs, s \in Sessions \union {NoSession}, e \in Execs : BeginRun(r, s, e)
           \/ \E r \in Runs, status \in {"ok", "failed"} : FinishAttempt(r, status)
           \/ \E r \in Runs, e \in Execs : StartRetry(r, e)
           \/ \E r \in Runs, c \in Calls, kind \in {"tool", "delegation", "comparison"} :
                 StartCall(r, c, kind)
           \/ \E c \in Calls, e \in Execs : StartDelegation(c, e)
           \/ \E c \in Calls : FinishDelegation(c)
<1>1. ASSUME NEW c \in Calls,
             \/ PersistCallCreated(c)
             \/ PersistDelegationCreated(c)
             \/ PersistCallCompleted(c)
             \/ PersistDelegationCompleted(c)
             \/ \E verdict \in Verdict : ReconcileClaim(c, verdict)
      PROVE  KeepsIds
  <2>1. PICK stage : SetStage(c, stage) /\ UNCHANGED <<stack, attempt, exec>>
    BY <1>1 DEF PersistCallCreated, PersistDelegationCreated, PersistCallCompleted,
                PersistDelegationCompleted, ReconcileClaim
  <2> QED BY <2>1, SetStageKeepsIds
<1>2. ASSUME NEW c \in Calls, NEW status \in {"ok", "error"}, ReturnCall(c, status)
      PROVE  KeepsIds
  <2>1. call \in [Calls -> ToolCallRecord] /\ call[c] \in ToolCallRecord
    BY DEF TypeOK
  <2>2. \A d \in Calls : /\ call'[d].run = call[d].run /\ call'[d].exec = call[d].exec
                         /\ call'[d].child = call[d].child /\ call'[d].kind = call[d].kind
    BY <1>2, <2>1 DEF ReturnCall, ToolCallRecord
  <2> QED BY <1>2, <2>2 DEF KeepsIds, ReturnCall
<1>3. ASSUME UNCHANGED <<stack, attempt, exec, call>> PROVE KeepsIds
  BY <1>3 DEF KeepsIds
<1>4. ASSUME NEW r \in Runs,
             \/ PersistRunStarted(r) \/ PersistBaselineCheckpoint(r)
             \/ PersistAttemptCompleted(r) \/ PersistRetryCreated(r)
             \/ \E status \in {"ok", "failed"} : PersistRunCompleted(r, status)
             \/ PersistTerminalCheckpoint(r) \/ Kill(r)
      PROVE  KeepsIds
  BY <1>3, <1>4 DEF PersistRunStarted, PersistBaselineCheckpoint, PersistAttemptCompleted,
       PersistRetryCreated, PersistRunCompleted, PersistTerminalCheckpoint, Kill
<1>5. ASSUME NEW s \in Sessions,
             Expire(s) \/ PersistSession(s) \/ CleanupExpired(s) \/ DeleteSession(s)
      PROVE  KeepsIds
  BY <1>3, <1>5 DEF Expire, PersistSession, CleanupExpired, DeleteSession, memory
<1>6. ASSUME UNCHANGED vars PROVE KeepsIds
  BY <1>3, <1>6 DEF vars, memory
<1> QED BY <1>1, <1>2, <1>4, <1>5, <1>6 DEF Next

\* What Mint does to the executions that Ownership speaks of.
LEMMA MintIds ==
    ASSUME TypeOK, NEW r \in Runs, NEW e \in Execs, NEW parent \in Execs \union {NoExec},
           NEW kind \in {"coordinator", "delegation"}, Mint(r, e, parent, kind)
    PROVE  /\ e \notin Minted /\ Minted' = Minted \union {e}
           /\ exec'[e].run = r /\ exec'[e].kind = kind /\ exec'[e].status = "running"
           /\ \A f \in Minted : exec'[f] = exec[f]
<1>1. Minted' = Minted \union {e}
  BY MintType
<1>2. e \notin Minted
  BY DEF Mint, Minted
<1>3. exec'[e].run = r /\ exec'[e].kind = kind /\ exec'[e].status = "running"
  BY DEF TypeOK, Mint
<1>4. \A f \in Minted : exec'[f] = exec[f]
  BY <1>2 DEF TypeOK, Mint, Minted
<1> QED BY <1>1, <1>2, <1>3, <1>4

\* A stack keeps only minted executions of its run when one is pushed ...
LEMMA PushOwned ==
    ASSUME TypeOK, Ownership, NEW r \in Runs, NEW e \in Execs, Push(r, e),
           Minted' = Minted \union {e}, exec'[e].run = r,
           \A f \in Minted : exec'[f] = exec[f]
    PROVE  \A q \in Runs : \A i \in 1 .. Len(stack'[q]) :
              stack'[q][i] \in Minted' /\ exec'[stack'[q][i]].run = q
<1> SUFFICES ASSUME NEW q \in Runs, NEW i \in 1 .. Len(stack'[q])
             PROVE  stack'[q][i] \in Minted' /\ exec'[stack'[q][i]].run = q
  OBVIOUS
<1>1. stack \in [Runs -> Seq(Execs)] /\ stack[q] \in Seq(Execs)
  BY DEF TypeOK
<1>2. CASE q # r
  <2>1. stack'[q] = stack[q]
    BY <1>1, <1>2 DEF Push
  <2> QED BY <2>1 DEF Ownership
<1>3. CASE q = r
  <2>1. stack'[q] = Append(stack[q], e)
    BY <1>1, <1>3 DEF Push
  <2>2. CASE i \in 1 .. Len(stack[q])
    <3>1. stack'[q][i] = stack[q][i]
      BY <1>1, <2>1, <2>2
    <3> QED BY <2>2, <3>1 DEF Ownership
  <2>3. CASE i = Len(stack[q]) + 1
    <3>1. stack'[q][i] = e
      BY <1>1, <2>1, <2>3
    <3> QED BY <1>3, <3>1
  <2>4. i \in 1 .. Len(stack[q]) \/ i = Len(stack[q]) + 1
    BY <1>1, <2>1
  <2> QED BY <2>2, <2>3, <2>4
<1> QED BY <1>2, <1>3

\* ... and when one is popped.
LEMMA PopOwned ==
    ASSUME TypeOK, Ownership, NEW r \in Runs, NEW e \in Execs, Pop(r, e),
           Minted' = Minted, \A f \in Minted : exec'[f].run = exec[f].run
    PROVE  \A q \in Runs : \A i \in 1 .. Len(stack'[q]) :
              stack'[q][i] \in Minted' /\ exec'[stack'[q][i]].run = q
<1> SUFFICES ASSUME NEW q \in Runs, NEW i \in 1 .. Len(stack'[q])
             PROVE  stack'[q][i] \in Minted' /\ exec'[stack'[q][i]].run = q
  OBVIOUS
<1>1. stack \in [Runs -> Seq(Execs)] /\ stack[q] \in Seq(Execs)
  BY DEF TypeOK
<1>2. CASE stack'[q] = stack[q]
  BY <1>2 DEF Ownership
<1>3. CASE stack'[q] = SubSeq(stack[q], 1, Len(stack[q]) - 1) /\ stack[q] # <<>>
  <2>1. i \in 1 .. Len(stack[q]) /\ stack'[q][i] = stack[q][i]
    BY <1>1, <1>3
  <2> QED BY <2>1 DEF Ownership
<1>4. Current(r) = e => stack[r] # <<>>
  BY NoValuesAssumption DEF Current
<1> QED BY <1>1, <1>2, <1>3, <1>4 DEF Pop

\* Ownership is inductive given the types: no interleaving of hooks lets one
\* run's call, stack or attempt reach an execution of another run.
LEMMA OwnershipStep == TypeOK /\ Ownership /\ [Next]_vars => Ownership'
<1> SUFFICES ASSUME TypeOK, Ownership, [Next]_vars PROVE Ownership'
  OBVIOUS
<1> DEFINE Owned(s) == \A q \in Runs : \A i \in 1 .. Len(s[q]) :
              s[q][i] \in Minted' /\ exec'[s[q][i]].run = q
<1>1. CASE KeepsIds
  <2>1. Minted' = Minted
    BY <1>1 DEF KeepsIds, Minted
  <2>2. \A q \in Runs : \A i \in 1 .. Len(stack[q]) : stack[q][i] \in Execs
    BY DEF Ownership, Minted
  <2>3. \A e \in Minted : exec'[e].run = exec[e].run /\ exec'[e].kind = exec[e].kind
    BY <1>1 DEF KeepsIds, Minted
  <2> QED BY <1>1, <2>1, <2>3 DEF KeepsIds, Ownership
<1>2. ASSUME NEW r \in Runs, NEW s \in Sessions \union {NoSession}, NEW e \in Execs,
             BeginRun(r, s, e)
      PROVE  Ownership'
  <2>1. /\ e \notin Minted /\ Minted' = Minted \union {e}
        /\ exec'[e].run = r /\ exec'[e].kind = "coordinator"
        /\ \A f \in Minted : exec'[f] = exec[f]
    BY <1>2, MintIds DEF BeginRun
  <2>2. Owned(stack')
    BY <1>2, <2>1, PushOwned DEF BeginRun
  <2>3. attempt' = [attempt EXCEPT ![r] = e] /\ call' = call /\ attempt \in [Runs -> Execs \union {NoExec}]
    BY <1>2 DEF BeginRun, TypeOK
  <2> QED BY <2>1, <2>2, <2>3 DEF Ownership
<1>3. ASSUME NEW r \in Runs, NEW status \in {"ok", "failed"}, FinishAttempt(r, status)
      PROVE  Ownership'
  <2>1. attempt[r] \in Minted /\ attempt[r] \in Execs
    BY <1>3 DEF FinishAttempt, At, TypeOK, IdsMinted, Minted
  <2>2. Minted' = Minted
    BY <1>3, <2>1, FinishType DEF FinishAttempt
  <2>3. \A f \in Execs : exec'[f].run = exec[f].run /\ exec'[f].kind = exec[f].kind
    BY <1>3, <2>1 DEF FinishAttempt, TypeOK, ExecutionRecord
  <2>4. Owned(stack')
    BY <1>3, <2>1, <2>2, <2>3, PopOwned DEF FinishAttempt, Minted
  <2>5. UNCHANGED <<attempt, call>>
    BY <1>3 DEF FinishAttempt
  <2> QED BY <2>2, <2>3, <2>4, <2>5 DEF Ownership, Minted
<1>4. ASSUME NEW r \in Runs, NEW e \in Execs, StartRetry(r, e) PROVE Ownership'
  <2>0. PICK root \in Execs : Mint(r, e, root, "coordinator")
    BY <1>4 DEF StartRetry
  <2>1. /\ e \notin Minted /\ Minted' = Minted \union {e}
        /\ exec'[e].run = r /\ exec'[e].kind = "coordinator"
        /\ \A f \in Minted : exec'[f] = exec[f]
    BY <2>0, MintIds
  <2>2. Owned(stack')
    BY <1>4, <2>1, PushOwned DEF StartRetry
  <2>3. attempt' = [attempt EXCEPT ![r] = e] /\ call' = call /\ attempt \in [Runs -> Execs \union {NoExec}]
    BY <1>4 DEF StartRetry, TypeOK
  <2> QED BY <2>1, <2>2, <2>3 DEF Ownership
<1>5. ASSUME NEW r \in Runs, NEW c \in Calls, NEW kind \in {"tool", "delegation", "comparison"},
             StartCall(r, c, kind)
      PROVE  Ownership'
  <2>1. UNCHANGED <<stack, attempt, exec>> /\ Minted' = Minted
    BY <1>5 DEF StartCall, Minted
  <2>2. /\ call'[c].run = r /\ call'[c].exec = Current(r) /\ call'[c].child = NoExec
        /\ \A d \in Calls \ {c} : call'[d] = call[d]
    BY <1>5 DEF StartCall, TypeOK
  <2>3. Current(r) # NoExec => Current(r) \in Minted /\ exec[Current(r)].run = r
    <3>1. stack[r] \in Seq(Execs)
      BY DEF TypeOK
    <3>2. stack[r] # <<>> => Len(stack[r]) \in 1 .. Len(stack[r])
      BY <3>1
    <3> QED BY <3>2 DEF Current, Ownership
  <2> QED BY <2>1, <2>2, <2>3 DEF Ownership
<1>6. ASSUME NEW c \in Calls, NEW e \in Execs, StartDelegation(c, e) PROVE Ownership'
  <2>1. call[c].run \in Runs /\ call[c] \in ToolCallRecord
    BY <1>6 DEF StartDelegation, Hook, TypeOK, IdsMinted
  <2>2. /\ e \notin Minted /\ Minted' = Minted \union {e}
        /\ exec'[e].run = call[c].run /\ exec'[e].kind = "delegation"
        /\ \A f \in Minted : exec'[f] = exec[f]
    BY <1>6, <2>1, CurrentType, MintIds DEF StartDelegation
  <2>3. Owned(stack')
    BY <1>6, <2>1, <2>2, PushOwned DEF StartDelegation
  <2>4. /\ call'[c].run = call[c].run /\ call'[c].exec = call[c].exec /\ call'[c].child = e
        /\ \A d \in Calls \ {c} : call'[d] = call[d]
    BY <1>6, <2>1 DEF StartDelegation, TypeOK, ToolCallRecord
  <2>5. attempt' = attempt
    BY <1>6 DEF StartDelegation
  <2> QED BY <2>2, <2>3, <2>4, <2>5, NoValuesAssumption DEF Ownership
<1>7. ASSUME NEW c \in Calls, FinishDelegation(c) PROVE Ownership'
  <2>1. /\ call[c].run \in Runs /\ call[c] \in ToolCallRecord
        /\ call[c].child \in Minted /\ call[c].child \in Execs
    BY <1>7 DEF FinishDelegation, Hook, TypeOK, IdsMinted, Minted
  <2>2. Minted' = Minted
    <3>1. (IF call[c].status = "ok" THEN "ok" ELSE "failed") \in {"ok", "failed"}
      OBVIOUS
    <3> QED BY <1>7, <2>1, <3>1, FinishType DEF FinishDelegation
  <2>3. \A f \in Execs : exec'[f].run = exec[f].run /\ exec'[f].kind = exec[f].kind
    BY <1>7, <2>1 DEF FinishDelegation, TypeOK, ExecutionRecord
  <2>4. Owned(stack')
    BY <1>7, <2>1, <2>2, <2>3, PopOwned DEF FinishDelegation, Minted
  <2>5. \A d \in Calls : /\ call'[d].run = call[d].run /\ call'[d].exec = call[d].exec
                         /\ call'[d].child = call[d].child
    BY <1>7, <2>1 DEF FinishDelegation, SetStage, TypeOK, ToolCallRecord
  <2>6. attempt' = attempt
    BY <1>7 DEF FinishDelegation
  <2> QED BY <2>2, <2>3, <2>4, <2>5, <2>6 DEF Ownership, Minted
<1> QED BY <1>1, <1>2, <1>3, <1>4, <1>5, <1>6, <1>7, IdSteps

-----------------------------------------------------------------------------
(* The runs row *)

\* A write that may fail only ever raises the count of failed writes.
LEMMA WriteCounts ==
    ASSUME TypeOK, NEW landed \in BOOLEAN, Write(landed)
    PROVE  (lost' = 0 => lost = 0 /\ landed) /\ lost' \in Nat
  BY MaxLostAssumption DEF TypeOK, Write

\* A run's row is written by its own worker only: the steps of the hooks and
\* the failure of any write leave RunProgress as it was.
LEMMA RunProgressStep == TypeOK /\ RunProgress /\ [Next]_vars => RunProgress'
<1> SUFFICES ASSUME TypeOK, RunProgress, [Next]_vars PROVE RunProgress'
  OBVIOUS
<1>1. ASSUME UNCHANGED <<pc, runRow, outcome, session, runSession>>, lost' = 0 => lost = 0
      PROVE  RunProgress'
  BY <1>1 DEF RunProgress
<1>2. ASSUME NEW c \in Calls,
             \/ PersistCallCreated(c) \/ PersistDelegationCreated(c)
             \/ PersistCallCompleted(c) \/ PersistDelegationCompleted(c)
             \/ \E verdict \in Verdict : ReconcileClaim(c, verdict)
             \/ \E e \in Execs : StartDelegation(c, e)
             \/ \E status \in {"ok", "error"} : ReturnCall(c, status)
             \/ FinishDelegation(c)
             \/ \E r \in Runs, kind \in {"tool", "delegation", "comparison"} :
                   StartCall(r, c, kind)
      PROVE  RunProgress'
  <2>1. UNCHANGED <<pc, runRow, outcome, session, runSession>>
    BY <1>2 DEF PersistCallCreated, PersistDelegationCreated, PersistCallCompleted,
         PersistDelegationCompleted, ReconcileClaim, StartDelegation, ReturnCall,
         FinishDelegation, StartCall, durable
  <2>2. lost' = lost \/ \E landed \in BOOLEAN : Write(landed)
    BY <1>2 DEF PersistCallCreated, PersistDelegationCreated, PersistCallCompleted,
         PersistDelegationCompleted, ReconcileClaim, StartDelegation, ReturnCall,
         FinishDelegation, StartCall, ExecCreated, ExecCompleted
  <2> QED BY <1>1, <2>1, <2>2, WriteCounts
<1>3. ASSUME NEW r \in Runs,
             \/ \E s \in Sessions \union {NoSession}, e \in Execs : BeginRun(r, s, e)
      PROVE  RunProgress'
  <2>1. PICK s \in Sessions \union {NoSession} :
          /\ pc[r] = "unborn"
          /\ pc' = [pc EXCEPT ![r] = "starting"]
          /\ runSession' = [runSession EXCEPT ![r] = s]
          /\ UNCHANGED <<runRow, outcome, session, lost>>
    BY <1>3 DEF BeginRun, At, Goto, durable
  <2> QED BY <2>1 DEF RunProgress, TypeOK
<1>4. ASSUME NEW r \in Runs, PersistRunStarted(r) PROVE RunProgress'
  <2>1. PICK landed \in BOOLEAN :
          /\ Write(landed)
          /\ runRow' = [runRow EXCEPT ![r] =
                IF /\ landed /\ runSession[r] # NoSession
                   /\ session[runSession[r]] \notin Deleted
                THEN "running" ELSE @]
    BY <1>4 DEF PersistRunStarted
  <2>2. /\ pc[r] = "starting" /\ pc' = [pc EXCEPT ![r] = "started"]
        /\ UNCHANGED <<outcome, session, runSession>>
    BY <1>4 DEF PersistRunStarted, At, Goto
  <2>3. runRow[r] \in {"none", "running"}
    BY <2>2 DEF RunProgress
  <2> QED BY <2>1, <2>2, <2>3, WriteCounts DEF RunProgress, TypeOK
<1>5. ASSUME NEW r \in Runs,
             \/ PersistBaselineCheckpoint(r) \/ PersistAttemptCompleted(r)
             \/ PersistRetryCreated(r)
             \/ \E status \in {"ok", "failed"} : FinishAttempt(r, status)
             \/ \E e \in Execs : StartRetry(r, e)
      PROVE  RunProgress'
  <2>1. PICK point \in {"active", "answered", "attempt_closing", "retry_opening"} :
          /\ pc[r] \notin {"unborn", "starting", "completing", "done"}
          /\ pc' = [pc EXCEPT ![r] = point]
    BY <1>5 DEF PersistBaselineCheckpoint, PersistAttemptCompleted, PersistRetryCreated,
         FinishAttempt, StartRetry, At, Goto
  <2>2. UNCHANGED <<runRow, outcome, session, runSession>>
    BY <1>5 DEF PersistBaselineCheckpoint, PersistAttemptCompleted, PersistRetryCreated,
         FinishAttempt, StartRetry, durable
  <2>3. lost' = lost \/ \E landed \in BOOLEAN : Write(landed)
    BY <1>5 DEF PersistBaselineCheckpoint, PersistAttemptCompleted, PersistRetryCreated,
         FinishAttempt, StartRetry, Checkpoint, ExecCreated, ExecCompleted
  <2>4. lost' = 0 => lost = 0
    BY <2>3, WriteCounts
  <2> QED BY <2>1, <2>2, <2>4 DEF RunProgress, TypeOK
<1>6. ASSUME NEW r \in Runs, NEW status \in {"ok", "failed"}, PersistRunCompleted(r, status)
      PROVE  RunProgress'
  <2>1. PICK landed \in BOOLEAN :
          /\ Write(landed)
          /\ runRow' = [runRow EXCEPT ![r] = IF landed /\ @ # "none" THEN status ELSE @]
    BY <1>6 DEF PersistRunCompleted
  <2>2. /\ pc[r] = "answered" /\ pc' = [pc EXCEPT ![r] = "completing"]
        /\ outcome' = [outcome EXCEPT ![r] = status]
        /\ UNCHANGED <<session, runSession>>
    BY <1>6 DEF PersistRunCompleted, At, Goto
  <2>3. runRow[r] \in {"none", "running"}
    BY <2>2 DEF RunProgress
  <2> QED BY <2>1, <2>2, <2>3, WriteCounts DEF RunProgress, TypeOK
<1>7. ASSUME NEW r \in Runs, PersistTerminalCheckpoint(r) PROVE RunProgress'
  <2>1. /\ pc[r] = "completing" /\ pc' = [pc EXCEPT ![r] = "done"]
        /\ UNCHANGED <<runRow, outcome, session, runSession>>
    BY <1>7 DEF PersistTerminalCheckpoint, At, Goto
  <2>2. lost' = 0 => lost = 0
    BY <1>7, WriteCounts DEF PersistTerminalCheckpoint, Checkpoint
  <2> QED BY <2>1, <2>2 DEF RunProgress, TypeOK
<1>8. ASSUME NEW r \in Runs, Kill(r) PROVE RunProgress'
  BY <1>1, <1>8 DEF Kill, durable
<1>9. ASSUME NEW s \in Sessions, Expire(s) \/ PersistSession(s) PROVE RunProgress'
  <2>1. /\ UNCHANGED <<pc, runRow, outcome, runSession, lost>>
        /\ \A t \in Sessions : session'[t] \notin Deleted => session[t] \notin Deleted
    BY <1>9 DEF Expire, PersistSession, memory, durable, Deleted, TypeOK
  <2> QED BY <2>1 DEF RunProgress, TypeOK
<1>10. ASSUME NEW s \in Sessions, CleanupExpired(s) \/ DeleteSession(s) PROVE RunProgress'
  <2>1. UNCHANGED <<pc, outcome, runSession, lost>>
    BY <1>10 DEF CleanupExpired, DeleteSession, memory
  <2>2. runRow' = [r \in Runs |-> IF runSession[r] = s THEN "none" ELSE runRow[r]]
    BY <1>10 DEF CleanupExpired, DeleteSession, Cascade
  <2>3. \A t \in Sessions : session'[t] \notin Deleted => t # s /\ session'[t] = session[t]
    BY <1>10 DEF CleanupExpired, DeleteSession, Deleted, TypeOK
  <2>4. \A r \in Runs : runSession[r] # NoSession => runSession[r] \in Sessions
    BY DEF TypeOK
  <2> QED BY <2>1, <2>2, <2>3, <2>4 DEF RunProgress
<1>11. ASSUME UNCHANGED vars PROVE RunProgress'
  BY <1>1, <1>11 DEF vars, memory, durable
<1> QED BY <1>2, <1>3, <1>4, <1>5, <1>6, <1>7, <1>8, <1>9, <1>10, <1>11 DEF Next

-----------------------------------------------------------------------------
(* The executions rows *)

\* Moving a hook on changes the stage of its call and nothing else.
LEMMA SetStageEffect ==
    ASSUME TypeOK, NEW c \in Calls, NEW stage, SetStage(c, stage)
    PROVE  /\ call'[c].stage = stage /\ call'[c].kind = call[c].kind
           /\ call'[c].run = call[c].run /\ call'[c].exec = call[c].exec
           /\ call'[c].child = call[c].child /\ call'[c].status = call[c].status
           /\ \A d \in Calls \ {c} : call'[d] = call[d]
  BY DEF TypeOK, SetStage, ToolCallRecord

\* A minted execution is new: no row, no attempt and no delegation is about it
\* yet, so ExecProgress has only the new one to answer for.
LEMMA MintProgress ==
    ASSUME TypeOK, ExecProgress, NEW r \in Runs, NEW e \in Execs,
           NEW parent \in Execs \union {NoExec}, NEW kind \in {"coordinator", "delegation"},
           Mint(r, e, parent, kind), execRow' = execRow
    PROVE  /\ \A f \in Execs :
                /\ exec'[f].status = "unborn" => execRow'[f] = "none"
                /\ execRow'[f] \in {"ok", "failed"} => execRow'[f] = exec'[f].status
           /\ e \notin Minted /\ exec'[e].status = "running"
           /\ \A f \in Minted : exec'[f] = exec[f]
<1>1. /\ e \notin Minted /\ exec'[e].status = "running"
      /\ \A f \in Minted : exec'[f] = exec[f]
  BY MintIds
<1>2. execRow[e] = "none"
  BY DEF Mint, ExecProgress
<1>3. \A f \in Execs \ {e} : exec'[f] = exec[f]
  BY DEF Mint, TypeOK
<1> QED BY <1>1, <1>2, <1>3 DEF ExecProgress

\* Finishing an open execution makes no row stale: a terminal row belongs to an
\* execution that was finished before.
LEMMA FinishProgress ==
    ASSUME TypeOK, ExecProgress, NEW e \in Execs, NEW status \in {"ok", "failed"},
           exec[e].status = "running", exec' = [exec EXCEPT ![e].status = status],
           execRow' = execRow
    PROVE  /\ \A f \in Execs :
                /\ exec'[f].status = "unborn" => execRow'[f] = "none"
                /\ execRow'[f] \in {"ok", "failed"} => execRow'[f] = exec'[f].status
           /\ \A f \in Execs \ {e} : exec'[f] = exec[f]
<1>1. exec'[e].status = status /\ \A f \in Execs \ {e} : exec'[f] = exec[f]
  BY DEF TypeOK, ExecutionRecord
<1>2. execRow[e] \notin {"ok", "failed"}
  BY DEF ExecProgress
<1> QED BY <1>1, <1>2 DEF ExecProgress

\* persist_execution_created of an open execution and persist_execution_completed
\* of any write what the process has reached.
LEMMA ExecWriteProgress ==
    ASSUME TypeOK, ExecProgress, NEW e \in Minted, exec' = exec,
           \/ ExecCreated(e) /\ exec[e].status = "running"
           \/ ExecCompleted(e)
    PROVE  \A f \in Execs :
                /\ exec'[f].status = "unborn" => execRow'[f] = "none"
                /\ execRow'[f] \in {"ok", "failed"} => execRow'[f] = exec'[f].status
<1>1. e \in Execs /\ exec[e].status # "unborn"
  BY DEF Minted
<1>2. \A f \in Execs \ {e} : execRow'[f] = execRow[f]
  BY DEF ExecCreated, ExecCompleted, TypeOK
<1>3. execRow'[e] \in {execRow[e], exec[e].status}
  BY <1>1 DEF ExecCreated, ExecCompleted, TypeOK
<1> QED BY <1>1, <1>2, <1>3 DEF ExecProgress

\* ExecProgress is inductive given the types and Ownership.
LEMMA ExecProgressStep == TypeOK /\ Ownership /\ ExecProgress /\ [Next]_vars => ExecProgress'
<1> SUFFICES ASSUME TypeOK, Ownership, ExecProgress, [Next]_vars PROVE ExecProgress'
  OBVIOUS
<1> DEFINE RowsSettle ==
              \A e \in Execs :
                /\ exec[e].status = "unborn" => execRow[e] = "none"
                /\ execRow[e] \in {"ok", "failed"} => execRow[e] = exec[e].status
           AttemptsOpen ==
              \A r \in Runs : pc[r] \in {"starting", "started", "active", "retry_opening"} =>
                 exec[attempt[r]].status = "running"
           DelegationsOpen ==
              \A c \in Calls : /\ call[c].kind = "delegation"
                               /\ call[c].stage \in {"opening", "running", "returned", "finishing"}
                               => exec[call[c].child].status = "running"
<1>a. RowsSettle /\ AttemptsOpen /\ DelegationsOpen
  BY DEF ExecProgress
<1>b. RowsSettle' /\ AttemptsOpen' /\ DelegationsOpen' => ExecProgress'
  BY DEF ExecProgress
<1>c. IdsMinted
  BY DEF TypeOK
<1> HIDE DEF RowsSettle, AttemptsOpen, DelegationsOpen
<1>1. ASSUME NEW r \in Runs, NEW s \in Sessions \union {NoSession}, NEW e \in Execs,
             BeginRun(r, s, e)
      PROVE  ExecProgress'
  <2>1. Mint(r, e, NoExec, "coordinator") /\ execRow' = execRow /\ call' = call
    BY <1>1 DEF BeginRun, durable
  <2>2. /\ RowsSettle' /\ e \notin Minted /\ exec'[e].status = "running"
        /\ \A f \in Minted : exec'[f] = exec[f]
    BY <2>1, MintProgress DEF RowsSettle
  <2>3. AttemptsOpen'
    BY <1>1, <1>a, <1>c, <2>2 DEF BeginRun, Goto, AttemptsOpen, IdsMinted, TypeOK
  <2>4. DelegationsOpen'
    BY <1>a, <1>c, <2>1, <2>2 DEF DelegationsOpen, IdsMinted
  <2> QED BY <1>b, <2>2, <2>3, <2>4
<1>2. ASSUME NEW r \in Runs, PersistRunStarted(r) PROVE ExecProgress'
  <2>1. /\ pc[r] = "starting" /\ pc' = [pc EXCEPT ![r] = "started"]
        /\ UNCHANGED <<attempt, exec, call>>
    BY <1>2 DEF PersistRunStarted, At, Goto
  <2>2. PICK done \in BOOLEAN :
          execRow' = [execRow EXCEPT ![attempt[r]] = IF done THEN "running" ELSE @]
    BY <1>2 DEF PersistRunStarted
  <2>3. exec[attempt[r]].status = "running"
    BY <1>a, <2>1 DEF AttemptsOpen
  <2>4. RowsSettle'
    BY <1>a, <2>1, <2>2, <2>3 DEF RowsSettle, TypeOK
  <2>5. AttemptsOpen' /\ DelegationsOpen'
    BY <1>a, <2>1 DEF AttemptsOpen, DelegationsOpen, TypeOK
  <2> QED BY <1>b, <2>4, <2>5
<1>3. ASSUME NEW r \in Runs,
             \/ PersistBaselineCheckpoint(r) \/ PersistTerminalCheckpoint(r) \/ Kill(r)
             \/ \E status \in {"ok", "failed"} : PersistRunCompleted(r, status)
      PROVE  ExecProgress'
  <2>1. UNCHANGED <<attempt, exec, call, execRow>>
    BY <1>3 DEF PersistBaselineCheckpoint, PersistTerminalCheckpoint, Kill,
         PersistRunCompleted, durable
  <2>2. \A q \in Runs : pc'[q] \in {"starting", "started", "active", "retry_opening"} =>
                        pc[q] \in {"starting", "started", "active", "retry_opening"}
    BY <1>3 DEF PersistBaselineCheckpoint, PersistTerminalCheckpoint, Kill,
         PersistRunCompleted, At, Goto, TypeOK
  <2> QED BY <1>a, <1>b, <2>1, <2>2 DEF RowsSettle, AttemptsOpen, DelegationsOpen
<1>4. ASSUME NEW r \in Runs, NEW status \in {"ok", "failed"}, FinishAttempt(r, status)
      PROVE  ExecProgress'
  <2>1. /\ pc[r] = "active" /\ pc' = [pc EXCEPT ![r] = "attempt_closing"]
        /\ exec' = [exec EXCEPT ![attempt[r]].status = status]
        /\ UNCHANGED <<attempt, call, execRow>>
    BY <1>4 DEF FinishAttempt, At, Goto, durable
  <2>2. attempt[r] \in Minted /\ attempt[r] \in Execs /\ exec[attempt[r]].status = "running"
    BY <1>a, <1>c, <2>1 DEF AttemptsOpen, IdsMinted, Minted
  <2>3. RowsSettle' /\ \A f \in Execs \ {attempt[r]} : exec'[f] = exec[f]
    BY <2>1, <2>2, FinishProgress DEF RowsSettle
  <2>4. attempt[r] # NoExec /\ exec[attempt[r]].run = r /\ exec[attempt[r]].kind = "coordinator"
    BY <2>2, NoValuesAssumption DEF Ownership
  <2>5. AttemptsOpen'
    <3> SUFFICES ASSUME NEW q \in Runs,
                        pc'[q] \in {"starting", "started", "active", "retry_opening"}
                 PROVE  exec'[attempt'[q]].status = "running"
      BY DEF AttemptsOpen
    <3>1. q # r /\ pc[q] = pc'[q]
      BY <2>1 DEF TypeOK
    <3>2. attempt[q] \in Minted /\ attempt[q] \in Execs /\ attempt[q] # NoExec
      BY <1>c, <3>1, NoValuesAssumption DEF IdsMinted, Minted
    <3>3. attempt[q] # attempt[r]
      BY <2>4, <3>1, <3>2 DEF Ownership
    <3> QED BY <1>a, <2>1, <2>3, <3>1, <3>2, <3>3 DEF AttemptsOpen
  <2>6. DelegationsOpen'
    <3> SUFFICES ASSUME NEW c \in Calls, call[c].kind = "delegation",
                        call[c].stage \in {"opening", "running", "returned", "finishing"}
                 PROVE  exec'[call[c].child].status = "running"
      BY <2>1 DEF DelegationsOpen
    <3>1. call[c].child \in Minted /\ call[c].child \in Execs /\ call[c].child # NoExec
      BY <1>c, NoValuesAssumption DEF IdsMinted, Minted
    <3>2. call[c].child # attempt[r]
      BY <2>4, <3>1 DEF Ownership
    <3> QED BY <1>a, <2>3, <3>1, <3>2 DEF DelegationsOpen
  <2> QED BY <1>b, <2>3, <2>5, <2>6
<1>5. ASSUME NEW r \in Runs, PersistAttemptCompleted(r) \/ PersistRetryCreated(r)
      PROVE  ExecProgress'
  <2>1. /\ pc[r] \in {"attempt_closing", "retry_opening"}
        /\ PersistRetryCreated(r) => pc[r] = "retry_opening"
        /\ UNCHANGED <<attempt, exec, call>>
    BY <1>5 DEF PersistAttemptCompleted, PersistRetryCreated, At
  <2>2. attempt[r] \in Minted /\ (PersistRetryCreated(r) => exec[attempt[r]].status = "running")
    BY <1>a, <1>c, <2>1 DEF IdsMinted, AttemptsOpen
  <2>3. \/ ExecCreated(attempt[r]) /\ exec[attempt[r]].status = "running"
        \/ ExecCompleted(attempt[r])
    BY <1>5, <2>2 DEF PersistAttemptCompleted, PersistRetryCreated
  <2>4. RowsSettle'
    BY <2>1, <2>2, <2>3, ExecWriteProgress DEF RowsSettle
  <2>5. \A q \in Runs : pc'[q] \in {"starting", "started", "active", "retry_opening"} =>
                        pc[q] \in {"starting", "started", "active", "retry_opening"}
    BY <1>5 DEF PersistAttemptCompleted, PersistRetryCreated, At, Goto, TypeOK
  <2> QED BY <1>a, <1>b, <2>1, <2>4, <2>5 DEF AttemptsOpen, DelegationsOpen
<1>6. ASSUME NEW r \in Runs, NEW e \in Execs, StartRetry(r, e) PROVE ExecProgress'
  <2>1. PICK root \in Execs : Mint(r, e, root, "coordinator")
    BY <1>6 DEF StartRetry
  <2>2. execRow' = execRow /\ call' = call
    BY <1>6 DEF StartRetry, durable
  <2>3. /\ RowsSettle' /\ e \notin Minted /\ exec'[e].status = "running"
        /\ \A f \in Minted : exec'[f] = exec[f]
    BY <2>1, <2>2, MintProgress DEF RowsSettle
  <2>4. AttemptsOpen'
    BY <1>6, <1>a, <1>c, <2>3 DEF StartRetry, Goto, AttemptsOpen, IdsMinted, TypeOK
  <2>5. DelegationsOpen'
    BY <1>a, <1>c, <2>2, <2>3 DEF DelegationsOpen, IdsMinted
  <2> QED BY <1>b, <2>3, <2>4, <2>5
<1>7. ASSUME NEW r \in Runs, NEW c \in Calls, NEW kind \in {"tool", "delegation", "comparison"},
             StartCall(r, c, kind)
      PROVE  ExecProgress'
  <2>1. /\ UNCHANGED <<pc, attempt, exec, execRow>>
        /\ call'[c].stage = "creating"
        /\ \A d \in Calls \ {c} : call'[d] = call[d]
    BY <1>7 DEF StartCall, durable, TypeOK
  <2> QED BY <1>a, <1>b, <2>1 DEF RowsSettle, AttemptsOpen, DelegationsOpen
<1>8. ASSUME NEW c \in Calls, NEW stage, SetStage(c, stage),
             UNCHANGED <<pc, attempt, exec, execRow>>,
             call[c].kind = "delegation" /\ stage \in {"opening", "running", "returned", "finishing"}
               => call[c].stage \in {"opening", "running", "returned", "finishing"}
      PROVE  ExecProgress'
  BY <1>8, <1>a, <1>b, SetStageEffect DEF RowsSettle, AttemptsOpen, DelegationsOpen
<1>9. ASSUME NEW c \in Calls,
             \/ PersistCallCreated(c) \/ PersistCallCompleted(c)
             \/ \E verdict \in Verdict : ReconcileClaim(c, verdict)
      PROVE  ExecProgress'
  <2>1. PICK stage :
          /\ SetStage(c, stage)
          /\ call[c].kind = "delegation" /\ stage \in {"opening", "running", "returned", "finishing"}
               => call[c].stage \in {"opening", "running", "returned", "finishing"}
    BY <1>9 DEF PersistCallCreated, PersistCallCompleted, ReconcileClaim, Hook
  <2>2. UNCHANGED <<pc, attempt, exec, execRow>>
    BY <1>9 DEF PersistCallCreated, PersistCallCompleted, ReconcileClaim
  <2> QED BY <1>8, <2>1, <2>2
<1>10. ASSUME NEW c \in Calls, NEW e \in Execs, StartDelegation(c, e) PROVE ExecProgress'
  <2>1. /\ call[c].run \in Runs /\ call[c] \in ToolCallRecord
        /\ Mint(call[c].run, e, Current(call[c].run), "delegation")
        /\ UNCHANGED <<pc, attempt, execRow>>
    BY <1>10, <1>c DEF StartDelegation, Hook, IdsMinted, durable, TypeOK
  <2>2. /\ RowsSettle' /\ e \notin Minted /\ exec'[e].status = "running"
        /\ \A f \in Minted : exec'[f] = exec[f]
    BY <2>1, CurrentType, MintProgress DEF RowsSettle
  <2>3. AttemptsOpen'
    BY <1>a, <1>c, <2>1, <2>2 DEF AttemptsOpen, IdsMinted
  <2>4. call'[c].child = e /\ \A d \in Calls \ {c} : call'[d] = call[d]
    BY <1>10, <2>1 DEF StartDelegation, TypeOK, ToolCallRecord
  <2>5. DelegationsOpen'
    BY <1>a, <1>c, <2>2, <2>4 DEF DelegationsOpen, IdsMinted
  <2> QED BY <1>b, <2>2, <2>3, <2>5
<1>11. ASSUME NEW c \in Calls, PersistDelegationCreated(c) \/ PersistDelegationCompleted(c)
       PROVE  ExecProgress'
  <2>1. /\ call[c].kind = "delegation" /\ call[c].child \in Minted
        /\ PersistDelegationCreated(c) => exec[call[c].child].status = "running"
        /\ UNCHANGED <<pc, attempt, exec>>
    BY <1>11, <1>a, <1>c DEF PersistDelegationCreated, PersistDelegationCompleted, Hook,
         IdsMinted, DelegationsOpen
  <2>2. RowsSettle'
    BY <1>11, <2>1, ExecWriteProgress
       DEF RowsSettle, PersistDelegationCreated, PersistDelegationCompleted
  <2>3. PICK stage :
          /\ SetStage(c, stage)
          /\ stage \in {"opening", "running", "returned", "finishing"}
               => call[c].stage \in {"opening", "running", "returned", "finishing"}
    BY <1>11 DEF PersistDelegationCreated, PersistDelegationCompleted, Hook
  <2>4. DelegationsOpen'
    BY <1>a, <2>1, <2>3, SetStageEffect DEF DelegationsOpen
  <2> QED BY <1>a, <1>b, <2>1, <2>2, <2>4 DEF AttemptsOpen
<1>12. ASSUME NEW c \in Calls, NEW status \in {"ok", "error"}, ReturnCall(c, status)
       PROVE  ExecProgress'
  <2>1. /\ call[c].stage = "running" /\ call[c] \in ToolCallRecord
        /\ UNCHANGED <<pc, attempt, exec, execRow>>
    BY <1>12, <1>c DEF ReturnCall, Hook, IdsMinted, durable, TypeOK
  <2>2. /\ call'[c].kind = call[c].kind /\ call'[c].child = call[c].child
        /\ \A d \in Calls \ {c} : call'[d] = call[d]
    BY <1>12, <2>1 DEF ReturnCall, TypeOK, ToolCallRecord
  <2> QED BY <1>a, <1>b, <2>1, <2>2 DEF RowsSettle, AttemptsOpen, DelegationsOpen
<1>13. ASSUME NEW c \in Calls, FinishDelegation(c) PROVE ExecProgress'
  <2>1. PICK status \in {"ok", "failed"} :
          exec' = [exec EXCEPT ![call[c].child].status = status]
    BY <1>13 DEF FinishDelegation
  <2>2. /\ call[c].stage = "finishing" /\ call[c].kind = "delegation"
        /\ SetStage(c, "closing") /\ UNCHANGED <<pc, attempt, execRow>>
    BY <1>13, <1>c DEF FinishDelegation, Hook, IdsMinted, durable
  <2>3. /\ call[c].child \in Execs /\ call[c].child # NoExec
        /\ exec[call[c].child].status = "running" /\ exec[call[c].child].kind = "delegation"
    BY <1>a, <1>c, <2>2, NoValuesAssumption DEF IdsMinted, Minted, DelegationsOpen, Ownership
  <2>4. RowsSettle' /\ \A f \in Execs \ {call[c].child} : exec'[f] = exec[f]
    BY <2>1, <2>2, <2>3, FinishProgress DEF RowsSettle
  <2>5. AttemptsOpen'
    <3> SUFFICES ASSUME NEW q \in Runs,
                        pc[q] \in {"starting", "started", "active", "retry_opening"}
                 PROVE  exec'[attempt[q]].status = "running"
      BY <2>2 DEF AttemptsOpen
    <3>1. attempt[q] \in Execs /\ attempt[q] # NoExec
      BY <1>c, NoValuesAssumption DEF IdsMinted, Minted
    <3>2. attempt[q] # call[c].child
      BY <2>3, <3>1 DEF Ownership
    <3> QED BY <1>a, <2>4, <3>1, <3>2 DEF AttemptsOpen
  <2>6. DelegationsOpen'
    <3> SUFFICES ASSUME NEW d \in Calls, call'[d].kind = "delegation",
                        call'[d].stage \in {"opening", "running", "returned", "finishing"}
                 PROVE  exec'[call'[d].child].status = "running"
      BY DEF DelegationsOpen
    <3>1. d # c /\ call'[d] = call[d]
      BY <2>2, SetStageEffect
    <3>2. call[d].child \in Execs /\ call[d].child # NoExec
      BY <1>c, <3>1, NoValuesAssumption DEF IdsMinted, Minted
    <3>3. call[d].child # call[c].child
      BY <3>1, <3>2 DEF Ownership
    <3> QED BY <1>a, <2>4, <3>1, <3>2, <3>3 DEF DelegationsOpen
  <2> QED BY <1>b, <2>4, <2>5, <2>6
<1>14. ASSUME NEW s \in Sessions,
              Expire(s) \/ PersistSession(s) \/ CleanupExpired(s) \/ DeleteSession(s)
       PROVE  ExecProgress'
  <2>1. UNCHANGED <<pc, attempt, exec, call>>
    BY <1>14 DEF Expire, PersistSession, CleanupExpired, DeleteSession, memory
  <2>2. \A e \in Execs : execRow'[e] \in {execRow[e], "none"}
    BY <1>14 DEF Expire, PersistSession, CleanupExpired, DeleteSession, Cascade, durable
  <2> QED BY <1>a, <1>b, <2>1, <2>2 DEF RowsSettle, AttemptsOpen, DelegationsOpen
<1>15. ASSUME UNCHANGED vars PROVE ExecProgress'
  BY <1>15, <1>a, <1>b DEF vars, memory, durable, RowsSettle, AttemptsOpen, DelegationsOpen
<1> QED BY <1>1, <1>2, <1>3, <1>4, <1>5, <1>6, <1>7, <1>9, <1>10, <1>11, <1>12, <1>13,
           <1>14, <1>15 DEF Next

-----------------------------------------------------------------------------
(* The tool_calls and evidence rows *)

\* CallProgress is inductive given the types: each hook writes its own rows, in
\* the order of its stages, and the cascade takes a call's row and evidence
\* together.
LEMMA CallProgressStep == TypeOK /\ CallProgress /\ [Next]_vars => CallProgress'
<1> SUFFICES ASSUME TypeOK, CallProgress, [Next]_vars PROVE CallProgress'
  OBVIOUS
<1>1. ASSUME UNCHANGED <<callRow, evidence, call>> PROVE CallProgress'
  BY <1>1 DEF CallProgress
<1>2. ASSUME NEW r \in Runs,
             \/ \E s \in Sessions \union {NoSession}, e \in Execs : BeginRun(r, s, e)
             \/ PersistRunStarted(r) \/ PersistBaselineCheckpoint(r)
             \/ \E status \in {"ok", "failed"} : FinishAttempt(r, status)
             \/ PersistAttemptCompleted(r) \/ \E e \in Execs : StartRetry(r, e)
             \/ PersistRetryCreated(r)
             \/ \E status \in {"ok", "failed"} : PersistRunCompleted(r, status)
             \/ PersistTerminalCheckpoint(r) \/ Kill(r)
      PROVE  CallProgress'
  BY <1>1, <1>2 DEF BeginRun, PersistRunStarted, PersistBaselineCheckpoint, FinishAttempt,
       PersistAttemptCompleted, StartRetry, PersistRetryCreated, PersistRunCompleted,
       PersistTerminalCheckpoint, Kill, durable
<1>3. ASSUME NEW r \in Runs, NEW c \in Calls, NEW kind \in {"tool", "delegation", "comparison"},
             StartCall(r, c, kind)
      PROVE  CallProgress'
  <2>1. /\ call[c].stage = "unborn" /\ call'[c].stage = "creating"
        /\ \A d \in Calls \ {c} : call'[d] = call[d]
        /\ UNCHANGED <<callRow, evidence>>
    BY <1>3 DEF StartCall, TypeOK, durable
  <2> QED BY <2>1 DEF CallProgress
<1>4. ASSUME NEW c \in Calls, PersistCallCreated(c) PROVE CallProgress'
  <2>1. PICK stage \in {"created", "running", "abandoned"} : SetStage(c, stage)
    BY <1>4 DEF PersistCallCreated
  <2>2. call[c].stage = "creating" /\ evidence' = evidence
    BY <1>4 DEF PersistCallCreated, Hook
  <2>3. /\ callRow'[c] \in {"none", "running"}
        /\ callRow'[c] # "none" => call[c].exec # NoExec
        /\ \A d \in Calls \ {c} : callRow'[d] = callRow[d]
    BY <1>4, <2>2 DEF PersistCallCreated, Recordable, TypeOK, CallProgress
  <2> QED BY <2>1, <2>2, <2>3, SetStageEffect DEF CallProgress
<1>5. ASSUME NEW c \in Calls,
             \/ PersistDelegationCreated(c) \/ PersistDelegationCompleted(c)
             \/ FinishDelegation(c)
             \/ \E verdict \in Verdict : ReconcileClaim(c, verdict)
      PROVE  CallProgress'
  <2>1. PICK stage :
          /\ SetStage(c, stage)
          /\ \/ call[c].stage = "opening" /\ stage \in {"running", "abandoned"}
             \/ stage \in {"closing", "closed", "reconciled"}
    BY <1>5 DEF PersistDelegationCreated, PersistDelegationCompleted, FinishDelegation,
         ReconcileClaim, Hook
  <2>2. UNCHANGED <<callRow, evidence>>
    BY <1>5 DEF PersistDelegationCreated, PersistDelegationCompleted, FinishDelegation,
         ReconcileClaim, durable
  <2> QED BY <2>1, <2>2, SetStageEffect DEF CallProgress
<1>6. ASSUME NEW c \in Calls, NEW e \in Execs, StartDelegation(c, e) PROVE CallProgress'
  <2>1. /\ call[c].stage = "created" /\ call[c] \in ToolCallRecord
        /\ UNCHANGED <<callRow, evidence>>
    BY <1>6 DEF StartDelegation, Hook, durable, TypeOK
  <2>2. /\ call'[c].stage = "opening" /\ call'[c].status = call[c].status
        /\ call'[c].exec = call[c].exec
        /\ \A d \in Calls \ {c} : call'[d] = call[d]
    BY <1>6, <2>1 DEF StartDelegation, TypeOK, ToolCallRecord
  <2> QED BY <2>1, <2>2 DEF CallProgress
<1>7. ASSUME NEW c \in Calls, NEW status \in {"ok", "error"}, ReturnCall(c, status)
      PROVE  CallProgress'
  <2>1. /\ call[c].stage = "running" /\ call[c] \in ToolCallRecord
        /\ UNCHANGED <<callRow, evidence>>
    BY <1>7 DEF ReturnCall, Hook, durable, TypeOK
  <2>2. /\ call'[c].stage = "returned" /\ call'[c].status = status
        /\ call'[c].exec = call[c].exec
        /\ \A d \in Calls \ {c} : call'[d] = call[d]
    BY <1>7, <2>1 DEF ReturnCall, TypeOK, ToolCallRecord
  <2> QED BY <2>1, <2>2 DEF CallProgress
<1>8. ASSUME NEW c \in Calls, PersistCallCompleted(c) PROVE CallProgress'
  <2>1. PICK landed \in BOOLEAN : CallCompleted(c, landed)
    BY <1>8 DEF PersistCallCompleted
  <2>2. call[c].stage = "returned" /\ call[c].status \in {"ok", "error"}
    BY <1>8 DEF PersistCallCompleted, Hook, CallProgress
  <2>3. PICK stage \in {"finishing", "closed"} : SetStage(c, stage)
    BY <1>8 DEF PersistCallCompleted
  <2>4. callRow[c] \in {"none", "running"}
    BY <2>2 DEF CallProgress
  <2>5. \/ UNCHANGED <<callRow, evidence>>
        \/ /\ callRow[c] # "none" /\ callRow'[c] = call[c].status
           /\ \A d \in Calls \ {c} : callRow'[d] = callRow[d]
           /\ evidence' = evidence \union {c}
    BY <2>1 DEF CallCompleted, TypeOK
  <2> QED BY <2>2, <2>3, <2>4, <2>5, SetStageEffect DEF CallProgress
<1>9. ASSUME NEW s \in Sessions, Expire(s) \/ PersistSession(s) PROVE CallProgress'
  BY <1>1, <1>9 DEF Expire, PersistSession, memory, durable
<1>10. ASSUME NEW s \in Sessions, CleanupExpired(s) \/ DeleteSession(s) PROVE CallProgress'
  <2>1. call' = call /\ Cascade(s)
    BY <1>10 DEF CleanupExpired, DeleteSession, memory
  <2> QED BY <2>1 DEF CallProgress, Cascade
<1>11. ASSUME UNCHANGED vars PROVE CallProgress'
  BY <1>1, <1>11 DEF vars, memory, durable
<1> QED BY <1>2, <1>3, <1>4, <1>5, <1>6, <1>7, <1>8, <1>9, <1>10, <1>11 DEF Next

-----------------------------------------------------------------------------
(* The rows under a session *)

\* NoRowsUnderDeletedSession is inductive given the others: every INSERT below
\* the runs row is refused by a foreign key once the cascade has passed.
LEMMA NoRowsStep ==
    TypeOK /\ Ownership /\ ExecProgress /\ CallProgress /\ NoRowsUnderDeletedSession
    /\ [Next]_vars => NoRowsUnderDeletedSession'
<1> SUFFICES ASSUME TypeOK, Ownership, ExecProgress, CallProgress,
                    NoRowsUnderDeletedSession, [Next]_vars
             PROVE  NoRowsUnderDeletedSession'
  OBVIOUS
<1> DEFINE Gone(r) == runSession[r] # NoSession /\ session[runSession[r]] \in Deleted
<1>a. IdsMinted
  BY DEF TypeOK
<1>1. ASSUME UNCHANGED <<session, runSession>>,
             \A r \in Runs : Gone(r) =>
                /\ runRow'[r] = "none" /\ checkpoints'[r] = <<>> /\ claimRow'[r] = "none"
                /\ \A e \in Execs : exec'[e].run = r => execRow'[e] = "none"
                /\ \A c \in Calls : call'[c].run = r => callRow'[c] = "none"
      PROVE  NoRowsUnderDeletedSession'
  BY <1>1 DEF NoRowsUnderDeletedSession
<1>b. \A r \in Runs : Gone(r) =>
                /\ runRow[r] = "none" /\ checkpoints[r] = <<>> /\ claimRow[r] = "none"
                /\ \A e \in Execs : exec[e].run = r => execRow[e] = "none"
                /\ \A c \in Calls : call[c].run = r => callRow[c] = "none"
  BY DEF NoRowsUnderDeletedSession
<1> HIDE DEF Gone
<1>2. ASSUME NEW r \in Runs, NEW s \in Sessions \union {NoSession}, NEW e \in Execs,
             BeginRun(r, s, e)
      PROVE  NoRowsUnderDeletedSession'
  <2>1. /\ s # NoSession => session[s] \notin Deleted
        /\ runSession' = [runSession EXCEPT ![r] = s]
        /\ UNCHANGED <<session, call, durable>>
    BY <1>2 DEF BeginRun
  <2>2. execRow[e] = "none" /\ \A f \in Execs \ {e} : exec'[f] = exec[f]
    BY <1>2 DEF BeginRun, Mint, ExecProgress, TypeOK
  <2>3. \A q \in Runs : runSession'[q] # NoSession /\ session'[runSession'[q]] \in Deleted
           => Gone(q)
    BY <2>1 DEF Gone, TypeOK
  <2>4. \A q \in Runs : Gone(q) => \A f \in Execs : exec'[f].run = q => execRow'[f] = "none"
    BY <1>b, <2>1, <2>2 DEF durable
  <2> QED BY <1>b, <2>1, <2>3, <2>4 DEF NoRowsUnderDeletedSession, durable
<1>3. ASSUME NEW r \in Runs, PersistRunStarted(r) PROVE NoRowsUnderDeletedSession'
  <2>1. /\ pc[r] = "starting"
        /\ UNCHANGED <<session, runSession, exec, call, callRow, checkpoints, claimRow>>
    BY <1>3 DEF PersistRunStarted, At
  <2>2. PICK done \in BOOLEAN :
          /\ done => ~Gone(r)
          /\ runRow' = [runRow EXCEPT ![r] = IF done THEN "running" ELSE @]
          /\ execRow' = [execRow EXCEPT ![attempt[r]] = IF done THEN "running" ELSE @]
    BY <1>3 DEF PersistRunStarted, Gone
  <2>3. attempt[r] \in Execs /\ exec[attempt[r]].run = r
    BY <1>a, <2>1, NoValuesAssumption DEF IdsMinted, Minted, Ownership
  <2> QED BY <1>1, <1>b, <2>1, <2>2, <2>3 DEF TypeOK
<1>4. ASSUME NEW r \in Runs, NEW status, Checkpoint(r, status),
             UNCHANGED <<session, runSession, exec, call, runRow, execRow, callRow, claimRow>>
      PROVE  NoRowsUnderDeletedSession'
  <2>1. \A q \in Runs : checkpoints'[q] # checkpoints[q] => q = r /\ runRow[r] # "none"
    BY <1>4 DEF Checkpoint, TypeOK
  <2> QED BY <1>1, <1>4, <1>b, <2>1
<1>5. ASSUME NEW r \in Runs, PersistBaselineCheckpoint(r) \/ PersistTerminalCheckpoint(r)
      PROVE  NoRowsUnderDeletedSession'
  BY <1>4, <1>5 DEF PersistBaselineCheckpoint, PersistTerminalCheckpoint
<1>6. ASSUME NEW e \in Minted, exec[e].run \in Runs, ExecCreated(e) \/ ExecCompleted(e),
             UNCHANGED <<session, runSession, exec, runRow, callRow, checkpoints, claimRow>>,
             \A c \in Calls : call'[c].run = call[c].run
      PROVE  NoRowsUnderDeletedSession'
  <2>1. \A f \in Execs : execRow'[f] # execRow[f] =>
           f = e /\ (runRow[exec[e].run] # "none" \/ execRow[e] # "none")
    BY <1>6 DEF ExecCreated, ExecCompleted, TypeOK
  <2>2. \A q \in Runs : Gone(q) => \A f \in Execs : exec[f].run = q => execRow'[f] = "none"
    BY <1>b, <1>6, <2>1
  <2> QED BY <1>1, <1>6, <1>b, <2>2
<1>7. ASSUME NEW r \in Runs, PersistAttemptCompleted(r) \/ PersistRetryCreated(r)
      PROVE  NoRowsUnderDeletedSession'
  <2>1. attempt[r] \in Minted /\ exec[attempt[r]].run = r
    BY <1>7, <1>a, NoValuesAssumption
       DEF PersistAttemptCompleted, PersistRetryCreated, At, IdsMinted, Minted, Ownership
  <2> QED BY <1>6, <1>7, <2>1 DEF PersistAttemptCompleted, PersistRetryCreated
<1>8. ASSUME NEW r \in Runs, NEW status \in {"ok", "failed"}, FinishAttempt(r, status)
      PROVE  NoRowsUnderDeletedSession'
  <2>1. \A f \in Execs : exec'[f].run = exec[f].run
    BY <1>8 DEF FinishAttempt, TypeOK, ExecutionRecord
  <2>2. UNCHANGED <<session, runSession, call, durable>>
    BY <1>8 DEF FinishAttempt
  <2> QED BY <1>1, <1>b, <2>1, <2>2 DEF durable
<1>9. ASSUME NEW r \in Runs, NEW e \in Execs, NEW parent, NEW kind, Mint(r, e, parent, kind),
             UNCHANGED <<session, runSession, durable>>,
             \A c \in Calls : call'[c].run = call[c].run
      PROVE  NoRowsUnderDeletedSession'
  <2>1. execRow[e] = "none" /\ \A f \in Execs \ {e} : exec'[f] = exec[f]
    BY <1>9 DEF Mint, ExecProgress, TypeOK
  <2>2. \A q \in Runs : Gone(q) => \A f \in Execs : exec'[f].run = q => execRow'[f] = "none"
    BY <1>b, <1>9, <2>1 DEF durable
  <2> QED BY <1>1, <1>9, <1>b, <2>2 DEF durable
<1>10. ASSUME NEW r \in Runs, NEW e \in Execs, StartRetry(r, e)
       PROVE  NoRowsUnderDeletedSession'
  <2>1. PICK root \in Execs : Mint(r, e, root, "coordinator")
    BY <1>10 DEF StartRetry
  <2> QED BY <1>9, <1>10, <2>1 DEF StartRetry
<1>11. ASSUME NEW r \in Runs, NEW status \in {"ok", "failed"}, PersistRunCompleted(r, status)
       PROVE  NoRowsUnderDeletedSession'
  <2>1. UNCHANGED <<session, runSession, exec, call, execRow, callRow, checkpoints, claimRow>>
    BY <1>11 DEF PersistRunCompleted
  <2>2. \A q \in Runs : runRow[q] = "none" => runRow'[q] = "none"
    BY <1>11 DEF PersistRunCompleted, TypeOK
  <2> QED BY <1>1, <1>b, <2>1, <2>2
<1>12. ASSUME UNCHANGED <<session, runSession, exec, call, durable>>
       PROVE  NoRowsUnderDeletedSession'
  BY <1>1, <1>12, <1>b DEF durable
<1>13. ASSUME NEW r \in Runs, Kill(r) PROVE NoRowsUnderDeletedSession'
  BY <1>12, <1>13 DEF Kill
<1>14. ASSUME NEW r \in Runs, NEW c \in Calls, NEW kind \in {"tool", "delegation", "comparison"},
              StartCall(r, c, kind)
       PROVE  NoRowsUnderDeletedSession'
  <2>1. /\ UNCHANGED <<session, runSession, exec, durable>>
        /\ callRow[c] = "none" /\ \A d \in Calls \ {c} : call'[d] = call[d]
    BY <1>14 DEF StartCall, CallProgress, TypeOK
  <2> QED BY <1>1, <1>b, <2>1 DEF durable
<1>15. ASSUME NEW c \in Calls, PersistCallCreated(c) PROVE NoRowsUnderDeletedSession'
  <2>1. /\ UNCHANGED <<session, runSession, exec, runRow, execRow, checkpoints, claimRow>>
        /\ \A d \in Calls : call'[d].run = call[d].run
    <3>1. PICK stage : SetStage(c, stage)
      BY <1>15 DEF PersistCallCreated
    <3> QED BY <1>15, <3>1, SetStageEffect DEF PersistCallCreated
  <2>2. \A d \in Calls : callRow'[d] # callRow[d] =>
           d = c /\ call[c].exec # NoExec /\ execRow[call[c].exec] # "none"
    BY <1>15 DEF PersistCallCreated, Recordable, TypeOK
  <2>3. call[c].exec # NoExec => call[c].exec \in Execs /\ exec[call[c].exec].run = call[c].run
    BY DEF Ownership, Minted
  <2>4. \A q \in Runs : Gone(q) => \A d \in Calls : call[d].run = q => callRow'[d] = "none"
    BY <1>b, <2>2, <2>3
  <2> QED BY <1>1, <1>b, <2>1, <2>4
<1>16. ASSUME NEW c \in Calls, NEW e \in Execs, StartDelegation(c, e)
       PROVE  NoRowsUnderDeletedSession'
  <2>1. call[c].run \in Runs /\ call[c] \in ToolCallRecord
    BY <1>16, <1>a DEF StartDelegation, Hook, IdsMinted, TypeOK
  <2>2. \A d \in Calls : call'[d].run = call[d].run
    BY <1>16, <2>1 DEF StartDelegation, TypeOK, ToolCallRecord
  <2> QED BY <1>9, <1>16, <2>1, <2>2 DEF StartDelegation
<1>17. ASSUME NEW c \in Calls, PersistDelegationCreated(c) \/ PersistDelegationCompleted(c)
       PROVE  NoRowsUnderDeletedSession'
  <2>1. call[c].kind = "delegation" /\ call[c].child \in Minted
    BY <1>17, <1>a DEF PersistDelegationCreated, PersistDelegationCompleted, Hook, IdsMinted
  <2>2. PICK stage : SetStage(c, stage)
    BY <1>17 DEF PersistDelegationCreated, PersistDelegationCompleted
  <2>3. \A d \in Calls : call'[d].run = call[d].run
    BY <2>2, SetStageEffect
  <2>4. CASE exec[call[c].child].run \in Runs
    BY <1>6, <1>17, <2>1, <2>3, <2>4
       DEF PersistDelegationCreated, PersistDelegationCompleted
  <2>5. CASE exec[call[c].child].run \notin Runs
    <3>1. \A f \in Execs \ {call[c].child} : execRow'[f] = execRow[f]
      BY <1>17 DEF PersistDelegationCreated, PersistDelegationCompleted, ExecCreated,
           ExecCompleted, TypeOK
    <3>2. UNCHANGED <<session, runSession, exec, runRow, callRow, checkpoints, claimRow>>
      BY <1>17 DEF PersistDelegationCreated, PersistDelegationCompleted
    <3>3. \A q \in Runs : Gone(q) => \A f \in Execs : exec[f].run = q => execRow'[f] = "none"
      BY <1>b, <2>5, <3>1
    <3> QED BY <1>1, <1>b, <2>3, <3>2, <3>3
  <2> QED BY <2>4, <2>5
<1>18. ASSUME NEW c \in Calls, NEW status \in {"ok", "error"}, ReturnCall(c, status)
       PROVE  NoRowsUnderDeletedSession'
  <2>1. UNCHANGED <<session, runSession, exec, durable>>
    BY <1>18 DEF ReturnCall
  <2>2. \A d \in Calls : call'[d].run = call[d].run
    BY <1>18 DEF ReturnCall, TypeOK, ToolCallRecord
  <2> QED BY <1>1, <1>b, <2>1, <2>2 DEF durable
<1>19. ASSUME NEW c \in Calls, PersistCallCompleted(c) PROVE NoRowsUnderDeletedSession'
  <2>1. UNCHANGED <<session, runSession, exec, runRow, execRow, checkpoints, claimRow>>
    BY <1>19 DEF PersistCallCompleted
  <2>2. \A d \in Calls : call'[d].run = call[d].run
    BY <1>19, SetStageEffect DEF PersistCallCompleted
  <2>3. \A d \in Calls : callRow[d] = "none" => callRow'[d] = "none"
    BY <1>19 DEF PersistCallCompleted, CallCompleted, TypeOK
  <2> QED BY <1>1, <1>b, <2>1, <2>2, <2>3
<1>20. ASSUME NEW c \in Calls, FinishDelegation(c) PROVE NoRowsUnderDeletedSession'
  <2>1. UNCHANGED <<session, runSession, durable>>
    BY <1>20 DEF FinishDelegation
  <2>2. \A d \in Calls : call'[d].run = call[d].run
    BY <1>20, SetStageEffect DEF FinishDelegation
  <2>3. \A f \in Execs : exec'[f].run = exec[f].run
    BY <1>20 DEF FinishDelegation, TypeOK, ExecutionRecord
  <2> QED BY <1>1, <1>b, <2>1, <2>2, <2>3 DEF durable
<1>21. ASSUME NEW c \in Calls, NEW verdict \in Verdict, ReconcileClaim(c, verdict)
       PROVE  NoRowsUnderDeletedSession'
  <2>1. UNCHANGED <<session, runSession, exec, runRow, execRow, callRow, checkpoints>>
    BY <1>21 DEF ReconcileClaim
  <2>2. \A d \in Calls : call'[d].run = call[d].run
    BY <1>21, SetStageEffect DEF ReconcileClaim
  <2>3. \A q \in Runs : claimRow'[q] # claimRow[q] => runRow[q] # "none"
    BY <1>21 DEF ReconcileClaim, TypeOK
  <2> QED BY <1>1, <1>b, <2>1, <2>2, <2>3
<1>22. ASSUME NEW s \in Sessions, Expire(s) \/ PersistSession(s)
       PROVE  NoRowsUnderDeletedSession'
  <2>1. /\ UNCHANGED <<memory, durable>>
        /\ \A t \in Sessions : session'[t] \in Deleted => session[t] \in Deleted
    BY <1>22 DEF Expire, PersistSession, Deleted, TypeOK
  <2> QED BY <2>1 DEF NoRowsUnderDeletedSession, memory, durable, TypeOK
<1>23. ASSUME NEW s \in Sessions, CleanupExpired(s) \/ DeleteSession(s)
       PROVE  NoRowsUnderDeletedSession'
  <2>1. Cascade(s) /\ UNCHANGED memory
    BY <1>23 DEF CleanupExpired, DeleteSession
  <2>2. \A t \in Sessions \ {s} : session'[t] = session[t]
    BY <1>23 DEF CleanupExpired, DeleteSession, TypeOK
  <2>3. \A q \in Runs : runSession[q] # NoSession => runSession[q] \in Sessions
    BY DEF TypeOK
  <2> QED BY <2>1, <2>2, <2>3 DEF NoRowsUnderDeletedSession, Cascade, memory
<1>24. ASSUME UNCHANGED vars PROVE NoRowsUnderDeletedSession'
  BY <1>12, <1>24 DEF vars, memory
<1> QED BY <1>2, <1>3, <1>5, <1>7, <1>8, <1>10, <1>11, <1>13, <1>14, <1>15, <1>16, <1>17,
           <1>18, <1>19, <1>20, <1>21, <1>22, <1>23, <1>24 DEF Next

-----------------------------------------------------------------------------
(* The theorems *)

\* The inductive invariant holds of every behaviour.
THEOREM Inductive == Spec => []IInv
<1>1. Init => IInv
  <2> SUFFICES ASSUME Init PROVE IInv
    OBVIOUS
  <2>1. TypeOK
    BY InitType
  <2>2. Ownership
    BY DEF Init, Ownership
  <2>3. RunProgress
    BY DEF Init, RunProgress
  <2>4. ExecProgress
    BY DEF Init, ExecProgress
  <2>5. CallProgress
    BY DEF Init, CallProgress
  <2>6. NoRowsUnderDeletedSession
    BY DEF Init, NoRowsUnderDeletedSession
  <2> QED BY <2>1, <2>2, <2>3, <2>4, <2>5, <2>6 DEF IInv
<1>2. IInv /\ [Next]_vars => IInv'
  BY NextType, OwnershipStep, RunProgressStep, ExecProgressStep, CallProgressStep, NoRowsStep
     DEF IInv
<1> QED BY <1>1, <1>2, PTL DEF Spec

\* A row never claims an end that the process has not reached, and a tool call
\* is terminal exactly when its evidence is there: for any number of concurrent
\* hooks, failed writes, kills and sweeps.
THEOREM DurableRowsNeverAhead == Spec => []DurableNeverAhead
<1>1. IInv => DurableNeverAhead
  BY DEF IInv, RunProgress, ExecProgress, CallProgress, DurableNeverAhead
<1> QED BY <1>1, Inductive, PTL

\* rehydrate_run never calls a run resumable while a recorded call of it may
\* have taken effect without its end being known.
THEOREM UnsettledCallsBlockResume == Spec => []RecordedCallBlocksResume
<1>1. IInv => RecordedCallBlocksResume
  <2> SUFFICES ASSUME IInv, NEW r \in Runs, Resumable(r), NEW c \in Calls,
                      call[c].run = r, callRow[c] # "none"
               PROVE  call[c].stage \notin Unsettled
    BY DEF RecordedCallBlocksResume
  <2>1. call[c].exec # NoExec /\ exec[call[c].exec].run = r
    BY DEF IInv, CallProgress, Ownership
  <2>2. callRow[c] # "running"
    BY <2>1 DEF Resumable, RecordedCalls
  <2> QED BY <2>2 DEF IInv, CallProgress, Unsettled
<1> QED BY <1>1, Inductive, PTL

\* With no write lost, a finished run is never resumable.
THEOREM FinishedRunsStayFinished == Spec => []FinishedRunNotResumable
<1>1. IInv => FinishedRunNotResumable
  BY DEF IInv, RunProgress, FinishedRunNotResumable, Resumable
<1> QED BY <1>1, Inductive, PTL

\* A deleted session keeps no rows, whatever its workers still write.
THEOREM DeletedSessionsStayEmpty == Spec => []NoRowsUnderDeletedSession
<1>1. IInv => NoRowsUnderDeletedSession
  BY DEF IInv
<1> QED BY <1>1, Inductive, PTL

\* With no write lost, the sweep never takes the tree of a run in mid-flight.
THEOREM SweepIsSafe == Spec => SweepSparesUnfinishedRuns
<1>1. IInv /\ [Next]_vars =>
        \A s \in Sessions, r \in Runs :
         /\ session[s] # "swept" /\ session'[s] = "swept"
         /\ runSession[r] = s /\ lost = 0
         => pc[r] \in {"unborn", "starting", "completing", "done"}
  <2> SUFFICES ASSUME IInv, [Next]_vars, NEW s \in Sessions, NEW r \in Runs,
                      session[s] # "swept", session'[s] = "swept",
                      runSession[r] = s, lost = 0
               PROVE  pc[r] \in {"unborn", "starting", "completing", "done"}
    OBVIOUS
  <2>1. CleanupExpired(s)
    <3>1. session' # session
      OBVIOUS
    <3>2. PICK t \in Sessions :
            Expire(t) \/ PersistSession(t) \/ CleanupExpired(t) \/ DeleteSession(t)
      BY <3>1 DEF Next, vars, BeginRun, PersistRunStarted, PersistBaselineCheckpoint,
           FinishAttempt, PersistAttemptCompleted, StartRetry, PersistRetryCreated,
           PersistRunCompleted, PersistTerminalCheckpoint, Kill, StartCall,
           PersistCallCreated, StartDelegation, PersistDelegationCreated, ReturnCall,
           PersistCallCompleted, FinishDelegation, PersistDelegationCompleted,
           ReconcileClaim
    <3> QED BY <3>2 DEF Expire, PersistSession, CleanupExpired, DeleteSession, IInv, TypeOK
  <2>2. session[s] = "expired" /\ runRow[r] # "running"
    BY <2>1 DEF CleanupExpired, Sweepable
  <2>3. runSession[r] # NoSession
    BY NoValuesAssumption
  <2> QED BY <2>2, <2>3 DEF IInv, RunProgress, Deleted
<1> QED BY <1>1, Inductive, PTL DEF Spec, SweepSparesUnfinishedRuns
=============================================================================

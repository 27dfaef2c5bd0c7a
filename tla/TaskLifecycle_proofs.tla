------------------------- MODULE TaskLifecycle_proofs -------------------------
(***************************************************************************)
(* Proofs about TaskLifecycle for every request, budget, number of         *)
(* attempts and number of faults.  The argument: the row becomes running   *)
(* only through the gateway, which does so once (GatewayPhase), a result   *)
(* is stored only on a running row, and by the time the workflow stores it *)
(* the budget facts of the LLM call are settled (LlmPhase, ResultPhase).   *)
(***************************************************************************)
EXTENDS TaskLifecycle, TLAPS

\* Steps of createTask at which the row has never been running.
NotYetRunning == {"create", "cache", "start", "failRow", "failCache",
                  "markRunning"}

\* Steps of the workflow before AgentActivity was first attempted.
BeforeLlm == {"none", "EmitStarted", "LoadSession", "EmitSessionLoaded",
              "EmitToolStarted", "ExecuteTool", "EmitToolFailed",
              "EmitToolCompleted", "SaveToolResult", "Estimate",
              "CheckBudget", "EmitLLMStarted"}

\* Steps at which AgentActivity has answered and a result may follow.
Answered == {"EmitLLMCompleted", "RecordUsage", "EmitUsage", "SaveSession",
             "SaveResult"}

\* Steps at which the row may already be completed.
MayBeCompleted == {"SaveResult", "SaveToolResult", "SaveFailure",
                   "RecordCompleted", "RecordFailed", "EmitCompleted",
                   "EmitFailed", "ended"}

GatewayPhase ==
    /\ gw \in NotYetRunning => row.status \notin {"running", "completed"}
    /\ gw \in {"create", "cache", "start"} => wf = "none"

Affordable == /\ BudgetAllows(est, req.maxTotal)
              /\ allowed = AllowedCompletion(est, req.maxTotal, req.maxCompletion)

LlmPhase ==
    /\ wf \in BeforeLlm => llm = 0
    /\ wf \in {"EmitLLMStarted", "Agent"} => Affordable
    /\ wf = "Agent" => llm <= att
    /\ wf \in Answered => llm > 0
    /\ llm > 0 => Affordable /\ allowed > 0 /\ llm <= MaxAttempts

ResultPhase ==
    /\ wf \in {"SaveSession", "SaveResult"} => ~OverBudget
    /\ row.status = "completed" => wf \in MayBeCompleted /\ row.result # "none"
    /\ row.status # "completed" =>
           row.usage = 0 /\ row.result = "none" /\ redis.result = "none"
    /\ redis.result # "none" => redis.result = row.result

SafeInv == /\ GatewayPhase /\ LlmPhase /\ ResultPhase
           /\ CompletedIsTrue /\ CacheNeverAhead

IInv == TypeOK /\ SafeInv

-----------------------------------------------------------------------------
(* CheckBudgetActivity *)

\* The allowance CheckBudget computes is a natural number, never above the
\* requested (or default) completion limit, and together with an accepted
\* prompt estimate it fits in the total.
LEMMA AllowanceFits ==
    ASSUME NEW prompt \in Nat, NEW total \in Int, NEW completion \in Int
    PROVE  /\ AllowedCompletion(prompt, total, completion) \in Nat
           /\ AllowedCompletion(prompt, total, completion)
                  <= EffectiveCompletion(completion)
           /\ BudgetAllows(prompt, total) =>
                  prompt + AllowedCompletion(prompt, total, completion)
                      <= EffectiveTotal(total)
  BY BudgetAssumption
  DEF AllowedCompletion, EffectiveCompletion, EffectiveTotal, BudgetAllows

\* An attempt of an activity leaves the workflow at one of the three steps it
\* names, and keeps the counters in range.
LEMMA OutcomeType ==
    ASSUME TypeOK, NEW reported \in BOOLEAN, NEW clean \in BOOLEAN,
           NEW next \in WfSteps, NEW onError \in WfSteps,
           Outcome(reported, clean, next, onError)
    PROVE  /\ wf' \in WfSteps /\ wf' \in {wf, next, onError}
           /\ att' \in 0..(MaxAttempts - 1)
           /\ faults' \in 0..MaxFaults
           /\ wf' = wf => (att' = att + 1 \/ wf = next \/ wf = onError)
  BY RetryAssumption DEF Outcome, Fault, TypeOK

\* What EmitEvent appends is an event type.
LEMMA EventType == wf \in EmitSteps => Event \in EventTypes /\ AfterEmit[wf] \in WfSteps
  <1>1. wf \in EmitSteps => EventOf[wf] \in EventTypes
    BY DEF EventTypes
  <1>2. wf \in EmitSteps => AfterEmit[wf] \in WfSteps
    BY DEF EmitSteps, EventOf, AfterEmit, AfterUsage, Return, WfSteps
  <1> QED BY <1>1, <1>2 DEF Event, EventTypes, TerminalEvents

-----------------------------------------------------------------------------
(* Type correctness *)

\* Every call of the gateway keeps the types.
LEMMA GatewayType ==
    ASSUME TypeOK, Gateway
    PROVE  TypeOK'
  <1> USE RetryAssumption
      DEF TypeOK, CtxCall, Fault, GwUnchanged, GwSteps, wfVars, budget, stores
  <1>1. /\ [row EXCEPT !.status = "pending"] \in Rows
        /\ [row EXCEPT !.status = "running"] \in Rows
        /\ [row EXCEPT !.status = "failed", !.error = "start"] \in Rows
    BY DEF Rows, Causes, Statuses, Terminal
  <1>2. /\ [redis EXCEPT !.status = "pending"] \in Hashes
        /\ [redis EXCEPT !.status = "running"] \in Hashes
        /\ [redis EXCEPT !.status = "failed"] \in Hashes
    BY DEF Hashes, Statuses, Terminal
  <1>3. CASE CreateTask            BY <1>1, <1>2, <1>3 DEF CreateTask
  <1>4. CASE SetTaskStatus         BY <1>1, <1>2, <1>4 DEF SetTaskStatus
  <1>5. CASE ExecuteWorkflow
    BY <1>5 DEF ExecuteWorkflow, WfSteps, EmitSteps, EventOf
  <1>6. CASE UpdateTaskErrorRow    BY <1>1, <1>2, <1>6 DEF UpdateTaskErrorRow
  <1>7. CASE UpdateTaskErrorCache  BY <1>1, <1>2, <1>7 DEF UpdateTaskErrorCache
  <1>8. CASE UpdateTaskRunning     BY <1>1, <1>2, <1>8 DEF UpdateTaskRunning
  <1>9. CASE CreateExecution       BY <1>9 DEF CreateExecution
  <1>10. CASE UpdateCacheRunning   BY <1>1, <1>2, <1>10 DEF UpdateCacheRunning
  <1>11. CASE EmitTaskCreated      BY <1>11 DEF EmitTaskCreated, EventTypes
  <1> QED
    BY <1>3, <1>4, <1>5, <1>6, <1>7, <1>8, <1>9, <1>10, <1>11 DEF Gateway

\* A conditional save keeps the types, if what it would write has them.
LEMMA SaveRowType ==
    ASSUME TypeOK, NEW match \in BOOLEAN, NEW newRow, NEW newRedis,
           newRow \in Rows,
           newRedis \in Hashes,
           NEW next \in WfSteps, NEW onError \in WfSteps,
           cause' \in Causes,
           SaveRow(match, newRow, newRedis, next, onError)
    PROVE  TypeOK'
  <1>1. PICK written \in BOOLEAN, cached \in BOOLEAN, reported \in BOOLEAN :
            /\ row' = IF written THEN newRow ELSE row
            /\ redis' = IF cached THEN newRedis ELSE redis
            /\ Outcome(reported, match => cached, next, onError)
            /\ UNCHANGED <<budget, exec, ledger, events, session>> /\ WfUnchanged
    BY DEF SaveRow
  <1>2. /\ wf' \in WfSteps /\ att' \in 0..(MaxAttempts - 1)
        /\ faults' \in 0..MaxFaults
    BY <1>1, OutcomeType
  <1> QED BY <1>1, <1>2 DEF TypeOK, budget, WfUnchanged, gwVars

\* Every activity of the workflow keeps the types.
LEMMA WorkflowType ==
    ASSUME TypeOK, Workflow
    PROVE  TypeOK'
  <1> USE DEF WfUnchanged, gwVars, budget, stores
  <1>0. {"none", "EmitSessionLoaded", "stuck", "EmitToolFailed", "Estimate",
         "EmitToolCompleted", "CheckBudget", "EmitLLMStarted", "SaveFailure",
         "EmitLLMCompleted", "EmitUsage", "SaveResult", "RecordCompleted",
         "RecordFailed", "EmitCompleted", "EmitFailed"} \subseteq WfSteps
    BY DEF WfSteps, EmitSteps, EventOf
  <1>1. CASE EmitEvent
    <2>1. PICK added \in BOOLEAN, reported \in BOOLEAN :
            /\ events' = IF added THEN Append(events, Event) ELSE events
            /\ Outcome(reported, added, AfterEmit[wf], AfterEmit[wf])
      BY <1>1 DEF EmitEvent
    <2>2. Event \in EventTypes /\ AfterEmit[wf] \in WfSteps
      BY <1>1, EventType DEF EmitEvent
    <2>3. /\ wf' \in WfSteps /\ att' \in 0..(MaxAttempts - 1)
          /\ faults' \in 0..MaxFaults
      BY <2>1, <2>2, OutcomeType
    <2> QED BY <1>1, <2>1, <2>2, <2>3 DEF EmitEvent, TypeOK, Causes
  <1>2. CASE LoadSession
    BY <1>0, <1>2, OutcomeType DEF LoadSession, TypeOK
  <1>3. CASE ExecuteTool
    <2>1. PICK reported \in BOOLEAN, failed \in BOOLEAN :
            Outcome(reported, TRUE,
               IF failed THEN "EmitToolFailed" ELSE "EmitToolCompleted", "Estimate")
      BY <1>3 DEF ExecuteTool
    <2>2. /\ wf' \in WfSteps /\ att' \in 0..(MaxAttempts - 1)
          /\ faults' \in 0..MaxFaults
      BY <1>0, <2>1, OutcomeType
    <2> QED BY <1>3, <2>2 DEF ExecuteTool, TypeOK, Causes
  <1>4. CASE Estimate
    <2>1. PICK reported \in BOOLEAN, e \in Estimates :
            /\ Outcome(reported, TRUE, "CheckBudget", "stuck")
            /\ est' = IF reported THEN e ELSE est
      BY <1>4 DEF Estimate
    <2>2. est' \in Nat
      BY <2>1, BudgetAssumption DEF TypeOK
    <2> QED BY <1>0, <1>4, <2>1, <2>2, OutcomeType DEF Estimate, TypeOK
  <1>5. CASE CheckBudget
    <2>1. PICK reported \in BOOLEAN :
            /\ Outcome(reported, TRUE,
                       IF BudgetAllows(est, req.maxTotal) THEN "EmitLLMStarted"
                       ELSE "SaveFailure", "stuck")
            /\ allowed' = IF reported
                          THEN AllowedCompletion(est, req.maxTotal, req.maxCompletion)
                          ELSE allowed
      BY <1>5 DEF CheckBudget
    <2>2. req.maxTotal \in Int /\ req.maxCompletion \in Int
      BY BudgetAssumption DEF TypeOK, Requests
    <2>3. allowed' \in Nat
      BY <2>1, <2>2, AllowanceFits DEF TypeOK
    <2>4. /\ wf' \in WfSteps /\ att' \in 0..(MaxAttempts - 1)
          /\ faults' \in 0..MaxFaults
      BY <1>0, <2>1, OutcomeType
    <2> QED BY <1>5, <2>3, <2>4 DEF CheckBudget, TypeOK, Causes
  <1>6. CASE Agent
    <2>1. PICK called \in BOOLEAN, reported \in BOOLEAN, u \in Usages :
            /\ llm' = IF called THEN llm + 1 ELSE llm
            /\ used' = IF reported THEN u ELSE used
            /\ IF allowed > 0
                 THEN Outcome(reported, TRUE, "EmitLLMCompleted", "SaveFailure")
                 ELSE /\ UNCHANGED faults
                      /\ IF att + 1 = MaxAttempts THEN att' = 0 /\ wf' = "SaveFailure"
                         ELSE att' = att + 1 /\ wf' = wf
      BY <1>6 DEF Agent, Refused
    <2>2. llm' \in Nat /\ used' \in Nat
      BY <2>1, BudgetAssumption DEF TypeOK
    <2>3. /\ wf' \in WfSteps /\ att' \in 0..(MaxAttempts - 1)
          /\ faults' \in 0..MaxFaults
      <3>1. CASE allowed > 0       BY <1>0, <2>1, <3>1, OutcomeType
      <3>2. CASE ~(allowed > 0)    BY <1>0, <2>1, <3>2, RetryAssumption DEF TypeOK
      <3> QED BY <3>1, <3>2
    <2> QED BY <1>6, <2>2, <2>3 DEF Agent, Refused, TypeOK, Causes
  <1>7. CASE RecordUsage
    <2>1. /\ wf' \in WfSteps /\ att' \in 0..(MaxAttempts - 1)
          /\ faults' \in 0..MaxFaults
      BY <1>0, <1>7, OutcomeType DEF RecordUsage
    <2> QED BY <1>7, <2>1 DEF RecordUsage, TypeOK
  <1>8. CASE SaveSession
    <2>1. PICK pushed \in 0..2, reported \in BOOLEAN :
            /\ session' = session \o SubSeq(<<"user", "assistant">>, 1, pushed)
            /\ Outcome(reported, TRUE, "SaveResult", "SaveResult")
      BY <1>8 DEF SaveSession
    <2>2. SubSeq(<<"user", "assistant">>, 1, pushed) \in Seq({"user", "assistant"})
      OBVIOUS
    <2>3. session' \in Seq({"user", "assistant"})
      BY <2>1, <2>2 DEF TypeOK
    <2>4. /\ wf' \in WfSteps /\ att' \in 0..(MaxAttempts - 1)
          /\ faults' \in 0..MaxFaults
      BY <1>0, <2>1, OutcomeType
    <2> QED BY <1>8, <2>3, <2>4 DEF SaveSession, TypeOK
  <1>9. CASE SaveResult
    <2>1. cause' \in Causes
      BY <1>9 DEF SaveResult, TypeOK, Causes
    <2>2. /\ [row EXCEPT !.status = "completed", !.result = "answer", !.usage = used]
               \in Rows
          /\ [redis EXCEPT !.status = "completed", !.result = "answer"]
                 \in Hashes
      BY DEF TypeOK, Rows, Hashes, Statuses, Terminal
    <2>3. ResultMatches \in BOOLEAN
      BY DEF ResultMatches
    <2> QED BY <1>0, <1>9, <2>1, <2>2, <2>3, SaveRowType DEF SaveResult
  <1>10. CASE SaveToolResult
    <2>1. cause' \in Causes
      BY <1>10 DEF SaveToolResult, TypeOK
    <2>2. /\ [row EXCEPT !.status = "completed", !.result = "tool"]
               \in Rows
          /\ [redis EXCEPT !.status = "completed", !.result = "tool"]
                 \in Hashes
      BY DEF TypeOK, Rows, Hashes, Statuses, Terminal
    <2>3. ResultMatches \in BOOLEAN
      BY DEF ResultMatches
    <2> QED BY <1>0, <1>10, <2>1, <2>2, <2>3, SaveRowType DEF SaveToolResult
  <1>11. CASE SaveFailure
    <2>1. cause' \in Causes
      BY <1>11 DEF SaveFailure, TypeOK
    <2>2. /\ [row EXCEPT !.status = FailureStatus, !.error = cause]
               \in Rows
          /\ [redis EXCEPT !.status = FailureStatus]
                 \in Hashes
      BY DEF TypeOK, Rows, Hashes, Statuses, Terminal, FailureStatus
    <2>3. FailureMatches \in BOOLEAN
      BY DEF FailureMatches
    <2> QED BY <1>0, <1>11, <2>1, <2>2, <2>3, SaveRowType DEF SaveFailure
  <1>12. CASE RecordCompleted
    <2>1. /\ wf' \in WfSteps /\ att' \in 0..(MaxAttempts - 1)
          /\ faults' \in 0..MaxFaults
      BY <1>0, <1>12, OutcomeType DEF RecordCompleted, RecordExec
    <2> QED BY <1>12, <2>1 DEF RecordCompleted, RecordExec, TypeOK
  <1>13. CASE RecordFailed
    <2>1. /\ wf' \in WfSteps /\ att' \in 0..(MaxAttempts - 1)
          /\ faults' \in 0..MaxFaults
      BY <1>0, <1>13, OutcomeType DEF RecordFailed, RecordExec
    <2> QED BY <1>13, <2>1 DEF RecordFailed, RecordExec, TypeOK
  <1> QED
    BY <1>1, <1>2, <1>3, <1>4, <1>5, <1>6, <1>7, <1>8, <1>9, <1>10, <1>11,
       <1>12, <1>13 DEF Workflow

\* The initial state of Init has the types of TypeOK.
LEMMA InitType == Init => TypeOK
  <1> SUFFICES ASSUME Init PROVE TypeOK
    OBVIOUS
  <1>1. row \in Rows /\ redis \in Hashes
    BY DEF Init, Rows, Hashes, Statuses, Causes
  <1>2. gw \in GwSteps /\ wf \in WfSteps /\ cause \in Causes
    BY DEF Init, GwSteps, WfSteps, Causes
  <1>3. att \in 0..(MaxAttempts - 1) /\ faults \in 0..MaxFaults
    BY RetryAssumption DEF Init
  <1>4. /\ exec \in [status: {"none", "running", "completed", "failed"},
                     runId: {InputRunID, RunID}]
        /\ events \in Seq(EventTypes) /\ session \in Seq({"user", "assistant"})
    BY DEF Init
  <1>5. /\ req \in Requests /\ gone \in BOOLEAN /\ ledger \in Nat
        /\ est \in Nat /\ allowed \in Nat /\ used \in Nat /\ llm \in Nat
    BY DEF Init
  <1> QED BY <1>1, <1>2, <1>3, <1>4, <1>5 DEF TypeOK

\* No step of either party, and no stutter, leaves the types.
LEMMA TypeStep == TypeOK /\ [Next]_vars => TypeOK'
  <1> SUFFICES ASSUME TypeOK, [Next]_vars PROVE TypeOK'
    OBVIOUS
  <1>1. CASE Gateway          BY <1>1, GatewayType
  <1>2. CASE ClientHangsUp
    BY <1>2 DEF ClientHangsUp, TypeOK, wfVars, budget, stores
  <1>3. CASE GatewayCrash
    BY <1>3, RetryAssumption DEF GatewayCrash, TypeOK, Fault, GwSteps, wfVars, budget, stores
  <1>4. CASE Workflow         BY <1>4, WorkflowType
  <1>5. CASE UNCHANGED vars
    BY <1>5 DEF vars, TypeOK, gwVars, wfVars, budget, stores
  <1> QED BY <1>1, <1>2, <1>3, <1>4, <1>5 DEF Next, Finished

\* Type correctness of the task life cycle.
THEOREM TypeCorrect == Spec => []TypeOK
  <1> QED BY InitType, TypeStep, PTL DEF Spec

-----------------------------------------------------------------------------
(* The inductive invariant *)

\* Before createTask has run the strengthened invariant holds.
LEMMA InitSafe == Init => SafeInv
  BY DEF Init, SafeInv, GatewayPhase, LlmPhase, ResultPhase, CompletedIsTrue,
         CacheNeverAhead, NotYetRunning, BeforeLlm, Answered

\* The gateway preserves the invariant: where it writes the row, the row
\* cannot be completed yet.
LEMMA GatewaySafe ==
    ASSUME IInv, Gateway
    PROVE  SafeInv'
  <1> USE DEF IInv, SafeInv, GatewayPhase, LlmPhase, ResultPhase, CompletedIsTrue,
              CacheNeverAhead, NotYetRunning, BeforeLlm, Answered, Affordable,
              OverBudget, MayBeCompleted, GwUnchanged, wfVars, budget, stores
  <1> TypeOK
    OBVIOUS
  <1>1. CASE CreateTask
    BY <1>1 DEF CreateTask, TypeOK, Rows
  <1>2. CASE SetTaskStatus
    BY <1>2 DEF SetTaskStatus, TypeOK, Hashes
  <1>3. CASE ExecuteWorkflow
    BY <1>3 DEF ExecuteWorkflow
  <1>4. CASE UpdateTaskErrorRow
    BY <1>4 DEF UpdateTaskErrorRow, TypeOK, Rows
  <1>5. CASE UpdateTaskErrorCache
    BY <1>5 DEF UpdateTaskErrorCache, TypeOK, Hashes
  <1>6. CASE UpdateTaskRunning
    BY <1>6 DEF UpdateTaskRunning, TypeOK, Rows
  <1>7. CASE CreateExecution
    BY <1>7 DEF CreateExecution
  <1>8. CASE UpdateCacheRunning
    BY <1>8 DEF UpdateCacheRunning, TypeOK, Hashes
  <1>9. CASE EmitTaskCreated
    BY <1>9 DEF EmitTaskCreated
  <1> QED
    BY <1>1, <1>2, <1>3, <1>4, <1>5, <1>6, <1>7, <1>8, <1>9 DEF Gateway

\* What an attempt can do to the workflow's position and attempt counter.
LEMMA OutcomeStep ==
    ASSUME NEW reported \in BOOLEAN, NEW clean \in BOOLEAN, NEW next, NEW onError,
           Outcome(reported, clean, next, onError)
    PROVE  \/ reported /\ wf' = next
           \/ ~reported /\ wf' = wf /\ att' = att + 1
           \/ ~reported /\ wf' = onError /\ att + 1 = MaxAttempts
  BY DEF Outcome

\* The attempt counter stays a natural number.
LEMMA OutcomeAtt ==
    ASSUME TypeOK, NEW reported \in BOOLEAN, NEW clean \in BOOLEAN, NEW next,
           NEW onError, Outcome(reported, clean, next, onError)
    PROVE  att' \in Nat
  BY RetryAssumption DEF Outcome, TypeOK

\* A conditional save that writes a completed row does so only from a running
\* row; one that finds no such row leaves row and hash alone.
LEMMA SaveRowStep ==
    ASSUME NEW match \in BOOLEAN, NEW newRow, NEW newRedis, NEW next, NEW onError,
           SaveRow(match, newRow, newRedis, next, onError)
    PROVE  /\ \/ row' = row /\ redis' = redis
              \/ match /\ row' = newRow /\ redis' \in {redis, newRedis}
           /\ wf' \in {wf, next, onError}
           /\ UNCHANGED <<req, gw, est, allowed, used, llm>>
  <1>1. PICK written \in BOOLEAN, cached \in BOOLEAN, reported \in BOOLEAN :
            /\ written => match
            /\ cached => written
            /\ row' = IF written THEN newRow ELSE row
            /\ redis' = IF cached THEN newRedis ELSE redis
            /\ Outcome(reported, match => cached, next, onError)
            /\ UNCHANGED <<budget, exec, ledger, events, session>> /\ WfUnchanged
    BY DEF SaveRow
  <1>2. wf' \in {wf, next, onError}
    BY <1>1, OutcomeStep
  <1> QED BY <1>1, <1>2 DEF budget, WfUnchanged, gwVars

\* The WHERE conditions of the conditional saves are Boolean.
LEMMA MatchType == ResultMatches \in BOOLEAN /\ FailureMatches \in BOOLEAN
  BY DEF ResultMatches, FailureMatches

\* The workflow preserves the invariant: what it stores it has just computed.
LEMMA WorkflowSafe ==
    ASSUME IInv, Workflow
    PROVE  SafeInv'
  <1> USE DEF IInv, SafeInv, GatewayPhase, LlmPhase, ResultPhase, CompletedIsTrue,
              CacheNeverAhead, NotYetRunning, BeforeLlm, Answered, Affordable,
              OverBudget, MayBeCompleted, WfUnchanged, gwVars, budget, stores
  <1> TypeOK
    OBVIOUS
  <1>1. CASE EmitEvent
    <2>1. PICK added \in BOOLEAN, reported \in BOOLEAN :
            Outcome(reported, added, AfterEmit[wf], AfterEmit[wf])
      BY <1>1 DEF EmitEvent
    <2>2. wf' = wf \/ wf' = AfterEmit[wf]
      BY <2>1, OutcomeStep
    <2>3. wf' = wf => SafeInv'
      BY <1>1, <2>1, <2>2, RetryAssumption
      DEF EmitEvent, EmitSteps, EventOf
    <2>4. CASE wf' = AfterEmit[wf]
      <3>1. \/ wf = "EmitStarted" /\ wf' = "LoadSession"
            \/ wf = "EmitSessionLoaded" /\ wf' \in {"EmitToolStarted", "Estimate"}
            \/ wf = "EmitToolStarted" /\ wf' = "ExecuteTool"
            \/ wf = "EmitToolFailed" /\ wf' = "SaveFailure"
            \/ wf = "EmitToolCompleted" /\ wf' = "SaveToolResult"
            \/ wf = "EmitLLMStarted" /\ wf' = "Agent"
            \/ wf = "EmitLLMCompleted" /\ wf' = "RecordUsage"
            \/ wf = "EmitUsage" /\ OverBudget /\ wf' = "SaveFailure"
            \/ wf = "EmitUsage" /\ ~OverBudget /\ wf' \in {"SaveSession", "SaveResult"}
            \/ wf \in {"EmitCompleted", "EmitFailed"} /\ wf' = "ended"
        BY <1>1, <2>4 DEF EmitEvent, EmitSteps, EventOf, AfterEmit, AfterUsage, Return
      <3>2. /\ UNCHANGED <<req, gw, row, redis, est, allowed, used, llm>>
            /\ att' \in Nat
        BY <1>1, <2>1, OutcomeAtt DEF EmitEvent
      <3> QED BY <3>1, <3>2
    <2> QED BY <2>2, <2>3, <2>4
  <1>2. CASE LoadSession
    BY <1>2 DEF LoadSession, Outcome
  <1>3. CASE ExecuteTool
    BY <1>3 DEF ExecuteTool, Outcome
  <1>4. CASE Estimate
    BY <1>4 DEF Estimate, Outcome
  <1>5. CASE CheckBudget
    BY <1>5 DEF CheckBudget, Outcome
  <1>6. CASE Agent
    BY <1>6, RetryAssumption DEF Agent, Refused, Outcome, TypeOK
  <1>7. CASE RecordUsage
    BY <1>7 DEF RecordUsage, Outcome
  <1>8. CASE SaveSession
    BY <1>8 DEF SaveSession, Outcome
  <1>9. CASE SaveResult
    <2>1. /\ \/ row' = row /\ redis' = redis
             \/ /\ ResultMatches
                /\ row' = [row EXCEPT !.status = "completed", !.result = "answer",
                                      !.usage = used]
                /\ redis' \in {redis, [redis EXCEPT !.status = "completed",
                                                    !.result = "answer"]}
          /\ wf' \in {"SaveResult", "RecordCompleted", "SaveFailure"}
          /\ UNCHANGED <<req, gw, est, allowed, used, llm>>
      BY <1>9, MatchType, SaveRowStep DEF SaveResult
    <2> QED BY <1>9, <2>1 DEF SaveResult, ResultMatches, TypeOK, Rows, Hashes
  <1>10. CASE SaveToolResult
    <2> DEFINE Wrote ==
          /\ ResultMatches
          /\ row' = [row EXCEPT !.status = "completed", !.result = "tool"]
          /\ redis' \in {redis, [redis EXCEPT !.status = "completed",
                                              !.result = "tool"]}
    <2>1. /\ (row' = row /\ redis' = redis) \/ Wrote
          /\ wf' \in {"SaveToolResult", "RecordCompleted"}
          /\ UNCHANGED <<req, gw, est, allowed, used, llm>>
      BY <1>10, MatchType, SaveRowStep DEF SaveToolResult
    <2>2. CASE row' = row /\ redis' = redis
      BY <1>10, <2>1, <2>2 DEF SaveToolResult
    <2>3. CASE Wrote
      <3>1. /\ row'.status = "completed" /\ row'.result = "tool"
            /\ row'.usage = row.usage /\ row.status = "running"
        BY <2>3 DEF ResultMatches, TypeOK, Rows
      <3>2. \/ redis' = redis
            \/ redis'.status = "completed" /\ redis'.result = "tool"
        BY <2>3 DEF TypeOK, Hashes
      <3> HIDE DEF Wrote
      <3> QED BY <1>10, <2>1, <3>1, <3>2 DEF SaveToolResult
    <2> HIDE DEF Wrote
    <2> QED BY <2>1, <2>2, <2>3
  <1>11. CASE SaveFailure
    <2> DEFINE Wrote ==
          /\ FailureMatches
          /\ row' = [row EXCEPT !.status = FailureStatus, !.error = cause]
          /\ redis' \in {redis, [redis EXCEPT !.status = FailureStatus]}
    <2>1. /\ (row' = row /\ redis' = redis) \/ Wrote
          /\ wf' \in {"SaveFailure", "RecordFailed"}
          /\ UNCHANGED <<req, gw, est, allowed, used, llm>>
      BY <1>11, MatchType, SaveRowStep DEF SaveFailure
    <2>2. FailureStatus \in {"failed", "budget_exceeded"}
      BY DEF FailureStatus
    <2>3. CASE row' = row /\ redis' = redis
      BY <1>11, <2>1, <2>3 DEF SaveFailure
    <2>4. CASE Wrote
      <3>1. /\ row'.status = FailureStatus /\ row'.result = row.result
            /\ row'.usage = row.usage /\ row.status \in {"pending", "running"}
        BY <2>4 DEF FailureMatches, TypeOK, Rows
      <3>2. \/ redis' = redis
            \/ redis'.status = FailureStatus /\ redis'.result = redis.result
        BY <2>4 DEF TypeOK, Hashes
      <3> HIDE DEF Wrote
      <3> QED BY <1>11, <2>1, <2>2, <3>1, <3>2 DEF SaveFailure
    <2> HIDE DEF Wrote
    <2> QED BY <2>1, <2>3, <2>4
  <1>12. CASE RecordCompleted
    BY <1>12 DEF RecordCompleted, RecordExec, Outcome
  <1>13. CASE RecordFailed
    BY <1>13 DEF RecordFailed, RecordExec, Outcome
  <1> QED
    BY <1>1, <1>2, <1>3, <1>4, <1>5, <1>6, <1>7, <1>8, <1>9, <1>10, <1>11,
       <1>12, <1>13 DEF Workflow

\* The invariant is inductive.
LEMMA SafeStep == IInv /\ [Next]_vars => IInv'
  <1> SUFFICES ASSUME IInv, [Next]_vars PROVE IInv'
    OBVIOUS
  <1>1. TypeOK'
    BY TypeStep DEF IInv
  <1> USE DEF IInv, SafeInv, GatewayPhase, LlmPhase, ResultPhase, CompletedIsTrue,
              CacheNeverAhead, Affordable, OverBudget
  <1>2. CASE Gateway
    BY <1>1, <1>2, GatewaySafe
  <1>3. CASE ClientHangsUp
    BY <1>1, <1>3 DEF ClientHangsUp, wfVars, budget, stores
  <1>4. CASE GatewayCrash
    BY <1>1, <1>4 DEF GatewayCrash, NotYetRunning, wfVars, budget, stores
  <1>5. CASE Workflow
    BY <1>1, <1>5, WorkflowSafe
  <1>6. CASE UNCHANGED vars
    BY <1>1, <1>6 DEF vars, gwVars, wfVars, budget, stores
  <1> QED BY <1>2, <1>3, <1>4, <1>5, <1>6 DEF Next, Finished

\* The strengthened invariant holds in every reachable state.
THEOREM Invariance == Spec => []IInv
  <1>1. Init => IInv
    BY InitType, InitSafe DEF IInv
  <1> QED BY <1>1, SafeStep, PTL DEF Spec

\* The LLM service is never called beyond what CheckBudget allowed, for every
\* budget, estimate and number of retries.
THEOREM SpendIsBounded == Spec => []SpendWithinBudget
  <1>1. IInv => SpendWithinBudget
    <2> SUFFICES ASSUME IInv, llm > 0 PROVE SpendWithinBudget
      BY DEF SpendWithinBudget
    <2>1. /\ est \in Nat /\ req.maxTotal \in Int /\ req.maxCompletion \in Int
      BY BudgetAssumption DEF IInv, TypeOK, Requests
    <2>2. /\ BudgetAllows(est, req.maxTotal)
          /\ allowed = AllowedCompletion(est, req.maxTotal, req.maxCompletion)
          /\ allowed > 0 /\ llm <= MaxAttempts
      BY DEF IInv, SafeInv, LlmPhase, Affordable
    <2> QED BY <2>1, <2>2, AllowanceFits DEF SpendWithinBudget
  <1> QED BY <1>1, Invariance, PTL

\* A completed row always tells the truth about how it was produced.
THEOREM CompletedTruth == Spec => []CompletedIsTrue
  <1>1. IInv => CompletedIsTrue
    BY DEF IInv, SafeInv
  <1> QED BY <1>1, Invariance, PTL

\* The status cache never reports completed ahead of the database.
THEOREM CacheBehindDatabase == Spec => []CacheNeverAhead
  <1>1. IInv => CacheNeverAhead
    BY DEF IInv, SafeInv
  <1> QED BY <1>1, Invariance, PTL

\* The only activities that write the tasks row are the three conditional saves.
LEMMA WorkflowRowWrites ==
    ASSUME IInv, Workflow, row' # row
    PROVE  row.status \in {"pending", "running"}
  <1> USE DEF budget, stores
  <1>1. CASE SaveResult
    BY <1>1, MatchType, SaveRowStep DEF SaveResult, ResultMatches
  <1>2. CASE SaveToolResult
    BY <1>2, MatchType, SaveRowStep DEF SaveToolResult, ResultMatches
  <1>3. CASE SaveFailure
    <2>1. FailureMatches
      BY <1>3, MatchType, SaveRowStep DEF SaveFailure
    <2> QED BY <2>1 DEF FailureMatches
  <1>4. CASE EmitEvent \/ LoadSession \/ ExecuteTool \/ Estimate \/ CheckBudget
             \/ Agent \/ RecordUsage \/ SaveSession \/ RecordCompleted \/ RecordFailed
    BY <1>4 DEF EmitEvent, LoadSession, ExecuteTool, Estimate, CheckBudget, Agent,
                RecordUsage, SaveSession, RecordCompleted, RecordFailed, RecordExec
  <1> QED BY <1>1, <1>2, <1>3, <1>4 DEF Workflow

\* No activity attempt ever changes a row in a terminal state.
THEOREM TerminalKept == Spec => WorkflowKeepsTerminal
  <1>1. IInv /\ [Next]_vars => [Workflow /\ row.status \in Terminal => row' = row]_vars
    BY WorkflowRowWrites DEF Terminal
  <1> QED BY <1>1, Invariance, PTL DEF Spec, WorkflowKeepsTerminal

\* Nothing at all changes a completed row: neither the gateway nor a retry.
LEMMA CompletedStep ==
    ASSUME IInv, [Next]_vars, row.status = "completed"
    PROVE  row' = row
  <1> USE DEF IInv, SafeInv, GatewayPhase, NotYetRunning, GwUnchanged
  <1>1. CASE Workflow
    BY <1>1, WorkflowRowWrites
  <1>2. CASE Gateway
    BY <1>2 DEF Gateway, CreateTask, SetTaskStatus, ExecuteWorkflow,
         UpdateTaskErrorRow, UpdateTaskErrorCache, UpdateTaskRunning,
         CreateExecution, UpdateCacheRunning, EmitTaskCreated, stores
  <1>3. CASE ClientHangsUp \/ GatewayCrash \/ UNCHANGED vars
    BY <1>3 DEF ClientHangsUp, GatewayCrash, vars, stores
  <1> QED BY <1>1, <1>2, <1>3 DEF Next, Finished

\* A completed task is final.
THEOREM CompletedFinality == Spec => CompletedIsFinal
  <1>1. IInv /\ [Next]_vars => [row.status = "completed" => row' = row]_vars
    BY CompletedStep
  <1> QED BY <1>1, Invariance, PTL DEF Spec, CompletedIsFinal

-----------------------------------------------------------------------------
(* The write-once register *)

\* The result in the Redis hash changes only together with the row's.
LEMMA HashResultStep ==
    ASSUME IInv, [Next]_vars
    PROVE  \/ redis'.result = redis.result
           \/ /\ row.status = "running" /\ row'.status = "completed"
              /\ redis'.result = row'.result
  <1> USE DEF GwUnchanged, budget, stores
  <1>0. row \in Rows /\ redis \in Hashes
    BY DEF IInv, TypeOK
  <1>1. CASE Gateway
    BY <1>0, <1>1 DEF Gateway, CreateTask, SetTaskStatus, ExecuteWorkflow,
         UpdateTaskErrorRow, UpdateTaskErrorCache, UpdateTaskRunning,
         CreateExecution, UpdateCacheRunning, EmitTaskCreated, Hashes
  <1>2. CASE ClientHangsUp \/ GatewayCrash \/ UNCHANGED vars
    BY <1>2 DEF ClientHangsUp, GatewayCrash, vars
  <1>3. CASE SaveResult
    <2>1. \/ redis' = redis
          \/ /\ ResultMatches
             /\ row' = [row EXCEPT !.status = "completed", !.result = "answer",
                                   !.usage = used]
             /\ redis' \in {redis, [redis EXCEPT !.status = "completed",
                                                 !.result = "answer"]}
      BY <1>3, MatchType, SaveRowStep DEF SaveResult
    <2> QED BY <1>0, <2>1 DEF ResultMatches, Rows, Hashes
  <1>4. CASE SaveToolResult
    <2>1. \/ redis' = redis
          \/ /\ ResultMatches
             /\ row' = [row EXCEPT !.status = "completed", !.result = "tool"]
             /\ redis' \in {redis, [redis EXCEPT !.status = "completed",
                                                 !.result = "tool"]}
      BY <1>4, MatchType, SaveRowStep DEF SaveToolResult
    <2> QED BY <1>0, <2>1 DEF ResultMatches, Rows, Hashes
  <1>5. CASE SaveFailure
    <2>1. redis' = redis \/ redis' = [redis EXCEPT !.status = FailureStatus]
      BY <1>5, MatchType, SaveRowStep DEF SaveFailure
    <2> QED BY <1>0, <2>1 DEF Hashes
  <1>6. CASE EmitEvent \/ LoadSession \/ ExecuteTool \/ Estimate \/ CheckBudget
             \/ Agent \/ RecordUsage \/ SaveSession \/ RecordCompleted \/ RecordFailed
    BY <1>6 DEF EmitEvent, LoadSession, ExecuteTool, Estimate, CheckBudget, Agent,
                RecordUsage, SaveSession, RecordCompleted, RecordFailed, RecordExec
  <1> QED BY <1>1, <1>2, <1>3, <1>4, <1>5, <1>6 DEF Next, Workflow, Finished

\* Polling clients see a write-once answer: the tasks row together with the
\* Redis hash implements ResultRegister.
THEOREM Refinement == Spec => PublishesOnce
  <1> DEFINE Published == IF row.status = "completed" THEN row.result ELSE "none"
  <1>1. Init => Register!Init
    BY DEF Init, Register!Init
  <1>2. IInv /\ IInv' /\ [Next]_vars => [Register!Next]_<<Published, redis.result>>
    <2> SUFFICES ASSUME IInv, IInv', [Next]_vars
                 PROVE  Register!Next \/ UNCHANGED <<Published, redis.result>>
      OBVIOUS
    <2>0. row.result \in {"none", "answer", "tool"} /\ row'.result \in {"none", "answer", "tool"}
      BY DEF IInv, TypeOK, Rows
    <2>1. CASE row.status = "completed"
      <3>1. row' = row
        BY <2>1, CompletedStep
      <3>2. redis'.result = redis.result
        BY <2>1, HashResultStep
      <3> QED BY <3>1, <3>2
    <2>2. CASE row.status # "completed" /\ row'.status # "completed"
      <3>1. redis'.result = redis.result
        BY <2>2, HashResultStep
      <3> QED BY <2>2, <3>1
    <2>3. CASE row.status # "completed" /\ row'.status = "completed"
      <3>1. row'.result \in {"answer", "tool"}
        BY <2>0, <2>3 DEF IInv, SafeInv, ResultPhase
      <3>2. redis.result = "none" /\ redis'.result \in {"none", row'.result}
        BY <2>3, HashResultStep DEF IInv, SafeInv, ResultPhase
      <3> QED BY <2>3, <3>1, <3>2 DEF Register!Next, Register!Publish
    <2> QED BY <2>1, <2>2, <2>3
  <1> QED BY <1>1, <1>2, Invariance, PTL DEF Spec, PublishesOnce, Register!Spec

-----------------------------------------------------------------------------
(* One verdict *)

Emitting == {"EmitCompleted", "EmitFailed"}

\* Until the last emission the stream holds no verdict; from then on only the one
\* that is being emitted.  OneVerdict alone does not say which verdict may still come.
VerdictInv ==
    /\ wf \notin Emitting \union {"ended"} =>
           \A i \in 1..Len(events) : events[i] \notin TerminalEvents
    /\ wf \in Emitting =>
           \A i \in 1..Len(events) : events[i] \in TerminalEvents => events[i] = Event
    /\ OneVerdict

\* What a stream holds after an event was added to it.
LEMMA StreamGrows ==
    ASSUME NEW s \in Seq(EventTypes), NEW e \in EventTypes, NEW i \in 1..Len(Append(s, e))
    PROVE  (i \in 1..Len(s) /\ Append(s, e)[i] = s[i]) \/ Append(s, e)[i] = e
  OBVIOUS

\* Only the last step of either path emits a verdict.
LEMMA VerdictEvents ==
    ASSUME wf \in EmitSteps PROVE (Event \in TerminalEvents) <=> (wf \in Emitting)
  BY DEF Event, EventOf, EmitSteps, TerminalEvents, Emitting

\* The activities between two emissions add nothing to the stream.
LEMMA SilentStep ==
    ASSUME Workflow, ~EmitEvent
    PROVE  events' = events /\ wf \notin Emitting \union {"ended"}
  <1>1. \A match, newRow, newRedis, next, onError :
           SaveRow(match, newRow, newRedis, next, onError) => events' = events
    BY DEF SaveRow
  <1>2. CASE SaveResult \/ SaveToolResult \/ SaveFailure
    BY <1>1, <1>2 DEF SaveResult, SaveToolResult, SaveFailure, Emitting
  <1>3. CASE LoadSession \/ ExecuteTool \/ Estimate \/ CheckBudget \/ Agent
             \/ RecordUsage \/ SaveSession \/ RecordCompleted \/ RecordFailed
    BY <1>3 DEF LoadSession, ExecuteTool, Estimate, CheckBudget, Agent, RecordUsage,
       SaveSession, RecordCompleted, RecordFailed, RecordExec, stores, Emitting
  <1> QED BY <1>2, <1>3 DEF Workflow

LEMMA VerdictStep == ASSUME IInv, VerdictInv, [Next]_vars PROVE VerdictInv'
  <1>0. events \in Seq(EventTypes)
    BY DEF IInv, TypeOK
  <1>1. CASE EmitEvent
    <2>1. PICK added \in BOOLEAN, reported \in BOOLEAN :
            /\ events' = IF added THEN Append(events, Event) ELSE events
            /\ Outcome(reported, added, AfterEmit[wf], AfterEmit[wf])
            /\ cause' = IF wf = "EmitUsage" /\ OverBudget /\ wf' = "SaveFailure"
                        THEN "budget" ELSE cause
      BY <1>1 DEF EmitEvent
    <2>2. wf \in EmitSteps /\ wf' \in {wf, AfterEmit[wf]} /\ Event \in EventTypes
      BY <1>1, <2>1, OutcomeStep, EventType DEF EmitEvent
    <2>3. \A i \in 1..Len(events)' :
             (i \in 1..Len(events) /\ events'[i] = events[i]) \/ events'[i] = Event
      BY <1>0, <2>1, <2>2, StreamGrows
    <2>4. CASE wf \in Emitting
      <3>1. \A i \in 1..Len(events)' : events'[i] \in TerminalEvents => events'[i] = Event
        BY <2>3, <2>4 DEF VerdictInv
      <3>2. OneVerdict'
        BY <3>1 DEF OneVerdict
      <3>3. wf' \in {wf, "ended"}
        BY <2>2, <2>4 DEF AfterEmit, Emitting, Return
      <3>4. wf' = wf => Event' = Event
        BY <2>1, <2>4 DEF Event, Emitting
      <3> QED BY <2>4, <3>1, <3>2, <3>3, <3>4 DEF VerdictInv, Emitting
    <2>5. CASE wf \notin Emitting
      <3>1. \A i \in 1..Len(events)' : events'[i] \notin TerminalEvents
        <4>1. Event \notin TerminalEvents
          BY <2>2, <2>5, VerdictEvents
        <4>2. wf # "ended"
          BY <2>2 DEF EmitSteps, EventOf
        <4> QED BY <2>3, <2>5, <4>1, <4>2 DEF VerdictInv
      <3> QED BY <3>1 DEF VerdictInv, OneVerdict
    <2> QED BY <2>4, <2>5
  <1>2. CASE Workflow /\ ~EmitEvent
    <2>1. \A i \in 1..Len(events)' : events'[i] \notin TerminalEvents
      BY <1>2, SilentStep DEF VerdictInv
    <2> QED BY <2>1 DEF VerdictInv, OneVerdict
  <1>3. CASE ExecuteWorkflow
    <2>1. events' = events /\ wf = "none"
      BY <1>3 DEF ExecuteWorkflow, stores, IInv, SafeInv, GatewayPhase
    <2>2. \A i \in 1..Len(events)' : events'[i] \notin TerminalEvents
      BY <2>1 DEF VerdictInv, Emitting
    <2> QED BY <2>2 DEF VerdictInv, OneVerdict
  <1>4. CASE EmitTaskCreated
    <2>1. /\ events' = Append(events, "TASK_CREATED") \/ events' = events
          /\ wf' = wf /\ cause' = cause
      BY <1>4 DEF EmitTaskCreated, GwUnchanged, wfVars
    <2>2. "TASK_CREATED" \in EventTypes /\ "TASK_CREATED" \notin TerminalEvents
      BY DEF EventTypes, TerminalEvents
    <2>3. \A i \in 1..Len(events)' : events'[i] \in TerminalEvents =>
             i \in 1..Len(events) /\ events'[i] = events[i]
      <3>1. \A i \in 1..Len(events)' :
               (i \in 1..Len(events) /\ events'[i] = events[i]) \/ events'[i] = "TASK_CREATED"
        BY <1>0, <2>1, <2>2, StreamGrows
      <3> QED BY <2>2, <3>1
    <2>4. Event' = Event
      BY <2>1 DEF Event
    <2>5. OneVerdict'
      BY <2>3 DEF VerdictInv, OneVerdict
    <2> QED BY <2>1, <2>3, <2>4, <2>5 DEF VerdictInv
  <1>5. CASE UNCHANGED <<events, wf, cause>>
    BY <1>5 DEF VerdictInv, OneVerdict, Event
  <1>6. \/ Workflow \/ ExecuteWorkflow \/ EmitTaskCreated
        \/ UNCHANGED <<events, wf, cause>>
    BY DEF Next, Gateway, CreateTask, SetTaskStatus, UpdateTaskErrorRow,
       UpdateTaskErrorCache, UpdateTaskRunning, CreateExecution, UpdateCacheRunning,
       ClientHangsUp, GatewayCrash, Finished, GwUnchanged, stores, wfVars, vars
  <1> QED BY <1>1, <1>2, <1>3, <1>4, <1>5, <1>6

\* The stream never contradicts itself about a task, however many attempts, lost
\* reports and late gateway events there are.
THEOREM VerdictIsOne == Spec => []OneVerdict
  <1>1. Init => VerdictInv
    BY DEF Init, VerdictInv, OneVerdict, Emitting
  <1>2. IInv /\ VerdictInv /\ [Next]_vars => VerdictInv'
    BY VerdictStep
  <1>3. VerdictInv => OneVerdict
    BY DEF VerdictInv
  <1> QED BY <1>1, <1>2, <1>3, Invariance, PTL DEF Spec

-----------------------------------------------------------------------------
(* Session memory *)

\* Steps from SaveSession on.
AfterAnswer == {"SaveSession", "SaveResult", "SaveFailure", "RecordCompleted",
                "EmitCompleted", "RecordFailed", "EmitFailed", "ended"}

\* A message is written after the budget was checked, and nothing the workflow
\* does later takes the answer or its cost back.
TurnInv ==
    /\ wf \notin {"SaveFailure", "RecordFailed", "EmitFailed", "ended"} => cause # "budget"
    /\ session # <<>> => wf \in AfterAnswer
    /\ MemoryOfAnsweredTurns

Paired(s) == \A i \in 1..Len(s) : s[i] = "assistant" => i > 1 /\ s[i - 1] = "user"

\* An attempt that stops after any of its pushes leaves the messages paired.
LEMMA PushesPair ==
    ASSUME NEW s \in Seq({"user", "assistant"}), Paired(s), NEW pushed \in 0..2
    PROVE  Paired(s \o SubSeq(<<"user", "assistant">>, 1, pushed))
  <1> DEFINE t == SubSeq(<<"user", "assistant">>, 1, pushed)
             u == s \o t
  <1>1. /\ t \in Seq({"user", "assistant"}) /\ Len(t) = pushed
        /\ pushed > 0 => t[1] = "user"
    OBVIOUS
  <1>2. /\ u \in Seq({"user", "assistant"}) /\ Len(u) = Len(s) + pushed
        /\ \A i \in 1..Len(s) : u[i] = s[i]
        /\ pushed > 0 => u[Len(s) + 1] = "user"
    BY <1>1
  <1> HIDE DEF t, u
  <1>3. ASSUME NEW i \in 1..Len(u), u[i] = "assistant"
        PROVE  i > 1 /\ u[i - 1] = "user"
    <2>1. Len(s) \in Nat /\ i \in Nat
      BY <1>2
    <2>2. CASE i \in 1..Len(s)
      <3>1. i > 1 /\ s[i - 1] = "user"
        BY <1>2, <1>3, <2>2 DEF Paired
      <3>2. i - 1 \in 1..Len(s)
        BY <2>1, <2>2, <3>1
      <3> QED BY <1>2, <3>1, <3>2
    <2>3. CASE i = Len(s) + 1
      BY <1>2, <1>3, <2>1, <2>3
    <2>4. CASE i = Len(s) + 2
      BY <1>2, <2>1, <2>4
    <2> QED BY <1>2, <2>1, <2>2, <2>3, <2>4
  <1> QED BY <1>3 DEF Paired, u, t

LEMMA TurnStep == ASSUME IInv, TurnInv, [Next]_vars PROVE TurnInv'
  <1> USE DEF TurnInv, MemoryOfAnsweredTurns, AfterAnswer, OverBudget
  <1>1. CASE EmitEvent
    <2>1. PICK added \in BOOLEAN, reported \in BOOLEAN :
            Outcome(reported, added, AfterEmit[wf], AfterEmit[wf])
      BY <1>1 DEF EmitEvent
    <2>2. wf' = wf \/ wf' = AfterEmit[wf]
      BY <2>1, OutcomeStep
    <2>3. /\ wf \in AfterAnswer => wf' \in {wf, "ended"}
          /\ wf \in AfterAnswer => wf \in Emitting
          /\ wf' \notin {"SaveFailure", "RecordFailed", "EmitFailed", "ended"} =>
                 wf \notin {"EmitFailed", "ended"}
      BY <1>1, <2>2 DEF EmitEvent, EmitSteps, EventOf, AfterEmit, Return, AfterUsage, Emitting
    <2>4. /\ UNCHANGED <<req, budget, session>> /\ wf \in EmitSteps
          /\ cause' = IF wf = "EmitUsage" /\ OverBudget /\ wf' = "SaveFailure"
                      THEN "budget" ELSE cause
      BY <1>1 DEF EmitEvent, WfUnchanged
    <2>5. wf' \notin {"SaveFailure", "RecordFailed", "EmitFailed", "ended"} => cause' # "budget"
      BY <2>3, <2>4 DEF EmitSteps, EventOf
    <2>6. session # <<>> => cause' = cause
      BY <2>4
    <2> QED BY <2>3, <2>4, <2>5, <2>6 DEF budget
  <1>2. CASE LoadSession
    BY <1>2 DEF LoadSession, Outcome, WfUnchanged, budget, stores
  <1>3. CASE ExecuteTool
    BY <1>3 DEF ExecuteTool, Outcome, WfUnchanged, budget, stores
  <1>4. CASE Estimate
    BY <1>4 DEF Estimate, Outcome, WfUnchanged, budget, stores
  <1>5. CASE CheckBudget
    BY <1>5 DEF CheckBudget, Outcome, WfUnchanged, budget, stores
  <1>6. CASE Agent
    BY <1>6 DEF Agent, Refused, Outcome, WfUnchanged, budget, stores
  <1>7. CASE RecordUsage
    BY <1>7 DEF RecordUsage, Outcome, WfUnchanged, budget, stores
  <1>8. CASE SaveSession
    <2>1. PICK pushed \in 0..2, reported \in BOOLEAN :
            /\ session' = session \o SubSeq(<<"user", "assistant">>, 1, pushed)
            /\ Outcome(reported, TRUE, "SaveResult", "SaveResult")
      BY <1>8 DEF SaveSession
    <2>2. wf = "SaveSession" /\ UNCHANGED <<cause, budget>> /\ WfUnchanged
      BY <1>8 DEF SaveSession
    <2>3. wf' \in {"SaveSession", "SaveResult"}
      BY <2>1, <2>2, OutcomeStep
    <2>4. session \in Seq({"user", "assistant"}) /\ Paired(session)
      <3>1. session = <<>> => Paired(session)
        BY DEF Paired
      <3> QED BY <3>1 DEF IInv, TypeOK, Paired
    <2>5. Paired(session')
      BY <2>1, <2>4, PushesPair
    <2>6. llm > 0 /\ ~OverBudget /\ cause # "budget"
      BY <2>2 DEF IInv, SafeInv, LlmPhase, ResultPhase, Answered
    <2> QED BY <2>2, <2>3, <2>5, <2>6 DEF Paired, budget, WfUnchanged
  <1>9. CASE SaveResult
    <2>1. /\ wf' \in {"SaveResult", "RecordCompleted", "SaveFailure"}
          /\ UNCHANGED <<req, used, llm>>
      BY <1>9, MatchType, SaveRowStep DEF SaveResult
    <2>2. session' = session
      BY <1>9 DEF SaveResult, SaveRow
    <2> QED BY <1>9, <2>1, <2>2 DEF SaveResult
  <1>10. CASE SaveToolResult
    <2>1. /\ wf' \in {"SaveToolResult", "RecordCompleted"}
          /\ UNCHANGED <<req, used, llm>>
      BY <1>10, MatchType, SaveRowStep DEF SaveToolResult
    <2>2. session' = session
      BY <1>10 DEF SaveToolResult, SaveRow
    <2> QED BY <1>10, <2>1, <2>2 DEF SaveToolResult
  <1>11. CASE SaveFailure
    <2>1. /\ wf' \in {"SaveFailure", "RecordFailed"}
          /\ UNCHANGED <<req, used, llm>>
      BY <1>11, MatchType, SaveRowStep DEF SaveFailure
    <2>2. session' = session
      BY <1>11 DEF SaveFailure, SaveRow
    <2> QED BY <1>11, <2>1, <2>2 DEF SaveFailure
  <1>12. CASE RecordCompleted
    BY <1>12 DEF RecordCompleted, RecordExec, Outcome, WfUnchanged, budget
  <1>13. CASE RecordFailed
    BY <1>13 DEF RecordFailed, RecordExec, Outcome, WfUnchanged, budget
  <1>14. CASE ExecuteWorkflow
    <2>1. wf = "none" /\ wf' \in {"none", "EmitStarted"}
      BY <1>14 DEF ExecuteWorkflow, IInv, SafeInv, GatewayPhase
    <2> QED BY <1>14, <2>1 DEF ExecuteWorkflow, budget, stores
  <1>15. CASE UNCHANGED <<req, wf, cause, used, llm, session>>
    BY <1>15
  <1>16. \/ Workflow \/ ExecuteWorkflow
         \/ UNCHANGED <<req, wf, cause, used, llm, session>>
    BY DEF Next, Gateway, CreateTask, SetTaskStatus, UpdateTaskErrorRow,
       UpdateTaskErrorCache, UpdateTaskRunning, CreateExecution, UpdateCacheRunning,
       EmitTaskCreated, ClientHangsUp, GatewayCrash, Finished, GwUnchanged, stores, wfVars,
       budget, vars
  <1> QED
    BY <1>1, <1>2, <1>3, <1>4, <1>5, <1>6, <1>7, <1>8, <1>9, <1>10, <1>11, <1>12, <1>13,
       <1>14, <1>15, <1>16 DEF Workflow

\* The session never remembers a turn that was not answered or was not paid for,
\* however often SaveSessionActivity is retried and wherever an attempt stops.
THEOREM MemoryIsAnswered == Spec => []MemoryOfAnsweredTurns
  <1>1. Init => TurnInv
    BY DEF Init, TurnInv, MemoryOfAnsweredTurns
  <1>2. IInv /\ TurnInv /\ [Next]_vars => TurnInv'
    BY TurnStep
  <1>3. TurnInv => MemoryOfAnsweredTurns
    BY DEF TurnInv
  <1> QED BY <1>1, <1>2, <1>3, Invariance, PTL DEF Spec
=============================================================================

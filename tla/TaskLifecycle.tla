---------------------------- MODULE TaskLifecycle ----------------------------
(***************************************************************************)
(* The life of one task submitted with POST /api/v1/tasks: the gateway's   *)
(* createTask handler on one side, the SimpleWorkflow that Temporal runs   *)
(* on the other, and the stores both write: the rows of tables tasks,      *)
(* executions and llm_calls, the Redis status hash, the Redis event stream *)
(* and the Redis session list.                                             *)
(*                                                                         *)
(* The two parties run concurrently from the moment ExecuteWorkflow        *)
(* returns on the server.  Every activity is executed at least once: an    *)
(* attempt may take effect without its completion being reported, and is   *)
(* then retried up to MaxAttempts times.  MaxFaults bounds the number of   *)
(* failed calls and lost reports in a behaviour.                           *)
(***************************************************************************)
EXTENDS Integers, Sequences

CONSTANTS
    Totals,             \* values of max_total_tokens a request may carry
    Completions,        \* values of max_completion_tokens
    Estimates,          \* values EstimatePromptTokens may return
    Usages,             \* total_tokens the LLM service may report
    DefaultTotal,       \* 8000 in CheckBudget
    DefaultCompletion,  \* 1024 in CheckBudget
    MaxAttempts,        \* RetryPolicy.MaximumAttempts: 3
    MaxFaults           \* bound: failed calls and lost reports

ASSUME BudgetAssumption ==
    /\ Totals \subseteq Int /\ Completions \subseteq Int
    /\ Estimates \subseteq Nat /\ Usages \subseteq Nat
    /\ DefaultTotal \in Nat /\ DefaultCompletion \in Nat \ {0}

ASSUME RetryAssumption == MaxAttempts \in Nat \ {0} /\ MaxFaults \in Nat

VARIABLES
    req,      \* the normalised request
    gw,       \* where createTask is
    gone,     \* the client hung up: the request context is cancelled
    wf,       \* where SimpleWorkflow is
    att,      \* failed attempts of the current activity
    cause,    \* why the workflow goes down its failure path
    est, allowed, used,   \* results of Estimate, CheckBudget, AgentActivity
    llm,      \* calls that reached the LLM service
    row,      \* the tasks row
    exec,     \* the executions row
    ledger,   \* tokens recorded in llm_calls under call_id task:llm
    redis,    \* the hash task:{id}:status
    events,   \* the stream task:{id}:events
    session,  \* roles pushed to session:{id}:messages by this task
    faults

gwVars    == <<gw, gone>>
wfVars    == <<wf, att, cause>>
budget    == <<est, allowed, used, llm>>
stores    == <<row, exec, ledger, redis, events, session>>
vars      == <<req, gwVars, wfVars, budget, stores, faults>>

-----------------------------------------------------------------------------
Terminal == {"completed", "failed", "budget_exceeded"}
Statuses == {"none", "pending", "running"} \union Terminal
Causes   == {"none", "start", "tool", "workflow", "budget"}

Rows   == [status: Statuses, result: {"none", "answer", "tool"}, usage: Nat,
           error: Causes]
Hashes == [status: Statuses, result: {"none", "answer", "tool"}]

Requests == [maxTotal: Totals, maxCompletion: Completions,
             session: BOOLEAN, tool: BOOLEAN]

\* The workflow input is built before the run exists and is passed by value:
\* its RunID stays empty.  The executions row carries the real one.
InputRunID == ""
RunID      == "run"

GwSteps == {"create", "cache", "start", "failRow", "failCache", "markRunning",
            "execRow", "cacheRunning", "emitCreated", "accepted", "rejected",
            "crashed"}

EventOf == [EmitStarted       |-> "WORKFLOW_STARTED",
            EmitSessionLoaded |-> "SESSION_LOADED",
            EmitToolStarted   |-> "TOOL_STARTED",
            EmitToolFailed    |-> "TOOL_FAILED",
            EmitToolCompleted |-> "TOOL_COMPLETED",
            EmitLLMStarted    |-> "LLM_STARTED",
            EmitLLMCompleted  |-> "LLM_COMPLETED",
            EmitUsage         |-> "USAGE_RECORDED",
            EmitCompleted     |-> "TASK_COMPLETED",
            EmitFailed        |-> "TASK_FAILED"]

EmitSteps == DOMAIN EventOf
WfSteps == EmitSteps \union
    {"none", "LoadSession", "ExecuteTool", "SaveToolResult", "Estimate",
     "CheckBudget", "Agent", "RecordUsage", "SaveSession", "SaveResult",
     "RecordCompleted", "SaveFailure", "RecordFailed", "ended", "stuck"}

Event == IF wf = "EmitFailed" /\ cause = "budget" THEN "TASK_BUDGET_EXCEEDED"
         ELSE EventOf[wf]

TerminalEvents == {"TASK_COMPLETED", "TASK_FAILED", "TASK_BUDGET_EXCEEDED"}
EventTypes == {EventOf[s] : s \in EmitSteps} \union TerminalEvents
              \union {"TASK_CREATED"}

-----------------------------------------------------------------------------
(* CheckBudgetActivity *)

EffectiveTotal(total) == IF total <= 0 THEN DefaultTotal ELSE total
EffectiveCompletion(completion) ==
    IF completion <= 0 THEN DefaultCompletion ELSE completion

\* Mutant: the allowance forgets what the prompt already takes.
AllowanceWithoutPrompt(prompt, total, completion) ==
    LET cap == EffectiveCompletion(completion)
    IN  IF EffectiveTotal(total) > cap THEN cap ELSE EffectiveTotal(total)

AllowedCompletion(prompt, total, completion) ==
    LET left == EffectiveTotal(total) - prompt
        cap  == EffectiveCompletion(completion)
    IN  IF left < 0 THEN 0 ELSE IF left > cap THEN cap ELSE left

BudgetAllows(prompt, total) == prompt <= EffectiveTotal(total)

-----------------------------------------------------------------------------
Init ==
    /\ req \in Requests
    /\ gw = "create" /\ gone = FALSE
    /\ wf = "none" /\ att = 0 /\ cause = "none"
    /\ est = 0 /\ allowed = 0 /\ used = 0 /\ llm = 0
    /\ row = [status |-> "none", result |-> "none", usage |-> 0, error |-> "none"]
    /\ exec = [status |-> "none", runId |-> InputRunID]
    /\ ledger = 0
    /\ redis = [status |-> "none", result |-> "none"]
    /\ events = <<>> /\ session = <<>>
    /\ faults = 0

Fault == faults < MaxFaults /\ faults' = faults + 1

(* createTask ------------------------------------------------------------- *)

\* A store call made with the request's context: it fails once the client is
\* gone, and may fail (one fault) before.
CtxCall(ok) == /\ ok => ~gone
               /\ IF ok \/ gone THEN UNCHANGED faults ELSE Fault

GwUnchanged == UNCHANGED <<req, gone, wfVars, budget, ledger, session>>

CreateTask == \E stored, ok \in BOOLEAN :
    /\ gw = "create"
    /\ ok => stored
    /\ stored => ~gone
    /\ CtxCall(ok)
    /\ row' = IF stored THEN [row EXCEPT !.status = "pending"] ELSE row
    /\ gw' = IF ok THEN "cache" ELSE "rejected"
    /\ UNCHANGED <<exec, redis, events>> /\ GwUnchanged

SetTaskStatus == \E ok \in BOOLEAN :
    /\ gw = "cache" /\ gw' = "start"
    /\ CtxCall(ok)
    /\ redis' = IF ok THEN [redis EXCEPT !.status = "pending"] ELSE redis
    /\ UNCHANGED <<row, exec, events>> /\ GwUnchanged

\* The server may have started the workflow although the caller got an error.
ExecuteWorkflow == \E started, ok \in BOOLEAN :
    /\ gw = "start"
    /\ ok => started
    /\ started => ~gone
    /\ CtxCall(ok)
    /\ wf' = IF started THEN "EmitStarted" ELSE "none"
    /\ gw' = IF ok THEN "markRunning" ELSE "failRow"
    /\ UNCHANGED <<req, gone, att, cause, budget, stores>>

UpdateTaskErrorRow == \E ok \in BOOLEAN :
    /\ gw = "failRow" /\ gw' = "failCache"
    /\ CtxCall(ok)
    /\ row' = IF ok THEN [row EXCEPT !.status = "failed", !.error = "start"] ELSE row
    /\ UNCHANGED <<exec, redis, events>> /\ GwUnchanged

UpdateTaskErrorCache == \E ok \in BOOLEAN :
    /\ gw = "failCache" /\ gw' = "rejected"
    /\ CtxCall(ok)
    /\ redis' = IF ok THEN [redis EXCEPT !.status = "failed"] ELSE redis
    /\ UNCHANGED <<row, exec, events>> /\ GwUnchanged

\* UPDATE tasks SET status = 'running' WHERE id = $1: no condition on status.
UpdateTaskRunning == \E ok \in BOOLEAN :
    /\ gw = "markRunning" /\ gw' = "execRow"
    /\ CtxCall(ok)
    /\ row' = IF ok THEN [row EXCEPT !.status = "running"] ELSE row
    /\ UNCHANGED <<exec, redis, events>> /\ GwUnchanged

\* Uses context.Background(): the client hanging up does not stop it.
CreateExecution == \E ok \in BOOLEAN :
    /\ gw = "execRow" /\ gw' = "cacheRunning"
    /\ IF ok THEN UNCHANGED faults ELSE Fault
    /\ exec' = IF ok THEN [status |-> "running", runId |-> RunID] ELSE exec
    /\ UNCHANGED <<row, redis, events>> /\ GwUnchanged

UpdateCacheRunning == \E ok \in BOOLEAN :
    /\ gw = "cacheRunning" /\ gw' = "emitCreated"
    /\ CtxCall(ok)
    /\ redis' = IF ok THEN [redis EXCEPT !.status = "running"] ELSE redis
    /\ UNCHANGED <<row, exec, events>> /\ GwUnchanged

EmitTaskCreated == \E ok \in BOOLEAN :
    /\ gw = "emitCreated" /\ gw' = "accepted"
    /\ CtxCall(ok)
    /\ events' = IF ok THEN Append(events, "TASK_CREATED") ELSE events
    /\ UNCHANGED <<row, exec, redis>> /\ GwUnchanged

GatewayDone == gw \in {"accepted", "rejected", "crashed"}

ClientHangsUp ==
    /\ ~GatewayDone /\ ~gone
    /\ gone' = TRUE
    /\ UNCHANGED <<req, gw, wfVars, budget, stores, faults>>

GatewayCrash ==
    /\ ~GatewayDone /\ Fault
    /\ gw' = "crashed"
    /\ UNCHANGED <<req, gone, wfVars, budget, stores>>

Gateway ==
    \/ CreateTask \/ SetTaskStatus \/ ExecuteWorkflow
    \/ UpdateTaskErrorRow \/ UpdateTaskErrorCache
    \/ UpdateTaskRunning \/ CreateExecution
    \/ UpdateCacheRunning \/ EmitTaskCreated

(* SimpleWorkflow --------------------------------------------------------- *)

\* How one attempt of an activity ends.  A report brings the workflow to
\* next; without one the activity is tried again, and the last attempt that
\* fails brings the workflow to onError.  "clean" says nothing went wrong.
Outcome(reported, clean, next, onError) ==
    /\ IF reported /\ clean THEN UNCHANGED faults ELSE Fault
    /\ IF reported \/ att + 1 = MaxAttempts
         THEN att' = 0 /\ wf' = (IF reported THEN next ELSE onError)
         ELSE att' = att + 1 /\ wf' = wf

WfUnchanged == UNCHANGED <<req, gwVars>>

OverBudget == used > req.maxTotal

\* Mutants: the tokens used are not compared with the limit; the session is
\* saved before they are compared.
AfterUsageUnchecked == IF req.session THEN "SaveSession" ELSE "SaveResult"
AfterUsageSavedFirst ==
    IF req.session THEN "SaveSession"
    ELSE IF OverBudget THEN "SaveFailure" ELSE "SaveResult"

AfterUsage == IF OverBudget THEN "SaveFailure"
              ELSE IF req.session THEN "SaveSession" ELSE "SaveResult"

\* Mutant: no return after a failed tool.
ReturnMissing == IF cause = "tool" THEN "Estimate" ELSE "ended"

Return == "ended"

AfterEmit ==
    [EmitStarted       |-> "LoadSession",
     EmitSessionLoaded |-> IF req.tool THEN "EmitToolStarted" ELSE "Estimate",
     EmitToolStarted   |-> "ExecuteTool",
     EmitToolFailed    |-> "SaveFailure",
     EmitToolCompleted |-> "SaveToolResult",
     EmitLLMStarted    |-> "Agent",
     EmitLLMCompleted  |-> "RecordUsage",
     EmitUsage         |-> AfterUsage,
     EmitCompleted     |-> "ended",
     EmitFailed        |-> Return]

\* XADD errors are swallowed and a failing EmitEvent never blocks the workflow.
EmitEvent == \E added, reported \in BOOLEAN :
    /\ wf \in EmitSteps
    /\ events' = IF added THEN Append(events, Event) ELSE events
    /\ Outcome(reported, added, AfterEmit[wf], AfterEmit[wf])
    /\ cause' = IF wf = "EmitUsage" /\ OverBudget /\ wf' = "SaveFailure"
                THEN "budget" ELSE cause
    /\ UNCHANGED <<budget, row, exec, ledger, redis, session>> /\ WfUnchanged

\* Without a result the next line dereferences nil: the workflow task panics
\* and is retried for ever.
LoadSession == \E reported \in BOOLEAN :
    /\ wf = "LoadSession"
    /\ Outcome(reported, TRUE, "EmitSessionLoaded", "stuck")
    /\ UNCHANGED <<cause, budget, stores>> /\ WfUnchanged

ExecuteTool == \E reported, failed \in BOOLEAN :
    /\ wf = "ExecuteTool"
    /\ Outcome(reported, TRUE,
               IF failed THEN "EmitToolFailed" ELSE "EmitToolCompleted", "Estimate")
    /\ cause' = IF wf' = "EmitToolFailed" THEN "tool" ELSE cause
    /\ UNCHANGED <<budget, stores>> /\ WfUnchanged

Estimate == \E reported \in BOOLEAN, e \in Estimates :
    /\ wf = "Estimate"
    /\ Outcome(reported, TRUE, "CheckBudget", "stuck")
    /\ est' = IF reported THEN e ELSE est
    /\ UNCHANGED <<cause, allowed, used, llm, stores>> /\ WfUnchanged

CheckBudget == \E reported \in BOOLEAN :
    /\ wf = "CheckBudget"
    /\ Outcome(reported, TRUE,
               IF BudgetAllows(est, req.maxTotal) THEN "EmitLLMStarted" ELSE "SaveFailure",
               "stuck")
    /\ allowed' = IF reported THEN AllowedCompletion(est, req.maxTotal, req.maxCompletion)
                  ELSE allowed
    /\ cause' = IF wf' = "SaveFailure" THEN "budget" ELSE cause
    /\ UNCHANGED <<est, used, llm, stores>> /\ WfUnchanged

\* CallLLM refuses a zero allowance before it calls the service; the retry
\* policy repeats the refusal.
Refused == /\ UNCHANGED faults
           /\ IF att + 1 = MaxAttempts THEN att' = 0 /\ wf' = "SaveFailure"
              ELSE att' = att + 1 /\ wf' = wf

\* An answer that does not come back is asked for again.
Agent == \E called, reported \in BOOLEAN, u \in Usages :
    /\ wf = "Agent"
    /\ called => allowed > 0
    /\ reported => called
    /\ IF allowed > 0
         THEN Outcome(reported, TRUE, "EmitLLMCompleted", "SaveFailure")
         ELSE Refused
    /\ llm' = IF called THEN llm + 1 ELSE llm
    /\ used' = IF reported THEN u ELSE used
    /\ cause' = IF wf' = "SaveFailure" THEN "workflow" ELSE cause
    /\ UNCHANGED <<est, allowed, stores>> /\ WfUnchanged

\* INSERT ... ON CONFLICT (call_id) DO UPDATE; the workflow only logs an error.
RecordUsage == \E stored, reported \in BOOLEAN :
    /\ wf = "RecordUsage"
    /\ reported => stored
    /\ ledger' = IF stored THEN used ELSE ledger
    /\ Outcome(reported, TRUE, "EmitUsage", "EmitUsage")
    /\ UNCHANGED <<cause, budget, row, exec, redis, events, session>> /\ WfUnchanged

\* RPUSH user, RPUSH assistant, LTRIM, EXPIRE: the attempt may stop after any
\* of them, and the next attempt starts over.
SaveSession == \E pushed \in 0..2, reported \in BOOLEAN :
    /\ wf = "SaveSession"
    /\ reported => pushed = 2
    /\ session' = session \o SubSeq(<<"user", "assistant">>, 1, pushed)
    /\ Outcome(reported, TRUE, "SaveResult", "SaveResult")
    /\ UNCHANGED <<cause, budget, row, exec, ledger, redis, events>> /\ WfUnchanged

\* A conditional UPDATE of the tasks row followed by the Redis hash.  No
\* matching row is not an error, and leaves Redis alone.
SaveRow(match, newRow, newRedis, next, onError) ==
    \E written, cached, reported \in BOOLEAN :
      /\ written => match
      /\ cached => written
      /\ reported => (match => written)
      /\ row' = IF written THEN newRow ELSE row
      /\ redis' = IF cached THEN newRedis ELSE redis
      /\ Outcome(reported, match => cached, next, onError)
      /\ UNCHANGED <<budget, exec, ledger, events, session>> /\ WfUnchanged

\* Mutant: a result may also be stored on a row that is not running yet.
ResultMatchesEarly == row.status \in {"pending", "running"}

ResultMatches == row.status = "running"

SaveResult ==
    /\ wf = "SaveResult"
    /\ SaveRow(ResultMatches,
               [row EXCEPT !.status = "completed", !.result = "answer", !.usage = used],
               [redis EXCEPT !.status = "completed", !.result = "answer"],
               "RecordCompleted", "SaveFailure")
    /\ cause' = IF wf' = "SaveFailure" THEN "workflow" ELSE cause

\* On the tool path the error of SaveResultActivity is dropped.
SaveToolResult ==
    /\ wf = "SaveToolResult"
    /\ SaveRow(ResultMatches,
               [row EXCEPT !.status = "completed", !.result = "tool"],
               [redis EXCEPT !.status = "completed", !.result = "tool"],
               "RecordCompleted", "RecordCompleted")
    /\ UNCHANGED cause

\* Mutants: WHERE id = $1 without, or with too narrow, a status condition.
FailureMatchesAny     == row.status # "none"
FailureMatchesPending == row.status = "pending"

FailureMatches == row.status \in {"pending", "running"}
FailureStatus  == IF cause = "budget" THEN "budget_exceeded" ELSE "failed"

SaveFailure ==
    /\ wf = "SaveFailure"
    /\ SaveRow(FailureMatches,
               [row EXCEPT !.status = FailureStatus, !.error = cause],
               [redis EXCEPT !.status = FailureStatus],
               "RecordFailed", "RecordFailed")
    /\ UNCHANGED cause

RecordExec(match, status, next) == \E written, reported \in BOOLEAN :
    /\ written => match
    /\ reported => (match => written)
    /\ exec' = IF written THEN [exec EXCEPT !.status = status] ELSE exec
    /\ Outcome(reported, TRUE, next, next)
    /\ UNCHANGED <<cause, budget, row, ledger, redis, events, session>> /\ WfUnchanged

RecordCompleted == /\ wf = "RecordCompleted"
                   /\ RecordExec(exec.status = "running", "completed", "EmitCompleted")

RecordFailed == /\ wf = "RecordFailed"
                /\ RecordExec(exec.status = "running" /\ exec.runId = InputRunID,
                              "failed", "EmitFailed")

Workflow ==
    \/ EmitEvent \/ LoadSession \/ ExecuteTool \/ Estimate \/ CheckBudget
    \/ Agent \/ RecordUsage \/ SaveSession \/ SaveResult \/ SaveToolResult
    \/ SaveFailure \/ RecordCompleted \/ RecordFailed

\* Both parties are through; "stuck" is a workflow task that panics for ever.
Finished == /\ GatewayDone
            /\ wf \in {"none", "ended", "stuck"}
            /\ UNCHANGED vars

Next == Gateway \/ ClientHangsUp \/ GatewayCrash \/ Workflow \/ Finished

Spec == Init /\ [][Next]_vars

\* Temporal keeps scheduling a started workflow and the HTTP server keeps
\* running the handler; the client and crashes are not scheduled by anyone.
FairSpec == Spec /\ WF_vars(Gateway) /\ WF_vars(Workflow)

-----------------------------------------------------------------------------
(* Properties *)

\* Every variable has the values the program can give it.
TypeOK ==
    /\ req \in Requests
    /\ gw \in GwSteps /\ gone \in BOOLEAN
    /\ wf \in WfSteps /\ att \in 0..(MaxAttempts - 1) /\ cause \in Causes
    /\ est \in Nat /\ allowed \in Nat /\ used \in Nat /\ llm \in Nat
    /\ row \in Rows
    /\ exec \in [status: {"none", "running", "completed", "failed"},
                 runId: {InputRunID, RunID}]
    /\ ledger \in Nat
    /\ redis \in Hashes
    /\ events \in Seq(EventTypes) /\ session \in Seq({"user", "assistant"})
    /\ faults \in 0..MaxFaults

\* The LLM service is called only within what the request can pay for: prompt
\* estimate and allowance fit in the effective budget, and the retries of
\* AgentActivity call it at most MaxAttempts times.
SpendWithinBudget ==
    llm > 0 => /\ allowed > 0
               /\ est + allowed <= EffectiveTotal(req.maxTotal)
               /\ allowed <= EffectiveCompletion(req.maxCompletion)
               /\ llm <= MaxAttempts

\* A completed tasks row is true: either a tool produced it without any LLM
\* call, or the LLM answered, its tokens are within max_total_tokens and they
\* are the usage stored with the result.
CompletedIsTrue ==
    row.status = "completed" =>
        \/ row.result = "tool" /\ llm = 0 /\ row.usage = 0
        \/ row.result = "answer" /\ llm > 0 /\ row.usage = used /\ ~OverBudget

\* The Redis hash never says completed before, or without, the tasks row.
CacheNeverAhead ==
    redis.status = "completed" => row.status = "completed" /\ redis.result = row.result

\* The stream gives one verdict on a task, however often it repeats it.
OneVerdict == \A i, j \in 1..Len(events) :
    events[i] \in TerminalEvents /\ events[j] \in TerminalEvents => events[i] = events[j]

\* Only an answered turn within budget enters the session, and an assistant
\* message never lands without the user message it answers, whatever retries
\* SaveSessionActivity needs.
MemoryOfAnsweredTurns ==
    session # <<>> =>
        /\ llm > 0 /\ ~OverBudget /\ cause # "budget"
        /\ \A i \in 1..Len(session) : session[i] = "assistant" =>
               i > 1 /\ session[i - 1] = "user"

\* No activity of the workflow, first attempt or retry, changes a tasks row
\* that is already in a terminal state.
WorkflowKeepsTerminal ==
    [][Workflow /\ row.status \in Terminal => row' = row]_vars

\* A completed task stays completed, with the same result and usage, whatever
\* the gateway or a late retry still does.
CompletedIsFinal == [][row.status = "completed" => row' = row]_vars

Register == INSTANCE ResultRegister WITH
    Answers   <- {"answer", "tool"},
    NoAnswer  <- "none",
    published <- IF row.status = "completed" THEN row.result ELSE "none",
    cached    <- redis.result

\* Polling clients see a write-once answer: the tasks row and the Redis hash
\* implement the abstract register.
PublishesOnce == Register!Spec

\* A started workflow comes to an end or is stuck in a panicking workflow task,
\* for retries never run for ever; and a task that is running when its estimate
\* is taken reaches a terminal state, unless the workflow is stuck or enough
\* calls failed to use up every attempt of one activity.
RunningSettles ==
    /\ (wf = "EmitStarted") ~> (wf \in {"ended", "stuck"})
    /\ (row.status = "running" /\ wf = "Estimate")
           ~> (row.status \in Terminal \/ wf = "stuck" \/ faults >= MaxAttempts)

(* A statement of the documents that the code does not keep *)

\* PROJECT_SPEC.md 838: a terminal state cannot be overwritten by an old one.
TerminalNotOverwritten ==
    [][row.status \in Terminal => row'.status = row.status]_vars
=============================================================================

----------------------------- MODULE ApprovalGate -----------------------------
(***************************************************************************)
(* One routed execution, POST /api/v1/tasks/execute-routed: the gateway    *)
(* starts AdvancedRoutingWorkflow and then inserts the tasks row; the      *)
(* workflow classifies the query, chooses a mode, and, when the approval   *)
(* policy asks for it, waits for a human answer before it starts the child *)
(* workflow.  Humans answer through POST /api/v1/approvals/{id}/respond or *)
(* POST /api/v1/tasks/{id}/approve and /reject, which read the approvals   *)
(* table and then signal the workflow.                                     *)
(*                                                                         *)
(* Gateway, workflow, responders, the clock and Temporal's execution       *)
(* timeout interleave freely.  Activities run at least once: an attempt    *)
(* may take effect and not be reported.  Time is counted in units; the     *)
(* code's ExecTimeout is 600 s and its ApprovalTimeout 3600 s.             *)
(***************************************************************************)
EXTENDS Integers, Sequences

CONSTANTS
    Queries,          \* what Classify, Detect and EstimateRouteCost find
    Answers,          \* the bodies of respond requests
    Responders,       \* each sends at most one answer (bound)
    ExecTimeout,      \* WorkflowExecutionTimeout
    ApprovalTimeout,  \* approvalTimeoutSec
    MaxAttempts,      \* RetryPolicy.MaximumAttempts: 2
    MaxTime,          \* bound: the clock stops here, unless a gate is open
    MaxFaults         \* bound: failed calls and lost reports

HighRisk == {"sandbox_execution", "research_v2"}  \* dag and swarm behave alike
Modes    == HighRisk \union {"direct_answer", "mode_disabled"}

QueryType  == [complexity: {"low", "mid", "high"},  \* below 0.60, 0.70, above
               risk: {"low", "high", "critical"}, sandbox: BOOLEAN,
               costly: BOOLEAN, allowSandbox: BOOLEAN]
AnswerType == [approved: BOOLEAN, change: {"nil", "addons"} \union Modes]
NoAnswer   == [approved |-> FALSE, change |-> "none"]

ASSUME GateAssumption ==
    /\ Queries \subseteq QueryType /\ Answers \subseteq AnswerType
    /\ ExecTimeout \in Nat /\ ApprovalTimeout \in Nat /\ MaxTime \in Nat
    /\ MaxAttempts \in Nat \ {0} /\ MaxFaults \in Nat

VARIABLES
    query,            \* the request and what a full analysis finds in it
    requireApproval,  \* RouterConfig.RequireApproval (kill switch when FALSE)
    gw,               \* where ExecuteRouted is
    wf, att,          \* where the workflow is, failed attempts there
    decision,         \* the RoutingDecision and whether the policy spoke
    expires,          \* deadline of the approval request
    current,          \* approvalID the workflow holds (0: none)
    answer,           \* signalPayload received
    result,           \* RoutedExecutionResult.Status
    ran,              \* mode of the child workflow that was started
    row,              \* the tasks row; row.outcome is workflow_status
    approvals,        \* the approvals table, in order of insertion
    audit,            \* approval_audit_logs
    signals,          \* signals the workflow was sent
    resp,             \* the responders
    now, faults

gateVars  == <<expires, current, answer>>
runVars   == <<decision, result, ran>>
tables    == <<row, approvals, audit>>
human     == <<signals, resp>>
config    == <<query, requireApproval>>
vars == <<config, gw, wf, att, gateVars, runVars, tables, human, now, faults>>

Closed == {"ended", "unpersisted", "aborted", "killed"}
Working == {"classify", "detect", "route", "cost", "approvalPolicy", "request",
            "markWaiting", "await", "select", "record", "decide", "markTimeout",
            "dispatch", "child", "persist"}
Results == {"none", "ok", "error", "rejected", "partial", "approval_timeout",
            "approval_required", "mode_disabled"}
Verdicts == {"approved", "rejected", "modified", "timeout"}
RowStatuses == {"none", "running", "waiting_for_approval", "completed", "failed"}

-----------------------------------------------------------------------------
Init ==
    /\ query \in Queries /\ requireApproval \in BOOLEAN
    /\ gw = "start" /\ wf = "none" /\ att = 0
    /\ decision = [complexity |-> "low", risk |-> "low", sandbox |-> FALSE,
                   costly |-> FALSE, planned |-> "direct_answer",
                   mode |-> "direct_answer", gated |-> FALSE, policy |-> "none"]
    /\ expires = 0 /\ current = 0 /\ answer = NoAnswer
    /\ result = "none" /\ ran = "none"
    /\ row = [status |-> "none", outcome |-> "none", approval |-> 0]
    /\ approvals = <<>> /\ audit = <<>> /\ signals = <<>>
    /\ resp = [r \in Responders |-> [pc |-> "idle", via |-> "respond", id |-> 0,
                                     answer |-> NoAnswer]]
    /\ now = 0 /\ faults = 0

Fault == faults < MaxFaults /\ faults' = faults + 1
NoFaultIf(ok) == IF ok THEN UNCHANGED faults ELSE Fault

(* ExecuteRouted ---------------------------------------------------------- *)

ExecuteWorkflow == \E started, ok \in BOOLEAN :
    /\ gw = "start"
    /\ ok => started
    /\ NoFaultIf(ok)
    /\ wf' = IF started THEN "classify" ELSE wf
    /\ gw' = IF ok THEN "insert" ELSE "rejected"
    /\ UNCHANGED <<config, att, gateVars, runVars, tables, human, now>>

\* INSERT ... ON CONFLICT (workflow_id) DO NOTHING.
InsertApplies == row.status = "none"

\* An error of the INSERT is logged and the request goes on.
InsertRow == \E ok \in BOOLEAN :
    /\ gw = "insert" /\ gw' = "accepted"
    /\ NoFaultIf(ok)
    /\ row' = IF ok /\ InsertApplies THEN [row EXCEPT !.status = "running"] ELSE row
    /\ UNCHANGED <<config, wf, att, gateVars, runVars, approvals, audit, human, now>>

(* AdvancedRoutingWorkflow: the decision ---------------------------------- *)

\* One attempt of an activity that is tried limit times.
Attempt(reported, limit, next, onError) ==
    /\ NoFaultIf(reported)
    /\ IF reported \/ att + 1 = limit
         THEN att' = 0 /\ wf' = (IF reported THEN next ELSE onError)
         ELSE att' = att + 1 /\ wf' = wf

\* One attempt of an activity without a retry policy: the server repeats it
\* until it is reported.  "clean" says that no call inside it failed.
Persistent(reported, clean, next) ==
    /\ NoFaultIf(reported /\ clean)
    /\ wf' = IF reported THEN next ELSE wf
    /\ UNCHANGED att

Deciding == UNCHANGED <<config, gw, gateVars, ran, tables, human, now>>

\* A classification that fails for good is replaced by "no complexity, low risk".
Classify == \E reported \in BOOLEAN :
    /\ wf = "classify"
    /\ Attempt(reported, MaxAttempts, "detect", "detect")
    /\ decision' = IF reported THEN [decision EXCEPT !.complexity = query.complexity,
                                                     !.risk = query.risk]
                   ELSE decision
    /\ UNCHANGED result /\ Deciding

\* So is a failing capability detection: by "nothing required".
Detect == \E reported \in BOOLEAN :
    /\ wf = "detect"
    /\ Attempt(reported, MaxAttempts, "route", "route")
    /\ decision' = IF reported THEN [decision EXCEPT !.sandbox = query.sandbox]
                   ELSE decision
    /\ UNCHANGED result /\ Deciding

\* The scores that pick the planned mode are any choice; what the mode then
\* becomes is the code's: the sandbox needs both the need and the permission,
\* and a blocked or disabled mode falls back.
MayExecute(planned, mode) ==
    /\ mode \in {planned, "direct_answer", "mode_disabled"}
    /\ mode = "sandbox_execution" => decision.sandbox /\ query.allowSandbox

GatedByRouting(planned, mode) ==
    \/ decision.complexity \in {"mid", "high"} \/ decision.risk \in {"high", "critical"}
    \/ decision.sandbox \/ "sandbox_execution" \in {planned, mode}

\* Without a decision the workflow fails; nothing is written to the tasks row.
EvaluateRoutingPolicy == \E reported \in BOOLEAN, planned, mode \in Modes :
    /\ wf = "route"
    /\ planned # "mode_disabled" /\ MayExecute(planned, mode)
    /\ Attempt(reported, MaxAttempts, "cost", "aborted")
    /\ decision' = IF reported
                   THEN [decision EXCEPT !.planned = planned, !.mode = mode,
                                         !.gated = GatedByRouting(planned, mode)]
                   ELSE decision
    /\ result' = IF wf' = "aborted" THEN "error" ELSE result
    /\ Deciding

EstimateRouteCost == \E reported \in BOOLEAN :
    /\ wf = "cost"
    /\ Attempt(reported, MaxAttempts, "approvalPolicy", "approvalPolicy")
    /\ decision' = IF reported THEN [decision EXCEPT !.costly = query.costly]
                   ELSE decision
    /\ UNCHANGED result /\ Deciding

ApprovalRequired ==
    /\ requireApproval
    /\ \/ decision.risk = "critical" \/ decision.sandbox
       \/ decision.complexity = "high" \/ decision.costly

FailClosed == \/ decision.mode \in HighRisk \/ decision.sandbox
              \/ decision.planned = "research_v2"

Granted == IF ApprovalRequired THEN "request" ELSE "dispatch"

\* The answer replaces the flag EvaluateRoutingPolicy has set.  The deadline is
\* taken when the gate is entered.
EvaluateApprovalPolicy == \E reported \in BOOLEAN :
    /\ wf = "approvalPolicy"
    /\ Attempt(reported, MaxAttempts, Granted,
               IF FailClosed THEN "aborted" ELSE "dispatch")
    /\ decision' = IF wf' = wf THEN decision
                   ELSE [decision EXCEPT !.gated = reported /\ ApprovalRequired,
                                         !.policy = IF reported THEN "spoke" ELSE "failed"]
    /\ result' = IF wf' = "aborted" THEN "error" ELSE result
    /\ expires' = IF wf' = "request" THEN now + ApprovalTimeout ELSE expires
    /\ UNCHANGED <<config, gw, current, answer, ran, tables, human, now>>

(* executeWithApprovalGate ------------------------------------------------ *)

\* A fresh id at every attempt: an unreported one leaves its row behind.
RequestApproval == \E stored, reported \in BOOLEAN :
    /\ wf = "request"
    /\ reported => stored
    /\ approvals' = IF stored
                    THEN Append(approvals, [status |-> "pending", mode |-> decision.mode])
                    ELSE approvals
    /\ current' = IF reported THEN Len(approvals') ELSE current
    /\ Persistent(reported, TRUE, "markWaiting")
    /\ UNCHANGED <<config, gw, expires, answer, runVars, row, audit, human, now>>

\* Mutant: the id of the first attempt is shown.
FirstApproval == 1

ShownApproval == current

\* An error of the UPDATE is dropped inside the activity.
MarkWaiting == \E written, reported \in BOOLEAN :
    /\ wf = "markWaiting"
    /\ written => row.status # "none"
    /\ row' = IF written THEN [row EXCEPT !.status = "waiting_for_approval",
                                          !.approval = ShownApproval]
              ELSE row
    /\ Persistent(reported, row.status # "none" => written, "await")
    /\ UNCHANGED <<config, gw, gateVars, runVars, approvals, audit, human, now>>

\* Mutant: the deadline itself does not count.
ExpiredStrictly == now > expires

Expired == now >= expires

\* Top of the loop: the deadline is looked at before the signal channel.
CheckDeadline ==
    /\ wf = "await"
    /\ wf' = IF Expired THEN "markTimeout" ELSE "select"
    /\ UNCHANGED <<config, gw, att, gateVars, runVars, tables, human, now, faults>>

\* Mutant: the channel name is built from the first approval id.
DeliveredToFirst == {i \in 1..Len(signals) : signals[i].id = 1}

Delivered == {i \in 1..Len(signals) : signals[i].id = current}

\* The selector prefers the oldest buffered signal to a fired timer.
ReceiveSignal == \E i \in Delivered :
    /\ wf = "select" /\ \A j \in Delivered : i <= j
    /\ answer' = signals[i].answer
    /\ wf' = "record"
    /\ UNCHANGED <<config, gw, att, expires, current, runVars, tables, human, now, faults>>

TimerFires ==
    /\ wf = "select" /\ Delivered = {} /\ now >= expires
    /\ wf' = "await"
    /\ UNCHANGED <<config, gw, att, gateVars, runVars, tables, human, now, faults>>

\* UPDATE approvals, then INSERT into approval_audit_logs.
Conclude(status, logged, next) == \E updated, inserted, reported \in BOOLEAN :
    /\ inserted => updated
    /\ reported => inserted
    /\ approvals' = IF updated THEN [approvals EXCEPT ![current].status = status]
                    ELSE approvals
    /\ audit' = IF inserted THEN Append(audit, [id |-> current, status |-> logged])
                ELSE audit
    /\ Persistent(reported, TRUE, next)
    /\ UNCHANGED <<config, gw, gateVars, decision, ran, row, human, now>>

Verdict(a) ==
    IF a.approved THEN "approved" ELSE IF a.change # "nil" THEN "modified" ELSE "rejected"

RecordApprovalResponse ==
    /\ wf = "record"
    /\ Conclude(Verdict(answer), Verdict(answer), "decide")
    /\ UNCHANGED result

\* Mutant: the timeout falls through to the dispatch.
AfterTimeoutDispatches == "dispatch"

AfterTimeout == "persist"

MarkApprovalTimeout ==
    /\ wf = "markTimeout"
    /\ Conclude("timeout", "timeout", AfterTimeout)
    /\ result' = IF wf' = "persist" THEN "approval_timeout" ELSE result

\* Mutant: a rejection that suggests another action goes on.
RefusedIfUnmodified(a) == ~a.approved /\ a.change = "nil"

Refused(a) == ~a.approved

ModeAfter(a) == IF a.change \in Modes THEN a.change ELSE decision.mode

\* Mutant: the mode before the modification is checked.
ReapprovalOfOldMode(mode) ==
    mode # decision.mode /\ (decision.mode \in HighRisk \/ decision.sandbox)

NeedsReapproval(mode) ==
    mode # decision.mode /\ (mode \in HighRisk \/ decision.sandbox)

Refuse ==
    /\ wf = "decide" /\ Refused(answer)
    /\ result' = IF answer.change = "nil" THEN "rejected" ELSE "partial"
    /\ wf' = "persist"
    /\ UNCHANGED <<config, gw, att, gateVars, decision, ran, tables, human, now, faults>>

Accept ==
    /\ wf = "decide" /\ ~Refused(answer)
    /\ decision' = [decision EXCEPT !.mode = ModeAfter(answer)]
    /\ IF NeedsReapproval(ModeAfter(answer))
         THEN result' = "rejected" /\ wf' = "persist"
         ELSE wf' = "dispatch" /\ UNCHANGED result
    /\ UNCHANGED <<config, gw, att, gateVars, ran, tables, human, now, faults>>

(* dispatchByMode and persistRoutedResult ---------------------------------- *)

\* dispatchSandbox refuses any decision that carries RequiresApproval.
Withheld == \/ decision.mode = "mode_disabled"
            \/ decision.mode = "sandbox_execution" /\ decision.gated

Withhold ==
    /\ wf = "dispatch" /\ Withheld
    /\ result' = IF decision.mode = "mode_disabled" THEN "mode_disabled"
                 ELSE "approval_required"
    /\ wf' = "persist"
    /\ UNCHANGED <<config, gw, att, gateVars, decision, ran, tables, human, now, faults>>

StartChild ==
    /\ wf = "dispatch" /\ ~Withheld
    /\ ran' = decision.mode
    /\ wf' = "child"
    /\ UNCHANGED <<config, gw, att, gateVars, decision, result, tables, human, now, faults>>

ChildReturns == \E outcome \in {"ok", "error"} :
    /\ wf = "child"
    /\ result' = outcome
    /\ wf' = "persist"
    /\ UNCHANGED <<config, gw, att, gateVars, decision, ran, tables, human, now, faults>>

PersistedOutcome == result

\* Two calls of the activity with MaxAttempts attempts each.  The UPDATE is
\* unconditional; finding no row is not an error.
Persist == \E written, reported \in BOOLEAN :
    /\ wf = "persist"
    /\ written => row.status # "none"
    /\ reported => (row.status # "none" => written)
    /\ row' = IF written
              THEN [status |-> IF result = "error" THEN "failed" ELSE "completed",
                    outcome |-> PersistedOutcome, approval |-> 0]
              ELSE row
    /\ Attempt(reported, 2 * MaxAttempts, "ended", "unpersisted")
    /\ UNCHANGED <<config, gw, gateVars, runVars, approvals, audit, human, now>>

Workflow ==
    \/ Classify \/ Detect \/ EvaluateRoutingPolicy \/ EstimateRouteCost
    \/ EvaluateApprovalPolicy \/ RequestApproval \/ MarkWaiting \/ CheckDeadline
    \/ ReceiveSignal \/ TimerFires \/ RecordApprovalResponse \/ MarkApprovalTimeout
    \/ Refuse \/ Accept \/ Withhold \/ StartChild \/ ChildReturns \/ Persist

(* Respond, ApproveTask and RejectTask -------------------------------------- *)

HumanStep == UNCHANGED <<config, gw, wf, att, gateVars, runVars, tables, now, faults>>

\* Respond reads the approvals row and compares the clock.
CheckApproval(r) == \E id \in 1..Len(approvals) :
    /\ resp[r].pc = "idle"
    /\ resp' = [resp EXCEPT
         ![r].pc = IF approvals[id].status = "pending" /\ now <= expires
                   THEN "checked" ELSE "refused",
         ![r].id = id]
    /\ UNCHANGED signals /\ HumanStep

Pending == {id \in 1..Len(approvals) : approvals[id].status = "pending"}

\* ApproveTask and RejectTask find the task's newest pending approval: all
\* requests of a workflow carry the same requested_at, so any of them.  They
\* do not look at the deadline.
FindPending(r) ==
    /\ resp[r].pc = "idle" /\ row.status # "none"
    /\ IF Pending = {}
         THEN resp' = [resp EXCEPT ![r].pc = "refused", ![r].via = "task"]
         ELSE \E id \in Pending :
                resp' = [resp EXCEPT ![r].pc = "checked", ![r].via = "task", ![r].id = id]
    /\ UNCHANGED signals /\ HumanStep

\* The task endpoints approve or reject and never modify.
AnswersVia(via) ==
    IF via = "task" THEN {a \in Answers : a.change = "nil"} ELSE Answers

\* The workflow is signalled later, whatever has happened meanwhile; only a
\* closed workflow is an error.  The answer itself matters only here.
SendSignal(r) ==
    /\ resp[r].pc = "checked"
    /\ IF wf \in Closed
         THEN UNCHANGED signals /\ resp' = [resp EXCEPT ![r].pc = "failed"]
         ELSE \E a \in AnswersVia(resp[r].via) :
                /\ signals' = Append(signals, [id |-> resp[r].id, answer |-> a])
                /\ resp' = [resp EXCEPT ![r].pc = "sent", ![r].answer = a]
    /\ HumanStep

Respond == \E r \in Responders : CheckApproval(r) \/ FindPending(r) \/ SendSignal(r)

(* The server's clock and execution timeout -------------------------------- *)

Tick ==
    /\ wf \in Working /\ (now < MaxTime \/ now < expires)
    /\ now' = now + 1
    /\ UNCHANGED <<config, gw, wf, att, gateVars, runVars, tables, human, faults>>

ExecutionTimesOut ==
    /\ wf \in Working /\ now >= ExecTimeout
    /\ wf' = "killed"
    /\ UNCHANGED <<config, gw, att, gateVars, runVars, tables, human, now, faults>>

GatewayDone == gw \in {"accepted", "rejected"}
Finished == GatewayDone /\ wf \in Closed \union {"none"} /\ UNCHANGED vars

Next == \/ ExecuteWorkflow \/ InsertRow \/ Workflow \/ Respond
        \/ Tick \/ ExecutionTimesOut \/ Finished

Spec == Init /\ [][Next]_vars

\* Temporal schedules an open workflow and fires its timers; humans may never
\* answer and the gateway may be slow.
FairSpec == Spec /\ WF_vars(Workflow) /\ WF_vars(Tick) /\ WF_vars(ExecutionTimesOut)

-----------------------------------------------------------------------------
(* Properties *)

\* Every variable has the values the program can give it.
TypeOK ==
    /\ query \in Queries /\ requireApproval \in BOOLEAN
    /\ gw \in {"start", "insert", "accepted", "rejected"}
    /\ wf \in {"none"} \union Working \union Closed
    /\ att \in 0..((IF wf \in {"persist", "killed"} THEN 2 ELSE 1) * MaxAttempts - 1)
    /\ decision \in [complexity: {"low", "mid", "high"}, risk: {"low", "high", "critical"},
                     sandbox: BOOLEAN, costly: BOOLEAN, planned: Modes, mode: Modes,
                     gated: BOOLEAN, policy: {"none", "spoke", "failed"}]
    /\ expires \in Nat /\ current \in 0..Len(approvals)
    /\ answer \in AnswerType \union {NoAnswer}
    /\ result \in Results /\ ran \in {"none"} \union Modes
    /\ row \in [status: RowStatuses, outcome: Results, approval: Nat]
    /\ approvals \in Seq([status: {"pending"} \union Verdicts, mode: Modes])
    /\ audit \in Seq([id: Nat, status: Verdicts])
    /\ signals \in Seq([id: Nat, answer: AnswerType])
    /\ resp \in [Responders -> [pc: {"idle", "checked", "refused", "sent", "failed"},
                                via: {"respond", "task"}, id: Nat,
                                answer: AnswerType \union {NoAnswer}]]
    /\ now \in Nat /\ faults \in 0..MaxFaults

IsApproved == current > 0 /\ approvals[current].status = "approved"

\* A child workflow of a gated decision starts only after the request this
\* workflow waits on was approved and the approval entered the audit log; and
\* when the approval policy could not be evaluated, neither a high-risk mode nor
\* a query that needs the sandbox runs.
RunsAreCleared == ran # "none" =>
    /\ decision.gated =>
          /\ IsApproved
          /\ \E i \in 1..Len(audit) : audit[i] = [id |-> current, status |-> "approved"]
    /\ decision.policy = "failed" => ran \notin HighRisk /\ ~decision.sandbox

\* What an approver answers is what is recorded and what runs: a recorded verdict is
\* one that a responder gave on this very request, also where two of them disagree or
\* race with the deadline, and a high-risk mode runs behind the gate only if it is the
\* mode the approver was shown: a modification never leads into one.
AnswersAreHonoured ==
    /\ \A id \in 1..Len(approvals) :
          approvals[id].status \in {"approved", "rejected", "modified"} =>
              \E r \in Responders : /\ resp[r].pc = "sent" /\ resp[r].id = id
                                    /\ resp[r].answer.approved
                                           = (approvals[id].status = "approved")
    /\ ran \in HighRisk /\ decision.gated => ran = approvals[current].mode

\* The three tables never contradict each other, whichever attempts and reports
\* are lost: the audit log has the verdict of the approvals table, a client that
\* polls the tasks row is sent to the approval the workflow listens to, also
\* after retries of RequestApprovalActivity, and the outcome stored with the row
\* tells whether anything was executed.
TablesAgree ==
    /\ \A i \in 1..Len(audit) : approvals[audit[i].id].status = audit[i].status
    /\ row.status = "waiting_for_approval" => current > 0 /\ row.approval = current
    /\ row.outcome = "ok" => ran # "none"
    /\ row.outcome \in {"rejected", "partial", "approval_timeout", "approval_required",
                        "mode_disabled"} => ran = "none"

Contract == INSTANCE ApprovalContract WITH
    needed   <- IF decision.policy = "none" THEN "open"
                ELSE IF decision.gated THEN "yes" ELSE "no",
    verdict  <- IF current = 0 \/ approvals[current].status = "pending" THEN "open"
                ELSE IF approvals[current].status = "approved" THEN "granted" ELSE "denied",
    executed <- ran # "none"

\* Seen from outside, the gate asks, takes one verdict, and executes only what
\* needs none or was granted.
ImplementsContract == Contract!Spec

\* A workflow that entered the gate ends, answered or not.
GateEnds == (wf = "request") ~> (wf \in Closed)

\* An answer that reached the workflow while it waits is taken, unless the
\* execution timeout strikes first.
AnswerIsTaken ==
    (wf = "select" /\ \E r \in Responders : resp[r].pc = "sent" /\ resp[r].id = current)
        ~> (answer # NoAnswer \/ wf = "killed")

(* A statement of the documents that the code does not keep *)

\* Cribug_Phase7.md 3636: an approved sandbox task goes on to run the sandbox.
ApprovedSandboxRuns ==
    wf = "ended" /\ decision.mode = "sandbox_execution" /\ result # "rejected" /\ IsApproved
        => ran = "sandbox_execution"
=============================================================================

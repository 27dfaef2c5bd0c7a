---------------------------- MODULE MultiAgentTeam ----------------------------
(***************************************************************************)
(* MultiAgentWorkflow: a mock planner, then three agents that call the LLM *)
(* one after the other (researcher, critic, synthesizer) and share one     *)
(* token budget.  Each estimates its prompt, is admitted or refused, runs  *)
(* the tool the query asks for, calls the LLM and records its usage.       *)
(*                                                                         *)
(* An activity is attempted at most MaxAttempts times; an attempt that is  *)
(* lost may have had its effect.  The gateway starts the workflow over a   *)
(* pending row and marks the row and creates the execution only afterwards:*)
(* the team may be done before, and what it writes then matches nothing.   *)
(***************************************************************************)
EXTENDS Integers, FiniteSets

CONSTANTS
    Totals,             \* values of max_total_tokens a request may carry
    Completions,        \* values of max_completion_tokens
    Estimates,          \* tokens of the query with the planner's output
    Overheads,          \* prompt tokens the estimate does not see: the agent's own instructions
    ToolText,           \* tokens of the text a tool result adds to an agent's output
    DefaultTotal,       \* 8000 in CheckBudget
    DefaultCompletion,  \* 1024 in CheckBudget
    ToolTokens,         \* 10: charged for a tool result
    MaxOverhead,        \* the largest of Overheads
    MaxAttempts,        \* RetryPolicy.MaximumAttempts: 3
    MaxFaults           \* bound: lost attempts

ASSUME BudgetAssumption ==
    /\ Totals \subseteq Int /\ Completions \subseteq Int
    /\ Estimates \subseteq Nat \ {0}
    /\ MaxOverhead \in Nat /\ Overheads \subseteq 0..MaxOverhead
    /\ ToolText \in Nat /\ DefaultTotal \in Nat /\ DefaultCompletion \in Nat \ {0} /\ ToolTokens \in Nat

ASSUME RetryAssumption == MaxAttempts \in Nat \ {0} /\ MaxFaults \in Nat

VARIABLES
    total, cap,  \* req.MaxTotalTokens, req.MaxCompletionTokens
    tool,        \* what the query's tool does: "none" when there is no tool to run
    forced,      \* the query asks for a forced failure
    stage,       \* where the workflow is
    role,        \* 1 researcher, 2 critic, 3 synthesizer
    tries,       \* lost attempts of the current activity
    est,         \* the estimate of the role's prompt; Nil when it could not be had
    hasBudget,   \* the role has a budget output
    allowed,     \* its AllowedCompletionTokens
    withTool,    \* the role has a tool result
    acc,         \* accumulatedTokens
    output,      \* tokens of each role's final output, its tool result merged in
    verdict,     \* how the run is going to end
    row, rowTotal, exec, ledger, announced,  \* tasks, executions, llm_calls, the stream
    gateway,     \* how far createTask is after it has started the workflow
    closed,      \* history: gateway when SaveResult or SaveFailure last ran
    status,      \* what the workflow returned
    fit,         \* history: acc + est when a role was admitted
    calls,       \* history: requests that reached the LLM service, for each role
    used,        \* history: tokens of each role's answer
    merged,      \* history: tool results charged
    vital,       \* history: a session or an admission was lost
    faults

request == <<total, cap, tool, forced>>
budget  == <<est, hasBudget, allowed, withTool>>
stores  == <<row, rowTotal, exec, ledger, announced, gateway, closed>>
ends    == <<verdict, status>>
history == <<fit, calls, used, merged, vital>>
vars    == <<request, stage, role, tries, budget, acc, output, stores, ends, history, faults>>

-----------------------------------------------------------------------------
Roles     == 1..3
Nil       == -1
Terminal  == {"completed", "failed", "budget_exceeded"}
GatewayStates == {"starting", "marked", "unmarked", "failed"}
NoTokens  == [r \in Roles |-> 0]
NoRecord  == [r \in Roles |-> Nil]
Least(a, b) == IF a < b THEN a ELSE b

Init ==
    /\ total \in Totals /\ cap \in Completions
    /\ tool \in {"none", "works", "fails"} /\ forced \in BOOLEAN
    /\ stage = "session" /\ role = 1 /\ tries = 0
    /\ est = Nil /\ hasBudget = FALSE /\ allowed = 0 /\ withTool = FALSE
    /\ acc = 0 /\ output = NoTokens
    /\ verdict = "none" /\ status = "none"
    /\ row = "pending" /\ rowTotal = 0 /\ exec = "none" /\ ledger = NoRecord
    /\ announced = "none" /\ gateway = "starting" /\ closed = "never"
    /\ fit = NoRecord /\ calls = NoTokens /\ used = NoTokens /\ merged = 0 /\ vital = FALSE
    /\ faults = 0

Sum3(f) == f[1] + f[2] + f[3]

-----------------------------------------------------------------------------
(* createTask, once the workflow is started: at any time, or never.         *)

Untouched == UNCHANGED <<request, stage, role, tries, budget, acc, output, rowTotal, ledger,
                         announced, closed, ends, history, faults>>

\* ExecuteWorkflow answers, and the row is marked running, or failed if the answer
\* is an error though the workflow runs; neither update asks for a status.  A mark
\* that fails is only logged.
MarkRow ==
    /\ gateway = "starting"
    /\ \/ gateway' = "marked" /\ row' = "running"
       \/ gateway' = "failed" /\ row' = "failed"
       \/ gateway' = "unmarked" /\ UNCHANGED row
    /\ UNCHANGED exec /\ Untouched

\* It carries the run id, which the workflow's own input does not.
CreateExecution ==
    /\ gateway \in {"marked", "unmarked"} /\ exec = "none" /\ exec' = "running"
    /\ UNCHANGED <<gateway, row>> /\ Untouched

-----------------------------------------------------------------------------
(* One attempt of an activity: it succeeds, is lost and tried again, or was *)
(* the last one.                                                            *)

Succeeds == tries' = 0 /\ UNCHANGED faults
Lost == faults < MaxFaults /\ faults' = faults + 1

Retries == Lost /\ tries + 1 < MaxAttempts /\ tries' = tries + 1
GivesUp == Lost /\ tries + 1 = MaxAttempts /\ tries' = 0

\* The attempt is repeated and nothing else happens.
TryAgain(s) ==
    /\ stage = s /\ Retries
    /\ UNCHANGED <<request, stage, role, budget, acc, output, stores, ends, history>>

\* sessionOutput is dereferenced whether or not there is one: the workflow task
\* panics and is retried for ever.
LoadSession ==
    \/ /\ stage = "session" /\ Succeeds /\ stage' = "planner"
       /\ UNCHANGED <<request, role, budget, acc, output, stores, ends, history>>
    \/ /\ stage = "session" /\ GivesUp
       /\ stage' = "panic" /\ vital' = TRUE
       /\ UNCHANGED <<request, role, budget, acc, output, stores, ends, fit, calls, used, merged>>
    \/ TryAgain("session")

\* The failure path: emitFailure and the blocks that spell it out.
Fail(v) == stage' = "fail_row" /\ verdict' = v

RunPlanner ==
    \/ /\ stage = "planner" /\ (GivesUp \/ (Succeeds /\ forced))
       /\ Fail("failed")
       /\ UNCHANGED <<request, role, budget, acc, output, stores, status, history>>
    \/ /\ stage = "planner" /\ ~forced /\ Succeeds
       /\ stage' = "estimate"
       /\ UNCHANGED <<request, role, budget, acc, output, stores, ends, history>>
    \/ TryAgain("planner")

ToTool == IF tool = "none" THEN "call" ELSE "tool"

NoBudgetYet == hasBudget' = FALSE /\ allowed' = 0 /\ withTool' = FALSE

\* The text that is estimated holds the outputs of the roles before, once each.
\* A lost estimate skips the budget check of the role.
Estimate ==
    \/ /\ stage = "estimate" /\ Succeeds
       /\ \E tokens \in Estimates : est' = tokens + Sum3(output)
       /\ NoBudgetYet
       /\ stage' = "admit"
       /\ UNCHANGED <<request, role, acc, output, stores, ends, history>>
    \/ /\ stage = "estimate" /\ GivesUp
       /\ est' = Nil /\ NoBudgetYet
       /\ stage' = ToTool /\ vital' = TRUE
       /\ UNCHANGED <<request, role, acc, output, stores, ends, fit, calls, used, merged>>
    \/ TryAgain("estimate")

-----------------------------------------------------------------------------
(* Admission *)

Limit      == IF total <= 0 THEN DefaultTotal ELSE total
Completion == IF cap <= 0 THEN DefaultCompletion ELSE cap

\* CheckBudgetActivity, for the researcher.
CheckBudget == [ok |-> est <= Limit, allowed |-> Least(Completion, Limit - est)]

\* Mutant: the researcher's tokens are not taken off.
TeamBudgetUnspent == [ok |-> est <= total, allowed |-> Least(Least(est, total), cap)]

\* The block of the critic and of the synthesizer: the allowance is the smaller
\* of the prompt's estimate and what is left, with the prompt not taken off, and
\* no default stands in for a limit of zero.
TeamBudget ==
    [ok |-> est <= total - acc, allowed |-> Least(Least(est, total - acc), cap)]

Budget == IF role = 1 THEN CheckBudget ELSE TeamBudget

Admit ==
    \/ /\ stage = "admit" /\ Succeeds
       /\ IF Budget.ok
          THEN /\ hasBudget' = TRUE /\ allowed' = Budget.allowed
               /\ fit' = [fit EXCEPT ![role] = acc + est]
               /\ stage' = ToTool /\ UNCHANGED verdict
          ELSE Fail("budget_exceeded") /\ UNCHANGED <<hasBudget, allowed, fit>>
       /\ UNCHANGED <<request, role, est, withTool, acc, output, stores, status, calls, used, merged,
                      vital>>
    \/ /\ stage = "admit" /\ role = 1 /\ GivesUp
       /\ stage' = ToTool /\ vital' = TRUE
       /\ UNCHANGED <<request, role, budget, acc, output, stores, ends, fit, calls, used, merged>>
    \/ role = 1 /\ TryAgain("admit")

-----------------------------------------------------------------------------
(* Tool and LLM call of one role *)

\* A tool that answers with an error fails the task; one that does not answer
\* leaves the role without its result.
UseTool ==
    \/ /\ stage = "tool" /\ Succeeds
       /\ IF tool = "fails" THEN Fail("failed") /\ UNCHANGED withTool
          ELSE withTool' = TRUE /\ stage' = "call" /\ UNCHANGED verdict
       /\ UNCHANGED <<request, role, est, hasBudget, allowed, acc, output, stores, status, history>>
    \/ /\ stage = "tool" /\ GivesUp
       /\ stage' = "call"
       /\ UNCHANGED <<request, role, budget, acc, output, stores, ends, history>>
    \/ TryAgain("tool")

Request == calls' = [calls EXCEPT ![role] = @ + 1]

\* Mutant: a role without a budget output calls the LLM all the same.
NothingToDeref == FALSE

\* Mutant: an allowance of zero is taken for a missing one.
NoAllowance == allowed <= 0

NoBudgetOutput == ~hasBudget

Panic ==
    /\ stage = "call" /\ NoBudgetOutput
    /\ stage' = "panic"
    /\ UNCHANGED <<request, role, tries, budget, acc, output, stores, ends, history, faults>>

\* Run...AgentActivity refuses an allowance of zero on every attempt.
Refuse ==
    /\ stage = "call" /\ hasBudget /\ allowed <= 0
    /\ Fail("failed") /\ tries' = 0
    /\ UNCHANGED <<request, role, budget, acc, output, stores, status, history, faults>>

MayCall == stage = "call" /\ ~NoBudgetOutput /\ (hasBudget => allowed > 0)

\* The critic is shown the researcher's output as such and as the answer to review.
Repeated == IF role = 2 THEN output[1] ELSE 0

\* The LLM keeps to the allowance; the prompt it counts has the agent's own
\* instructions, and what is repeated, on top of the text that was estimated.
Answer == \E extra \in Overheads, completion \in 0..allowed :
    /\ MayCall /\ Succeeds /\ Request
    /\ used' = [used EXCEPT ![role] =
                   (IF est = Nil THEN 0 ELSE est) + extra + Repeated + completion]
    /\ output' = [output EXCEPT ![role] = completion + (IF withTool THEN ToolText ELSE 0)]
    /\ stage' = "usage"
    /\ UNCHANGED <<request, role, budget, acc, stores, ends, fit, merged, vital>>

\* The call fails, or its answer is lost after it was made.
CallLost ==
    /\ MayCall
    /\ Request \/ UNCHANGED calls
    /\ \/ Retries /\ UNCHANGED <<stage, verdict>>
       \/ GivesUp /\ Fail("failed")
    /\ UNCHANGED <<request, role, budget, acc, output, stores, status, fit, used, merged, vital>>

\* Mutant: the tool's tokens are charged although the query ran none.
ChargeAlways == used[role] + ToolTokens

Charge == used[role] + (IF withTool THEN ToolTokens ELSE 0)

WriteUsage == ledger' = [ledger EXCEPT ![role] = used[role]]

\* RecordUsageActivity upserts the role's row; its error is dropped.
RecordUsage ==
    /\ stage = "usage"
    /\ \/ /\ Retries /\ (WriteUsage \/ UNCHANGED ledger)
          /\ UNCHANGED <<acc, output, merged, role, stage>>
       \/ /\ \/ Succeeds /\ WriteUsage
             \/ GivesUp /\ (WriteUsage \/ UNCHANGED ledger)
          /\ acc' = acc + Charge
          /\ merged' = merged + (IF withTool THEN 1 ELSE 0)
          /\ IF role < 3 THEN role' = role + 1 /\ stage' = "estimate"
             ELSE stage' = "save" /\ UNCHANGED role
    /\ UNCHANGED <<request, budget, output, row, rowTotal, exec, announced, gateway, closed, ends,
                   fit, calls, used, vital>>

-----------------------------------------------------------------------------
(* The end of the run *)

\* Mutant: SaveFailure without its condition on the status.
RowIsAny == TRUE

RowIsOpen == row \in {"pending", "running"}

FailureStatus == verdict

\* UPDATE ... WHERE status = 'running'; to match no row is no error.
WriteResult ==
    IF row = "running" THEN row' = "completed" /\ rowTotal' = acc ELSE UNCHANGED <<row, rowTotal>>
WriteFailure == row' = IF RowIsOpen THEN FailureStatus ELSE row
WriteExec == exec' = IF exec = "running" THEN "completed" ELSE exec

SaveResult ==
    /\ stage = "save" /\ closed' = gateway
    /\ \/ Succeeds /\ WriteResult /\ stage' = "record" /\ verdict' = "completed"
       \/ Retries /\ (WriteResult \/ UNCHANGED <<row, rowTotal>>) /\ UNCHANGED <<stage, verdict>>
       \/ GivesUp /\ (WriteResult \/ UNCHANGED <<row, rowTotal>>) /\ Fail("failed")
    /\ UNCHANGED <<request, role, budget, acc, output, exec, ledger, announced, gateway, status,
                   history>>

\* The errors of RecordCompleted and RecordFailed are dropped.
RecordCompleted ==
    /\ stage = "record"
    /\ \/ Succeeds /\ WriteExec /\ stage' = "announce"
       \/ Retries /\ (WriteExec \/ UNCHANGED exec) /\ UNCHANGED stage
       \/ GivesUp /\ (WriteExec \/ UNCHANGED exec) /\ stage' = "announce"
    /\ UNCHANGED <<request, role, budget, acc, output, row, rowTotal, ledger, announced, gateway,
                   closed, ends, history>>

\* The update asks for the run id, which is empty in the workflow's input: it
\* matches no row.
RecordFailed ==
    /\ stage = "fail_exec"
    /\ \/ (Succeeds \/ GivesUp) /\ stage' = "announce"
       \/ Retries /\ UNCHANGED stage
    /\ UNCHANGED <<request, role, budget, acc, output, stores, ends, history>>

SaveFailure ==
    /\ stage = "fail_row" /\ closed' = gateway
    /\ \/ Succeeds /\ WriteFailure /\ stage' = "fail_exec"
       \/ Retries /\ (WriteFailure \/ UNCHANGED row) /\ UNCHANGED stage
       \/ GivesUp /\ (WriteFailure \/ UNCHANGED row) /\ stage' = "fail_exec"
    /\ UNCHANGED <<request, role, budget, acc, output, rowTotal, exec, ledger, announced, gateway,
                   ends, history>>

\* The terminal event; then the workflow returns.
Announce ==
    /\ stage = "announce"
    /\ \/ Succeeds /\ announced' = verdict
       \/ GivesUp /\ announced' \in {verdict, "none"}
    /\ status' = verdict /\ stage' = "done"
    /\ UNCHANGED <<request, role, budget, acc, output, row, rowTotal, exec, ledger, gateway, closed,
                   verdict, history>>

RetryAnnounce ==
    /\ stage = "announce" /\ Retries /\ announced' \in {verdict, announced}
    /\ UNCHANGED <<request, stage, role, budget, acc, output, row, rowTotal, exec, ledger, gateway,
                   closed, ends, history>>

(* The three turns: the code spells the block out for each agent. *)

Ask     == Estimate \/ Admit
CallLLM == Panic \/ Refuse \/ Answer \/ CallLost \/ RecordUsage

ResearcherAsks == role = 1 /\ Ask
ResearcherTool == role = 1 /\ UseTool
ResearcherCall == role = 1 /\ CallLLM
CriticAsks == role = 2 /\ Ask
CriticTool == role = 2 /\ UseTool
CriticCall == role = 2 /\ CallLLM
SynthesizerAsks == role = 3 /\ Ask
SynthesizerTool == role = 3 /\ UseTool
SynthesizerCall == role = 3 /\ CallLLM

Close ==
    \/ SaveResult \/ RecordCompleted \/ SaveFailure \/ RecordFailed
    \/ Announce \/ RetryAnnounce

Team ==
    \/ LoadSession \/ RunPlanner
    \/ ResearcherAsks \/ ResearcherTool \/ ResearcherCall
    \/ CriticAsks \/ CriticTool \/ CriticCall
    \/ SynthesizerAsks \/ SynthesizerTool \/ SynthesizerCall
    \/ Close

Next == Team \/ MarkRow \/ CreateExecution

\* Temporal schedules the next task of a run that is open, and runs an activity
\* until it succeeds or its attempts are used up.  The gateway may stop anywhere.
Spec == Init /\ [][Next]_vars /\ WF_vars(Team)

-----------------------------------------------------------------------------
Stages == {"session", "planner", "estimate", "admit", "tool", "call", "usage", "save", "record",
           "fail_row", "fail_exec", "announce", "done", "panic"}

\* The variables hold what the code can put into them.
TypeOK ==
    /\ total \in Totals /\ cap \in Completions
    /\ tool \in {"none", "works", "fails"} /\ forced \in BOOLEAN
    /\ stage \in Stages /\ role \in Roles /\ tries \in 0..(MaxAttempts - 1)
    /\ est \in Nat \union {Nil} /\ hasBudget \in BOOLEAN /\ allowed \in Int
    /\ withTool \in BOOLEAN /\ acc \in Nat /\ output \in [Roles -> Nat]
    /\ verdict \in Terminal \union {"none"} /\ status \in Terminal \union {"none"}
    /\ row \in Terminal \union {"pending", "running"} /\ rowTotal \in Nat
    /\ exec \in {"none", "running", "completed"}
    /\ announced \in Terminal \union {"none"}
    /\ gateway \in GatewayStates /\ closed \in GatewayStates \union {"never"}
    /\ ledger \in [Roles -> Nat \union {Nil}] /\ fit \in [Roles -> Nat \union {Nil}]
    /\ calls \in [Roles -> Nat] /\ used \in [Roles -> Nat] /\ merged \in 0..3
    /\ vital \in BOOLEAN /\ faults \in 0..MaxFaults

\* A role calls the LLM only after its prompt was found to fit into what the roles
\* before it left, also when the estimate or the check was lost.
NoUnadmittedCall == \A r \in Roles :
    calls[r] > 0 => fit[r] # Nil /\ fit[r] <= IF r = 1 THEN Limit ELSE total

\* What the run charges to its budget exceeds the limit by no more than two answers
\* (the one that is admitted, and the researcher's, which the critic's prompt repeats
\* with its tool result and the estimate counts once), the instructions of one agent
\* and one tool charge.
OvershootBounded == acc <= Limit + 2 * Completion + ToolText + MaxOverhead + ToolTokens

\* What the stores and the stream say of a run, whatever was retried: the total on a
\* completed row is the sum of the answers and of the tool charges; every usage row
\* has the tokens of the role's answer; what is announced or returned as completed
\* is saved as completed exactly if the gateway had marked the row when SaveResult
\* last ran, and otherwise stays pending, running or failed; an execution is
\* completed only if the run is.  A run that lost nothing announces what it returns,
\* and one that fails has its row say so unless the gateway marks it afterwards.
AccountsAgree ==
    /\ row = "completed" => rowTotal = Sum3(used) + ToolTokens * merged
    /\ row = "completed" => \A r \in Roles : calls[r] > 0
    /\ \A r \in Roles : ledger[r] \in {Nil, used[r]}
    /\ "completed" \in {announced, status} => (row = "completed" <=> closed = "marked")
    /\ exec = "completed" => verdict = "completed"
    /\ status # "none" /\ faults = 0 =>
         /\ announced = status
         /\ status # "completed" /\ gateway = closed /\ gateway # "failed" => row = status

\* No step of the workflow replaces a verdict on the row, not even the failure path
\* of a run whose SaveResult took effect without its report arriving.  (The gateway's
\* late mark does: that is the subject of TaskLifecycle.)
RowIsFinal ==
    [][gateway' = gateway /\ row \in Terminal => UNCHANGED <<row, rowTotal>>]_vars

\* The run comes to a verdict, unless its session or an admission was lost.
TeamEnds == <>(status # "none" \/ vital)
=============================================================================

---------------------------- MODULE RoutingPolicy ----------------------------
(***************************************************************************)
(* How AdvancedRoutingWorkflow decides which mode runs a task: the needs   *)
(* are detected, EvaluateRoutingPolicy plans a mode from keywords or from  *)
(* scores, the LLM arbiter may re-rank the candidates, the plan is         *)
(* resolved against the feature flags and what the user allows, and the    *)
(* decision is audited.  What follows is the subject of ApprovalGate.      *)
(*                                                                         *)
(* Scores are not computed: any candidate may rank first.  The rules that  *)
(* reject a candidate, and every rule that overrides the ranking, are the  *)
(* code's.  Money is in thousandths of a dollar, time in seconds.          *)
(***************************************************************************)
EXTENDS Integers

CONSTANTS
    Keywords,   \* keyword classes a query may hit: modes, or "none"
    Wishes,     \* sets of capabilities the query may ask for
    Enablings,  \* sets of modes whose feature flag is on
    Budgets,    \* values of budget_usd; the gateway turns 0 into 500
    Limits,     \* values of max_latency_ms, 0 when absent
    MaxAttempts, \* RetryPolicy.MaximumAttempts: 2
    MaxFaults   \* bound: lost activity attempts

-----------------------------------------------------------------------------
Scored == {"direct_answer", "rag_answer", "react_tool", "dag_workflow", "reflection",
           "tree_of_thoughts", "debate", "research_v2", "swarm_workflow", "sandbox_execution"}
Unscored == {"research_v1", "mode_disabled"}
Advanced == Scored \ {"direct_answer", "rag_answer"}
Capabilities == {"tools", "rag", "research", "sandbox"}
Allowable == {"tools", "research", "sandbox"}
Flagged == {"reflection", "tree_of_thoughts", "debate", "research_v2"}

ASSUME InputAssumption ==
    /\ Keywords \subseteq Advanced \cup {"none"}
    /\ Wishes \subseteq SUBSET Capabilities
    /\ Enablings \subseteq SUBSET Flagged
    /\ Budgets \subseteq Nat \ {0} /\ Limits \subseteq Nat
ASSUME RetryAssumption == MaxAttempts \in Nat \ {0} /\ MaxFaults \in Nat

VARIABLES
    keyword, wish, allow, enabled, budget, limit,  \* the request
    arbiter,    \* the classifier's switches are on
    legacy,     \* ROUTER_LEGACY_HEURISTIC
    stage,
    needs,      \* capabilityResult.Requires*
    by,         \* which path planned: keyword, legacy, score
    menu,       \* the modes in expl.Candidates
    unfit,      \* those with Rejected set
    pick,       \* the heuristic's mode
    planned,    \* *selected
    arbitrated, \* history: what the arbiter's answer was
    executed,   \* Decision.Mode
    audits,     \* rows of routing_audit_logs
    tries, faults

request == <<keyword, wish, allow, enabled, budget, limit, arbiter, legacy>>
plan    == <<by, menu, unfit, pick>>
vars    == <<request, stage, needs, plan, planned, arbitrated, executed, audits, tries, faults>>

-----------------------------------------------------------------------------
Cost(m) ==
    CASE m = "direct_answer" -> 5     [] m = "rag_answer" -> 20       [] m = "react_tool" -> 30
      [] m = "dag_workflow" -> 80     [] m = "reflection" -> 60       [] m = "tree_of_thoughts" -> 180
      [] m = "debate" -> 120          [] m = "research_v2" -> 200     [] m = "swarm_workflow" -> 300
      [] OTHER -> 50

Latency(m) ==
    CASE m = "direct_answer" -> 2     [] m = "rag_answer" -> 5        [] m = "react_tool" -> 8
      [] m = "dag_workflow" -> 20     [] m = "reflection" -> 30       [] m = "tree_of_thoughts" -> 90
      [] m = "debate" -> 60           [] m = "research_v2" -> 120     [] m = "swarm_workflow" -> 180
      [] OTHER -> 30

\* The other mode a keyword query is compared with.
Alternative(m) ==
    CASE m = "sandbox_execution" -> "react_tool"     [] m = "research_v2" -> "dag_workflow"
      [] m = "tree_of_thoughts" -> "reflection"      [] m = "debate" -> "tree_of_thoughts"
      [] m = "reflection" -> "dag_workflow"          [] OTHER -> "direct_answer"

\* Every sandbox keyword is also one of the phrases detection looks for.
Init ==
    /\ keyword \in Keywords /\ wish \in Wishes
    /\ keyword = "sandbox_execution" => "sandbox" \in wish
    /\ allow \in SUBSET Allowable /\ enabled \in Enablings
    /\ budget \in Budgets /\ limit \in Limits
    /\ arbiter \in BOOLEAN /\ legacy \in BOOLEAN
    /\ stage = "detect" /\ needs = {} /\ by = "none" /\ menu = {} /\ unfit = {}
    /\ pick = "none" /\ planned = "none" /\ arbitrated = "no" /\ executed = "none"
    /\ audits = 0 /\ tries = 0 /\ faults = 0

-----------------------------------------------------------------------------
Lost == faults < MaxFaults /\ faults' = faults + 1

Retries == Lost /\ tries + 1 < MaxAttempts /\ tries' = tries + 1
GivesUp == Lost /\ tries + 1 = MaxAttempts /\ tries' = 0
Succeeds == tries' = 0 /\ UNCHANGED faults

\* Without a detection the query needs nothing.
Detect ==
    /\ stage = "detect"
    /\ \/ Succeeds /\ needs' = wish /\ stage' = "plan"
       \/ GivesUp /\ needs' = {} /\ stage' = "plan"
       \/ Retries /\ UNCHANGED <<needs, stage>>
    /\ UNCHANGED <<request, plan, planned, arbitrated, executed, audits>>

\* BuildDecisionSignals, but for the scores it gives the query: a latency limit below
\* 30 seconds is raised to 30.
Signals == [denied |-> needs \ allow, budgetUSD |-> budget,
            maxLatency |-> IF limit > 30 THEN limit ELSE 30]

TooTight(m) == Cost(m) > Signals.budgetUSD \/ Latency(m) > Signals.maxLatency

\* The user's word weighs only when the capability is needed.
Rejected(m) ==
    \/ TooTight(m)
    \/ m = "sandbox_execution" /\ "sandbox" \in Signals.denied
    \/ m = "research_v2" /\ "research" \in Signals.denied
    \/ m = "react_tool" /\ "tools" \in Signals.denied

\* selectPlannedMode reaches these: its thresholds shadow swarm, reflection and ReAct.
LegacyModes ==
    {"direct_answer", "dag_workflow", "tree_of_thoughts", "debate"}
        \cup (IF "sandbox" \in needs THEN {"sandbox_execution"} ELSE {})
        \cup (IF "research" \in needs THEN {"research_v2"} ELSE {})
        \cup (IF "rag" \in needs THEN {"rag_answer"} ELSE {})

\* The keyword's mode is taken even when the budget or the user would reject it.
PlanByKeyword ==
    /\ stage = "plan" /\ keyword # "none"
    /\ by' = "keyword" /\ menu' = {keyword, Alternative(keyword)} /\ unfit' = {}
    /\ pick' = keyword /\ planned' = keyword /\ stage' = "arbitrate"
    /\ UNCHANGED <<request, needs, arbitrated, executed, audits, tries, faults>>

\* The heuristics are pure: an evaluation that is repeated picks the same mode.
SamePick(m) == pick \in {"none", m}

PlanByLegacy ==
    /\ stage = "plan" /\ keyword = "none" /\ legacy
    /\ \E m \in LegacyModes :
          SamePick(m) /\ pick' = m /\ planned' = m
    /\ by' = "legacy" /\ menu' = {} /\ unfit' = {} /\ stage' = "resolve"
    /\ UNCHANGED <<request, needs, arbitrated, executed, audits, tries, faults>>

\* The first of the ranking that is not rejected.
BestOfRanking(m) ==
    \/ m \in Scored /\ ~Rejected(m)
    \/ m = "direct_answer" /\ \A c \in Scored : Rejected(c)

PlanByScore ==
    /\ stage = "plan" /\ keyword = "none" /\ ~legacy
    /\ \E m \in Scored :
          SamePick(m) /\ BestOfRanking(m) /\ pick' = m /\ planned' = m
    /\ by' = "score" /\ menu' = Scored /\ unfit' = {m \in Scored : Rejected(m)}
    /\ stage' = "arbitrate"
    /\ UNCHANGED <<request, needs, arbitrated, executed, audits, tries, faults>>

-----------------------------------------------------------------------------
\* A keyword's pick that is over a limit or not allowed is not argued about.
Settled ==
    /\ by = "keyword"
    /\ \/ TooTight(pick)
       \/ pick = "sandbox_execution" /\ "sandbox" \notin allow
       \/ pick = "research_v2" /\ "research" \notin allow
       \/ pick = "react_tool" /\ "tools" \notin allow

MayArbitrate ==
    /\ arbiter /\ ~Settled
    /\ menu \cap Advanced \subseteq unfit => menu \cap Advanced = {}
    /\ Cost(pick) <= budget
    /\ limit > 0 => Latency(pick) <= limit

\* checkClassifierConditions depends on the scores: it may find no trigger.
SkipArbiter ==
    /\ stage = "arbitrate" /\ stage' = "resolve" /\ arbitrated' = "no"
    /\ UNCHANGED <<request, needs, plan, planned, executed, audits, tries, faults>>

\* Mutant: the scores of the mock are merged like an answer's.
KeepsPick(top) == planned' = top
\* No LLM, an error, an answer that is not JSON or lacks a field: the mock's scores
\* are in the output, and the heuristic's pick stays.
KeepPick(top) == UNCHANGED planned

ArbiterFails ==
    /\ stage = "arbitrate" /\ MayArbitrate
    /\ \E top \in menu : KeepPick(top)
    /\ arbitrated' = "failed" /\ stage' = "resolve"
    /\ UNCHANGED <<request, needs, plan, executed, audits, tries, faults>>

\* The answer's selected_mode is optional.
Names == Scored \cup {""}

\* Only when another mode is named is the sandbox protected.
KeepsSandbox(named) ==
    pick = "sandbox_execution" /\ named \notin {"", "sandbox_execution"}

TakeTop(top) == planned' = IF top \in unfit THEN planned ELSE top

ArbiterAnswers ==
    /\ stage = "arbitrate" /\ MayArbitrate
    /\ \E named \in Names, top \in menu :
          IF KeepsSandbox(named) THEN UNCHANGED planned ELSE TakeTop(top)
    /\ arbitrated' = "answered" /\ stage' = "resolve"
    /\ UNCHANGED <<request, needs, plan, executed, audits, tries, faults>>

-----------------------------------------------------------------------------
\* disabled_behavior: when_disabled, and direct_answer for what the user blocks.
WhenDisabled(m) ==
    CASE m = "research_v2" -> "research_v1"   [] m = "reflection" -> "tree_of_thoughts"
      [] m = "tree_of_thoughts" -> "reflection" [] m = "debate" -> "reflection"
      [] OTHER -> "mode_disabled"

\* Mutant: what is needed decides, whatever the user says.
Needed == needs

\* caps in EvaluateRoutingPolicy: what the user blocks counts as not needed.
Granted == needs \ (Allowable \ allow)

UserBlocks(m) ==
    \/ m = "research_v2" /\ "research" \notin Granted
    \/ m = "sandbox_execution" /\ "sandbox" \notin Granted
    \/ m \in {"react_tool", "dag_workflow"} /\ "tools" \notin Granted
    \/ m = "rag_answer" /\ "rag" \notin Granted

\* The target is not resolved again: it may be off itself.
Fallback(m) == IF UserBlocks(m) THEN "direct_answer" ELSE WhenDisabled(m)

Resolved(m) == IF UserBlocks(m) \/ m \in Flagged \ enabled THEN Fallback(m) ELSE m

\* The last step of EvaluateRoutingPolicy: no sandbox against the user's word.
Guarded(m) == IF m = "sandbox_execution" /\ "sandbox" \notin allow THEN "direct_answer" ELSE m

Resolve ==
    /\ stage = "resolve" /\ Succeeds
    /\ executed' = Guarded(Resolved(planned)) /\ stage' = "audit"
    /\ UNCHANGED <<request, needs, plan, planned, arbitrated, audits>>

\* The evaluation is lost with its result: it is made again from the start, or the
\* workflow returns an error without a word to the task row.
EvaluationLost ==
    /\ stage = "resolve"
    /\ \/ Retries /\ stage' = "plan"
       \/ GivesUp /\ stage' = "error"
    /\ UNCHANGED <<request, needs, plan, planned, arbitrated, executed, audits>>

\* AuditRoutingDecision inserts: an attempt whose report is lost has left its row.
Audit ==
    /\ stage = "audit"
    /\ \/ Succeeds /\ audits' = audits + 1 /\ stage' = "done"
       \/ Retries /\ audits' \in {audits, audits + 1} /\ UNCHANGED stage
       \/ GivesUp /\ audits' \in {audits, audits + 1} /\ stage' = "done"
    /\ UNCHANGED <<request, needs, plan, planned, arbitrated, executed>>

\* The decision is taken, or the workflow has returned an error.
Decided ==
    /\ stage \in {"done", "error"}
    /\ UNCHANGED vars

Next ==
    \/ Detect \/ PlanByKeyword \/ PlanByLegacy \/ PlanByScore
    \/ SkipArbiter \/ ArbiterFails \/ ArbiterAnswers
    \/ Resolve \/ EvaluationLost \/ Audit \/ Decided

Spec == Init /\ [][Next]_vars

-----------------------------------------------------------------------------
(* Properties.                                                             *)

TypeOK ==
    /\ needs \in SUBSET Capabilities
    /\ stage \in {"detect", "plan", "arbitrate", "resolve", "audit", "done", "error"}
    /\ by \in {"none", "keyword", "legacy", "score"}
    /\ menu \subseteq Scored /\ unfit \subseteq menu
    /\ pick \in Scored \cup {"none"} /\ planned \in Scored \cup {"none"}
    /\ arbitrated \in {"no", "failed", "answered"}
    /\ executed \in Scored \cup Unscored \cup {"none"}
    /\ audits \in 0..MaxAttempts /\ tries \in 0..MaxAttempts /\ faults \in 0..MaxFaults

\* What the user has not allowed never runs, whichever of keyword, score, arbiter and
\* fallback chose the mode, and whether or not detection saw the need.
BlockedNeverExecutes ==
    /\ executed = "sandbox_execution" => "sandbox" \in allow
    /\ executed \in {"research_v1", "research_v2"} => "research" \in allow
    /\ executed \in {"react_tool", "dag_workflow"} => "tools" \in allow

\* The plan is one the rules allow: an arbiter that fails changes nothing, although
\* its output carries the mock's scores (fail_open_to_heuristic), and on the scoring
\* path a rejected mode is never planned, neither by the ranking nor by the arbiter,
\* unless every mode is rejected and direct_answer is the plan.
PlanIsAdmitted ==
    /\ arbitrated \in {"no", "failed"} => planned = pick
    /\ by = "score" /\ planned \in unfit => planned = "direct_answer" /\ unfit = Scored
=============================================================================

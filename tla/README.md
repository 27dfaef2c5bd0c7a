# Cribug in TLA+

Cribug runs LLM tasks. A Go gateway takes a task over HTTP, writes it to
PostgreSQL and Redis and starts a Temporal workflow; a Go worker executes the
workflows and their activities, which call a Python LLM service, a vector store,
tool servers and a Rust sandbox runner, and write the outcome back to the same
stores. Clients poll the gateway or read a Redis stream through it.

Nothing here is one program with one lock: the gateway goes on writing after it has
started the workflow, Temporal repeats every activity whose completion it has not
seen, and most errors of secondary stores are logged and dropped. These modules say
what remains true under all that, and where a document of the repository claims more
than the code keeps.

## Inventory

| Part | State | Operations | Correct when | Module |
|---|---|---|---|---|
| Task gateway (`internal/api/handler.go`) | `tasks`, `executions` rows, Redis hash and stream | `createTask`, readers | accepted tasks are started once; a finished row is not reopened | `TaskLifecycle` |
| SimpleWorkflow (`workflows/simple.go`) | results of its steps; the same rows, `llm_calls`, session list | session, tool, estimate, budget, LLM, usage, save | spends within budget; one verdict; cache behind database | `TaskLifecycle` |
| Routed execution (`workflows/router.go`, `api/router_handlers.go`) | decision, `tasks` row | route, evaluate policies, dispatch, persist | what is polled is what happened | `ApprovalGate` |
| Approval gate (`activities/approval.go`, `api/approval_handlers.go`) | `approvals`, `approval_audit_logs`, signals | request, respond, approve, reject, time out | nothing gated runs unapproved; one final verdict, the human's | `ApprovalGate` |
| Routing policy (`activities/router*.go`) | the request, candidates, one audit row | detect, score, arbitrate, fall back | what the user blocks never runs; a failing arbiter changes nothing | `RoutingPolicy` |
| DAGWorkflow (`workflows/dag.go`) | node results, skipped set, Redis status hash | plan, layers, batches, fail, skip, synthesise | a node runs after its dependencies, never below a failed one | `DagExecution` |
| SwarmWorkflow (`workflows/swarm.go`) | rounds, futures, inboxes, counters | rounds, hand-off, routing, timeout | every worker run is counted once; routed mail is handed over | `SwarmRounds` |
| MultiAgentWorkflow (`workflows/multi_agent.go`) | shared token account, usage rows, task row | estimate, admit, tool, call, record | no call without admission; the overshoot is bounded; the accounts agree | `MultiAgentTeam` |
| Tree of thoughts (`workflows/tot.go`) | tree of thoughts, tokens | expand, score, prune, synthesise | bounded; the path reported is a best one | `ThoughtTree` |
| Debate (`workflows/debate.go`) | turns, verdict, winner | argue, judge, close | position, winning turn and verdict agree | `DebateRounds` |
| Reflection (`workflows/reflection.go`) | draft, iterations | draft, evaluate, revise | the record explains the answer | `ReflectionLoop` |
| Research (`workflows/research_v2.go`) | subqueries, evidence, contradictions | plan, retrieve, score, filter, report | the report rests on retrieved, credible evidence | `EvidenceReport` |
| Sandbox, MCP and skill workflows, hooks (`workflows/sandbox.go`, `mcp.go`, `skill_execution.go`, `internal/hooks`) | hooks, audit row, workspace item | ask hooks, call, audit, tell hooks | an objection stops the call; traces agree with the result | `ToolCalls` |
| Ingestion and RAG query (`workflows/ingestion.go`, `rag_query.go`) | `documents`, `document_chunks`, vector points | save, chunk, embed, upsert, mark; search, fetch, pack | rows, marks and points agree; one run per text | `DocumentIngestion` |
| Vector client breaker (`internal/vectordb/circuit.go`) | state, failures, opening time | allow, success, failure | silent while open | `CircuitBreaker` |
| ReAct loop, caches, LLM clients, start-up, frontend | | | | not modelled, see below |

Interactions: gateway → Temporal → worker is by started workflows and signals;
worker → gateway only through PostgreSQL and Redis; parent → child workflows inside
Temporal (the router starts every pattern as a child); workers of a swarm exchange
messages through workflow-local inboxes; all activities of one worker process share
one vector client and its breaker.

What is hard: two writers of one row without a common order (gateway and workflow);
at-least-once activities that are not idempotent; attempts that stop between two
writes; early returns and dropped errors between dependent writes; two timeouts on one
wait; a flag computed in two places; humans answering concurrently; results collected
in any order while timers fire; a token account that several agents share and that is
checked before and charged after each call; calls that end after the breaker they
passed has changed. `PROJECT.json` lists each hazard at its line with the properties
that cover it.

## Modules

| Module | Models | Uses |
|---|---|---|
| `TaskLifecycle` | `createTask` × `SimpleWorkflow` × the stores | |
| `ResultRegister` | abstract: a write-once answer with a cache that may lag | |
| `ApprovalGate` | `ExecuteRouted` × `AdvancedRoutingWorkflow` × approval endpoints × clock | |
| `ApprovalContract` | abstract: need, one verdict, execution | |
| `RoutingPolicy` | the decision inside `AdvancedRoutingWorkflow` | |
| `DagExecution` | `DAGWorkflow` × node activities × the shown status hash × replays | |
| `SwarmRounds` | `SwarmWorkflow` × its workers × timers × signals | |
| `MultiAgentTeam` | `MultiAgentWorkflow` × the stores | |
| `ThoughtTree`, `DebateRounds`, `ReflectionLoop`, `EvidenceReport`, `ToolCalls` | one child workflow each | |
| `PatternDispatch` | the router's child of one mode and what becomes of its result | the five above |
| `CircuitBreaker` | the breaker of the vector client | |
| `DocumentIngestion` | ingestions × queries × tables × vector store × restarts | `CircuitBreaker` |
| `*_proofs` | TLAPS proofs | the module of that name |
| `*MC` | instances for TLC | the module of that name |

### TaskLifecycle

`gw` and `wf` are program counters; a step of the handler or one attempt of an activity
is one action named after the function it models. `row`, `exec`, `ledger`, `redis`,
`events` and `session` are the stores. Store calls of the handler that use the request
context fail once the client is gone (`CtxCall`). Every activity attempt chooses
independently whether its writes took effect and whether its completion was reported;
`Outcome` retries an unreported one up to `MaxAttempts` (3, the workflow's
`RetryPolicy`). Several writes inside an activity are cut at each point where it may
stop (`SaveRow`: row, then hash; `SaveSession`: two RPUSHes). Failing for good follows
the code: dropped, or to the failure path, or `stuck` where the code dereferences a nil
output and the workflow task panics and is repeated for ever. Prompts and answers are
abstracted to token counts, chosen so that each comparison of `CheckBudget` and of the
post-call check goes both ways.

### ApprovalGate

`decision` is the `RoutingDecision` as far as the gate and the dispatcher read it.
Classification and detection that fail for good fall back to "low risk, nothing
needed", as the code does. The planned mode is any mode (how it is found is
`RoutingPolicy`'s subject); its fallback and both approval rules are the code's.
`approvals` is the table in order of insertion, a row per attempt of `RequestApproval`
that reached the database, because the id is generated inside the activity. Activities
of the gate have no retry policy, so the server repeats them without limit
(`Persistent`). Signals are kept with the id their channel name is built from; the
workflow takes the oldest one that names its request. A responder checks and signals in
two steps, through `Respond` (which looks at the deadline) or the task endpoints (which
take any newest pending request). `research_v2` stands for the high-risk modes that are
not the sandbox. The signal-mismatch branch is unreachable, since the endpoints put the
same id into channel name and payload, and is left out; so are `EmitApprovalEvent` (a
no-op), the policy trace (written, never read by these parts) and the preview endpoint,
which returns before the gate.

### RoutingPolicy

The request is what a query may hit (`keyword`), need (`wish`), what the user allows,
which feature flags are on and the limits. Detection may fail and then sees nothing.
`by` says which path planned: a keyword, the legacy heuristic, or scores. Scores are any
ranking of the candidates; the rules that reject a candidate (`unfit`) compare the
code's own cost and latency tables with the limits of the request. The arbiter is off, fails or answers with
any ranking; what the workflow then makes of it (a confident answer may move the plan to
another admitted candidate) is the code's. `Resolved` and `Guarded` are the fallbacks of
a blocked or disabled mode in the policy and the second check in the workflow. The audit
INSERT is repeated by a retry.

### DagExecution

The plan (`Nodes`, `Deps`, `UsesLLM`, `ReActNodes`) is a constant; `PlanAssumption` says
that it is acyclic. `NextBatch` cuts a layer of `groupNodesByLayer` into batches of at
most `maxParallel`; any slice is possible, because the layer has the order of a Go map
iteration. `StartNode` and `SkipNode` are the loop over a batch, `NodeRuns` is the
activity running on a worker, `Collect` is the loop over the futures, again in any order.
`ReactReturns` ends a ReAct node, during which the workflow does nothing else
(`wf = "react"`). The attempts of an activity are folded into its final outcome, since
every attempt repeats the same writes of the state kept here: done, failed for good, or
done with the answer lost (`HandleDAGNodeFailure`). `shown` is the Redis hash
`dag:{workflow_id}:nodes`; the counters beside it, usage rows and raw node outputs are
left out. The tasks row is `pending` when the gateway starts the workflow and is marked
`running`, or `failed`, at any later time (`MarkTask`); when the router starts it, its
task id is fresh and there is no row. `SaveResult` completes a row that is running and
reports success when it matched none; `saved` remembers what it found. `told` is the part of `skippedNodes` that is not already implied by the node results.

`Replay` is external: another worker runs the workflow again from its history. The Go SDK
compares type and position of a command with the history and not its input, so if two
nodes of a layer have the same kinds of commands and the map iteration comes out
differently, each gets the other's results. A replay may exchange one such pair;
`MaxReplays` bounds replays. The nodes must decide as recorded, so the guard asks that
what was skipped is skipped again.

### SwarmRounds

`future` is `roundFutures` with what has become of each activity: running, answered,
answered with an empty failed answer (which `WorkerAgent` returns without an error when
the LLM call fails), or in error. `left` is the number of iterations the collecting loop
still waits; an iteration collects one ready future or lets the
timer expire. Collecting an answer may start a hand-off, which the workflow awaits before it goes on
(`handing`). Messages are pairs of author and addressee in the inboxes of the next
round; a hand-off's target runs a second time in its round, and of that answer the
code keeps the counters only. Inboxes are never emptied, so each later round hands a worker
all of its mail again: `given` counts how often. Signals are counted and never acted
upon. `lost`, `empty`, `refused` and `given` are history: what no counter of the code
keeps. Activities are tried once, so a fault is an answer; only a lost authorisation by
the hooks has a bound of its own (`MaxFaults`).

### MultiAgentTeam

One workflow, three roles, one account `acc`. The gateway alone starts it (the router has
no mode for it), over a pending row; it marks the row (`MarkRow`) and creates the
execution (`CreateExecution`) at any time afterwards, or never, and what the workflow
writes before matches no row. Each attempt of an activity may be lost after it had its
effect (`vital` remembers those whose loss has no failure path: the session, an estimate
and its check). The estimate is of the query and the outputs so far (`output`, with the text a
tool added, `ToolText`). It does not see the agent's own instructions (`Overheads`), and
the critic's prompt has the researcher's output twice (`Repeated`: `ResearcherOutput` and
`CurrentAnswer` are the same text), so what an answer costs is bounded by the estimate,
these, and the completion allowed. `RecordFailed` asks for the run id that the workflow
does not carry, and changes nothing. `fit` records what the prompt was admitted against:
`CheckBudget` replaces a limit that is not positive by its default for the first role
only.

### Patterns and tools

`PatternDispatch` starts the child of one mode and turns its result, or error, into the
outcome of the execution; each pattern has its own variables and only that of the mode
moves. Activities of the patterns are tried twice: an action per activity, and a `Lost`
alternative for two failures, which each pattern handles in its own way.

- `ThoughtTree`: `tree` is `allNodes` in order; a thought's identifier is its depth and
  the line of the reply it was on, as in `GenerateThoughts`, so identifiers repeat and
  `NodeMap` finds the last holder. `from` is the true parent, which the program does not
  keep. The size is looked at before a reply and the budget between levels only.
- `DebateRounds`: `winner`, `position` and `verdictOf` are set in four places over the
  rounds. A failed debater leaves a placeholder turn that can win.
- `ReflectionLoop`: `EvaluateDraft` returns 0.55 in real mode whatever the critique
  says (`EvaluationScore`), so the pass or fail is the threshold's.
- `EvidenceReport`: evidence is an item per subquery and source; the worker injects no
  vector store, which is `backend = FALSE`; the tests inject one, `TRUE`. Credibility
  scoring, contradiction search, review and report may each fail and hand their input on.
- `ToolCalls`: the hooks registered for `before_tool_call` in order of registration, with
  what each says; a filter is compared with the event the workflow emits, so a filter by
  a key no event carries matches nothing. A hook activity that is lost, an unknown
  handler and (unless configured) a failing one let the call pass. Audit row, workspace
  item and later events may each be lost. A skill may ask for retrieval with `parameters`
  or without: without, the context is written to a nil map, and the workflow task panics at
  every attempt (`step = "panic"`).

The first research workflow is a child that fails at once: the worker registers none of
its activities.

### DocumentIngestion and CircuitBreaker

Runs of `DocumentIngestionWorkflow` and `RAGQueryWorkflow` share the tables, the store
and the breaker. A row of `document_chunks` is named by its text, the run and attempt
that inserted it and its index, because a retried attempt inserts the text again under
new ids. An attempt is lost anywhere: after any leading part of the inserts, of the
marks, or between two batches. A call to the vector store is two steps, `Allow` and
the recording of its result, and others may pass between them; a failed upsert may have
been applied. `RestartWorker` ends the calls under way and starts with a fresh breaker.
The index on the content hash is what makes the insert fail for the second run.
Similarity is abstracted: a search finds any `TopK` points.

## Runs

| Run | Shows | Bounds |
|---|---|---|
| `task_faults` | budget, truth of results, one verdict, the turn in memory, final results, refinement of `ResultRegister`; running tasks settle | limits default and 2, estimates below and above, usages that fit and do not; 2 attempts, 2 faults, so that a retry limit is used up |
| `task_overwrite` | violation: `PROJECT_SPEC.md`'s terminal row | no fault needed |
| `approval_faults` | nothing gated runs unapproved; policy failures fail closed; tables agree; the gate ends by its deadline; arriving answers are taken | 4 queries (ungated, costly, sandbox, plain high risk), 1 responder, deadline before the execution timeout, 2 faults = one exhausted retry policy |
| `approval_race` | the answer of a human is what counts; refinement of `ApprovalContract` | 2 responders, 4 answers, both timeouts racing, 1 fault (a duplicated request) |
| `approval_sandbox` | violation: an approved sandbox runs | no fault needed |
| `dag_faults` | no node runs below a failure, none is lost or run twice, skips have a cause and stay, completion is backed by a node and agrees with a row marked in time, the workflow ends | the plan of `PlanDAG` without its three identical extra nodes, batches of 2 (the layer of three needs two), `draft` as ReAct node, with a row and without, 3 faults, 1 replay |
| `swarm_rounds` | every run of a worker is counted once, each later round hands over the whole inbox and nothing is routed twice, the swarm ends | 1, 2, 3 and 4 workers (4 is the smallest with two peers beside researcher and analyst), 1 and 2 further rounds, 1 signal, 1 lost authorisation |
| `team_faults` | admission, overshoot, agreement of the accounts, finality of the row, an end | no limit, limits that fit none, the researcher and the critic's prompt (the bound of the overshoot is reached), and all agents; the gateway early, late or absent; 2 attempts and 3 faults: an activity lost for good and one more loss |
| `routing` | user blocks hold, a failing arbiter changes nothing, rejected modes stay out | every keyword class, each need alone, none and all, 4 flag settings, budgets and latencies below, between and above the tables' values |
| `pattern_faults` | bounds and self-consistency of every pattern's result, guarded tool calls, an outcome for each (or the nil map) | depth 2, branching 2 from 3 lines, 5 nodes; 2 rounds; 2 passes at thresholds below and above the fixed score; 2 subqueries (equal ids included), 2 sources, 2 chunks; up to 2 hooks of 5 kinds |
| `ingestion_faults` | rows, marks and points agree, one run per text, silence of the open breaker, every run returns | 2 ingestions of a text of 3 chunks (a full batch of 2 and a rest) or of 1 chunk, 1 query, 2 attempts, a breaker that opens at 1 failure, 2 faults |
| `ingestion_status` | violation: what the status activity says of itself | as above |

Time has a unit: `ApprovalTimeout = 1`, `ExecTimeout = 2` let both timeouts happen and
race in `approval_race`; `approval_faults` lets the deadline come first, as its liveness
properties are about the gate's own timeout (in the code it is the other way round, see
below). One tick is enough to put each action before, at and after a deadline. Faults are
the only unbounded cause of repetition, so `MaxFaults` also bounds orphan requests,
duplicated rows and duplicated audit entries: one fault gives the first, two exhaust a
two-attempt policy. Responders are symmetric, and `approval_race`, which has two and no
liveness property, uses the symmetry. In a DAG one fault fails a node and a second loses
the answer about it, or fails the other root so that nothing completes;
the third loses the report of `SaveResult` or the announcement.

Deadlock is checked except in `team_faults`, `ingestion_faults` and `ingestion_status`,
where all workflows really come to a stop.

Fairness: the workflow, because Temporal keeps scheduling an open workflow and its
activities; the clock and the execution timeout, because they are the server's; the
gateway handler, because net/http runs it to its end. In `DocumentIngestion` each run has
it on its own, since no workflow is starved by another. Clients, responders, swarm
workers, signals, crashes, restarts, lost calls and the cooling of the breaker get none,
nor has the gateway any in `DagExecution` and `MultiAgentTeam`, where it may never come to
mark the row.
`PatternEnds` and `TeamEnds` need no more than that the one workflow keeps moving, because
`Finished` is a self-loop of the ended execution.

Three liveness properties name the states in which the code itself never comes to an end,
because a workflow task panics and Temporal repeats it for ever: `RunningSettles` allows a
session that could not be loaded, `TeamEnds` a lost session or admission (`vital`), and
`PatternEnds` a skill that retrieves without parameters. They say that nothing else keeps
a run from its end; that these do is listed below.

### Disagreements

Each `violation` run checks one sentence of the repository that the code does not keep;
`findings` in `PROJECT.json` quotes it:

- `task_overwrite`: a task that fails fast is set back to `running` by the gateway;
- `approval_sandbox`: an approved sandbox task never runs;
- `ingestion_status`: a failed ingestion is marked as `indexed`.

Met while modelling, without a run of their own. Most are in the models as the code has
them; where a part of the code is left out, they were found by reading it.

Tasks and approvals:

- `RecordFailed` looks for the run id, which the workflow's input does not carry
  (`api/handler.go:107`, `activities/execution.go:69`), so no `executions` row ever
  becomes failed (`PROJECT_SPEC.md:542`);
- a workflow faster than the gateway, or whose row the gateway failed to mark, finds it
  `pending`; `SaveResult` drops the answer and returns no error (`activities/task.go:63`,
  `:77`), so the stream announces a completion that the row never shows. A child of the
  router has a fresh task id (`workflows/router.go:598`, `:676`) and no row at all;
- a retried `SaveSession` pushes the turn again (`redis/client.go:345`); a failed session
  load is dereferenced (`workflows/simple.go:56`);
- the routed row is inserted after the workflow was started, with `ON CONFLICT DO NOTHING`
  (`api/router_handlers.go:233`, against the comment at 223), so a fast execution leaves a
  row that says `running` for ever; so do a persist that fails for good and the early
  returns of the workflow (`workflows/router.go:300`, `:101`);
- the execution timeout of 10 minutes ends a workflow long before its approval deadline of
  one hour (`api/router_handlers.go:212`), so the timeout is never reported
  (`Cribug_Phase7.md:96`);
- a retried `RequestApproval` leaves an orphan (`activities/approval.go:47`), and the task
  endpoints, which order by `requested_at` (`api/router_handlers.go:692`), may answer the
  orphan instead of the request that is awaited;
- a rejection is persisted as completed; the approval flag of the routing policy is
  overwritten (`workflows/router.go:169`).

Routing: the sandbox is downgraded when the arbiter's answer lacks a selected mode;
reflection and tree of thoughts fall back on each other without a second look at the
flags, so a disabled mode may run (`activities/router.go:648`); a keyword's pick executes
although the explanation rejects it, and its alternative may exceed the budget; a latency
limit under 30 s is raised to 30 (`activities/router.go:360`); the audit INSERT is
repeated by a retry.

DAG and swarm: layers have the order of a Go map (`workflows/dag.go:705`,
`Cribug_Phase3.md:148`), so a replay may give a node another node's result; usage rows of
ReAct nodes carry running totals (`dag.go:419`). In a swarm delivered messages never enter
`allMessages`, and inboxes are never emptied (`swarm.go:308`, `:486`), so each further
round gives the workers the same messages again; a hand-off's target is not authorised and its
failure is not counted; a swarm whose workers were all refused is "completed" (against
`Cribug_Phase5.md:973`); cancel signals are ignored.

Multi-agent: critic and synthesizer may finish over `max_total_tokens`, since a total is
compared before and never after a call (`workflows/multi_agent.go:468`,
`PROJECT_SPEC.md:158`), and the critic's by up to an answer more, because its prompt has
the researcher's output twice (`activities/multi_agent.go:175`) and the estimate once; the fixed charge for a tool makes the row's total larger than
the sum of the usage rows; a limit of 0 pays for the researcher and then refuses the critic.

Patterns: `SynthesizeToTResult` looks the path's identifiers up among all nodes, so below
depth 1 it may summarise a thought of another branch (`activities/tot.go:306`), and in a
tree of three levels or more the branch reported need not be a best one;
`EvaluateDraft` scores 0.55 whatever it reads (`activities/reflection.go:143`), so the
router's threshold of 0.75 is never met, the last revision is never evaluated, and
`ok` means that the evaluation failed; a lost first draft is routed as `ok` with an error
text; placeholders of failed debaters can win, and the transcript announced at
`activities/debate.go:204` is not written; research has no vector store in the worker,
so its evidence is placeholders, and the plan's tokens alone count for its budget.

Tools: the filter keys a hook may name (`tool_types`, `agent_id`, `tenant_id`, `skill_id`,
`hooks/filter.go:30`) are looked up in events that carry none of them, so a blocking hook
with such a filter is never asked (against `Cribug_Phase6.md:1331`); a lost hook activity
and an unknown handler let a call pass even when hooks are configured to fail closed; a
skill with retrieval and without parameters writes to a nil map
(`workflows/skill_execution.go:172`); the routed sandbox asks for the language `auto`,
which no runner has, and is reported as `ok`; a lost audit leaves a call without a row
(against `Cribug_Phase6.md:75`).

Ingestion: a text whose ingestion failed is a duplicate for ever after
(`activities/ingestion.go:92`), also for the retry of the very attempt that inserted it
(`:96`); a repeated chunking doubles rows and points (`db/documents.go:173`);
`chunk_count` is written back to 0; a half-open breaker lets every caller pass and a late
success closes an open one (`vectordb/circuit.go:85`); refused calls use up attempts;
`PackContext` ignores its token limit; `README.md:112` names tables that do not exist.

## Proofs

Eight components have a `_proofs` module, and each of them a theorem that every variable
keeps its type (`TypeCorrect`). Every safety invariant, action property and refinement
that a passing run checks is stated by a theorem. A theorem holds for all values of the
constants that satisfy the assumptions named with it; the run checks the same property on
the instance above. The proofs have one form: an invariant that is inductive, a lemma per
action that it is kept, and the property from it.

`TaskLifecycle_proofs`, for every set of budgets, estimates and usages, every retry limit
and every number of faults, from `BudgetAssumption` and `RetryAssumption`:

- `Invariance`, the inductive invariant;
- `SpendIsBounded`: `SpendWithinBudget`. It is not inductive: the prompt estimate and the
  allowance are computed two steps before the call. The invariant adds, for each place of
  the workflow, that the allowance is what `CheckBudget` computes from the current
  estimate (`LlmPhase`), and that the calls made never exceed the attempts that went
  unreported, which the retry policy bounds;
- `CompletedTruth`, `CacheBehindDatabase`: `CompletedIsTrue` and `CacheNeverAhead`. The
  invariant says which workflow steps may still write an answer or a tool result, and that
  from them on usage and LLM calls no longer change;
- `TerminalKept`, `CompletedFinality`: action properties, from the same invariant;
- `VerdictIsOne`: `OneVerdict`. It does not say which verdict may still come; `VerdictInv`
  adds that before the last emission the stream has none, and during it only the one
  being emitted, however often the attempt is repeated;
- `MemoryIsAnswered`: `MemoryOfAnsweredTurns`. `TurnInv` adds from which step on there are
  messages, and that no step after it can still end over budget; that an attempt stopped
  between its two pushes leaves the messages paired is a lemma (`PushesPair`);
- `Refinement`: every step is a step of `ResultRegister` or stutters.

`ApprovalGate_proofs`, for every set of queries, any number of responders, any deadlines
and bounds, from `GateAssumption`: `GatedRunsAreCleared`, `HumansAreHonoured`,
`TablesMatch` and `GateImplementsContract`. The invariant relates three views of one
verdict: the place of the workflow (`PlaceInv`, and that it dispatches only when
`Cleared`), how far the verdict has come in the approval row and the audit table
(`VerdictInv`), and whose it is (`AnswerInv`: every signal, and so the answer processed,
was sent by a responder); `RowInv` adds what the result may say of the run. Each step of
the gate is then a step of `ApprovalContract` or a stutter.

`DagExecution_proofs`, for every acyclic plan, parallelism and bound, from
`PlanAssumption`:

- `Inductive`, the inductive invariant, from a pending row as from none;
- `InputCompleted`: `RunsOnCompletedInput`, which speaks of all ancestors. The invariant
  has it for direct dependencies (`DirectInput`); that needs layers to be reached only when
  everything below them is settled (`LayersInOrder`), which needs every node to be to come,
  in flight or settled (`Accounted`, `Disjoint`, `UnsettledInFlight`). `Transitive` lifts it
  to ancestors: the nodes that have not started, or whose ancestor completed, are closed
  under dependents;
- `CompletionBacked`: `CompletionIsBacked`. What is saved or announced as completed has the
  answer of a completed node (`AnswerSourced`), and the row is completed exactly if the
  gateway had marked it when `SaveResult` looked (`VerdictTrue`); `Endings` follows row,
  mark and verdict, also where the report of the update is lost and the failure path runs;
- `SkippedForGood`: the action property `ShownSkippedStays`, from `InputCompleted` and the
  invariant that what is shown as skipped is skipped or below a failure;
- `SkipsContained`: `SkipHasCause`. A node is skipped for its own mark or for a dependency
  that failed or was skipped, so `MarkHasCause` says of the marks, too, that a node above has
  failed;
- `NodesAccounted`: `EveryNodeAccounted`, the count of a batch against `maxParallel` by
  cardinalities (`Width`), the end of the loop (`NothingLeft`) and who ran for whom
  (`OwnActivity`).

`SwarmRounds_proofs`, for any numbers of workers, rounds, signals and refusals, from
`SwarmAssumption`:

- `RunsCounted`: `EveryRunCounted`. That the verdict agrees needs the loop that collects
  to leave no future behind, so the invariant has an iteration for every future and for
  the hand-off under way (`Awaited`), although the timer and the hand-off change both at
  once;
- `MailGiven`: `MailIsGiven`. Messages are only routed while the first round is
  collected, and once per worker (`WritesOnce`); a message was given as often as rounds
  after the first have started, unless its addressee was refused one, and the workers this
  is true of are no more than `refused` counts (`GivenInTime`).

`MultiAgentTeam_proofs`, for every limit, estimate, usage, retry limit and number of faults,
from `BudgetAssumption` and `RetryAssumption`: `Inductive`, `CallsAdmitted`, `Overshoot`,
`AccountsMatch`, `RowStays`. The invariant says what each place of a turn owes: the admission
that precedes the call (`Admission`), the usage row that follows it (`Accounts`, where an
attempt may have written its row before it was lost), what the gateway's mark means for the row
before and after `SaveResult` (`Marks`), and that the announcement, and the row of a failed run,
follow the verdict when nothing was lost (`NothingLost`). The bound of `Overshoot` is kept by
`Admission`: what the critic's prompt repeats is no longer than one answer with a tool's text.

`RoutingPolicy_proofs`, for every request and limit and every ranking of the candidates, from
`InputAssumption` and `RetryAssumption`: `Inductive`, `BlockedStaysOut`, `PlanAdmitted`. The
invariant adds that the plan the arbiter finds is the heuristic's and that there is one from
then on (`HasPlan`), and that the audit has no more rows than attempts (`RowsOfAttempts`).

`PatternDispatch_proofs`, from `ToolAssumption`, `ReflectionAssumption`, `TreeAssumption`
and `ResearchAssumption`. The last two say that limits are numbers, which the workflows see
to by replacing limits that are not positive (`workflows/tot.go:29`,
`workflows/research_v2.go:35`), that a reply costs no more than some largest reply, and
that a vector store is finite.

- `ToolCallsGuarded`: `ToolCallIsGuarded` for any list of hooks. What was heard is fixed
  before the call, and the invariant (`ToolInv`) carries the verdict through the retrieval
  to the last event;
- `DebateAgrees`: `WinnerAgrees` for any number of rounds, with or without a moderator:
  between the judge and the end of a round the winner is the side's turn of this round;
- `ReflectionExplained`: `PassesExplainAnswer` for any thresholds and any limit: while the
  loop goes on, the draft's number is the number of passes, each below the threshold and
  revised;
- `SearchWithinBounds`: `SearchBounded` for all limits, costs and scores. The size is
  looked at before a reply and the budget between levels, so `TreeInv` counts the scores
  still to come, what the nodes still queued may cost (`BudgetInv`), and that level and
  queue together fit the width of the next level (`LevelInv`);
- `BestBranchFound`: `BestBranchChosen` under the hypothesis `MaxDepth <= 2`. Identifiers
  are unique among the children of the root only (`Distinct`), so in a tree of two levels a
  branch traced by identifiers is the branch that grew (`BranchFound`). The hypothesis is
  needed: with `MaxDepth = 3` TLC finds a tree whose reported branch is not a best one.
  `dispatchToT`, the only caller, asks for 2 (`workflows/router.go:804`); the default of the
  workflow is 5;
- `ReportSupported`: `ReportIsSupported` for any planner, store and limits, whichever steps
  fail. Evidence is followed through concatenation, cap, filter and review (`KeptInv`), the
  references counted through the scoring (`CountInv`);
- `TypeCorrect`, for `MaxIterations > 0`, which `workflows/reflection.go:24` ensures. At any
  depth a trace stays in the tree and goes up one level at a time (`TraceIn`), so path and
  summaries are nodes of the tree, if not always of one branch.

Sums, widths and traces are recursive functions. That such a function takes the values its
definition says needs an induction, which the proofs derive from the order of the
numbers: a set of naturals that has 0 and the successors of its members is `Nat`
(`Least`, `Induct`), so an unfolding exists (`Unfold`). Sorting is by rank: the element with
`k - 1` elements before it (`RankOnto`).

`DocumentIngestion_proofs`, for any number of ingestions and queries, texts of any length
and any number of retries, faults and restarts, from `IngestionAssumption` and
`BreakerAssumption`:

- `TextHasOneIngester`: `OneIngester`; the invariant ties each stage of a run to the
  metadata row it inserted (`StageInv`, `OwnerInv`);
- `TablesMatchVectors`: `StoresAgree`; an upsert and its mark are separate steps, so the
  invariant follows the batches of a run (`ProgressInv`), what a query has
  found (`QueryInv`) and what a run without faults may rely on (`NothingLost`);
- `OpenBreakerIsSilent`: `NoCallWhileOpen`, with overlapping calls that report to a breaker
  that has changed since (`BreakerInv`).

Only model-checked:

- liveness: `RunningSettles`, `GateEnds`, `AnswerIsTaken`, `PlannedWorkEnds`, `SwarmEnds`,
  `TeamEnds`, `PatternEnds`, `RunsEnd`. Fairness and ENABLED are outside the prover;
- the violations, which are counterexamples.

## Not modelled

- The ReAct loop (`workflows/react.go`, `activities/react.go`): a bounded counter around
  two activities, left when the text of the model says so. `DagExecution` has it as a node
  that occupies the workflow and then completes or fails.
- Embedding cache, token cache: an LRU under one mutex whose key is a hash of the whole
  input. Entries cannot be stale, operations do not overlap, and the callers modelled here
  see only success or failure.
- LLM clients (`internal/llm`) and settings, the Python LLM service, the Rust sandbox
  runner: a request and its response, no state kept between two of them that Cribug
  relies on. They are the outcomes of the activities that call them.
- The MCP adapter below one call: it starts, initialises and closes a process each time.
- Readers: task and list endpoints, the event stream, execution previews. They change
  no state. The endpoints that register hooks, tool servers and skills insert one row each.
- Worker and gateway start-up, configuration, the web frontend.
- Inside modelled parts: the meta counters, usage rows and raw node results of a DAG; the
  policy trace; the weights of the YAML behind the routing scores, which are any ranking
  here; the debate checkpoint of the research workflow and the texts of citations;
  `chunk_count` and the standalone embed, upsert and search activities, which no workflow
  calls; the `Run...WithTools` activities of the multi-agent workflow and their tool cache,
  for the same reason; the mock modes of the activities.
- The first research workflow beyond its failure: the worker registers none of its
  activities, so no step of it can run.

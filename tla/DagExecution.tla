---------------------------- MODULE DagExecution ----------------------------
(***************************************************************************)
(* DAGWorkflow (internal/workflows/dag.go): a plan is cut into layers and  *)
(* the layers into batches; the nodes of a batch run as concurrent         *)
(* activities, a failure makes everything below it skip, and a synthesis   *)
(* turns what completed into the answer.  With it RecordDAGNodeStatus and  *)
(* HandleDAGNodeFailure, which keep the status hash clients are shown, and *)
(* the replays by which Temporal rebuilds the workflow's memory.           *)
(*                                                                         *)
(* The task row is the gateway's, which marks it after it has started the  *)
(* workflow; a workflow that the router starts has a fresh task id and no  *)
(* row at all.  SaveResult reports success when it matched no row.         *)
(*                                                                         *)
(* The attempts of an activity are folded into its last outcome: on the    *)
(* state kept here they are idempotent.                                    *)
(***************************************************************************)
EXTENDS Integers, FiniteSets, FiniteSetsExt

CONSTANTS
    Nodes,              \* the planned nodes
    Deps,               \* DependsOn of each
    UsesLLM,            \* the nodes with UseLLM,
    ReActNodes,         \* and those of them that run a ReAct loop
    MaxParallelAgents,  \* of the request, any integer
    MaxFaults,          \* bound on activities that fail and model calls that err
    MaxReplays          \* bound on replays by another worker

\* A plan is acyclic: in every set of nodes one depends on none of the others.
ASSUME PlanAssumption ==
    /\ IsFiniteSet(Nodes) /\ Deps \in [Nodes -> SUBSET Nodes]
    /\ ReActNodes \subseteq UsesLLM /\ UsesLLM \subseteq Nodes
    /\ \A S \in SUBSET Nodes : S # {} => \E n \in S : Deps[n] \cap S = {}
    /\ MaxParallelAgents \in Int /\ MaxFaults \in Nat /\ MaxReplays \in Nat

VARIABLES
    wf,         \* where the workflow is
    remaining,  \* nodes of the layers to come
    layer,      \* of this layer, not yet in a batch
    batch,      \* of this batch, not yet reached by the loop
    future,     \* per node, the activity whose result is not yet collected
    result,     \* nodeResults: the status per node
    owner,      \* per node, the node its activity was scheduled for
    told,       \* skippedNodes, as far as HandleDAGNodeFailure answered
    shown,      \* dag:{workflow_id}:nodes in Redis: the status shown per node
    outcome,    \* what the workflow has decided about the task
    row,        \* tasks.status, "none" without a row
    verdict,    \* the terminal event on the task's stream
    gateway,    \* what the gateway has made of the row it created, if any
    saved,      \* history: gateway when SaveResult ran, "never" before
    faults, replays

layerVars == <<remaining, layer, batch>>
nodeVars  == <<future, result, owner, told, shown>>
taskVars  == <<outcome, row, verdict, gateway, saved>>
bounds    == <<faults, replays>>
vars == <<wf, layerVars, nodeVars, taskVars, bounds>>

\* DAGWorkflow defaults and caps the parallelism.
maxParallel == IF MaxParallelAgents <= 0 THEN 5
               ELSE IF MaxParallelAgents > 20 THEN 20 ELSE MaxParallelAgents

\* All nodes that transitively depend on one: the breadth-first search of
\* HandleDAGNodeFailure.
Dependents == [n \in Nodes |->
    {m \in Nodes : \A S \in SUBSET Nodes :
        (\A k \in Nodes : Deps[k] \cap (S \union {n}) # {} => k \in S) => m \in S}]

FutureStates == {"none", "running", "ok", "failed", "err"}
ResultStates == {"none", "completed", "failed", "skipped"}
ShownStates  == {"none", "pending", "running", "completed", "failed", "skipped"}

Started(n) == future[n] # "none" \/ result[n] \in {"completed", "failed"}
Open == {n \in Nodes : future[n] # "none"}

Init ==
    /\ wf = "prepare"
    /\ remaining = {} /\ layer = {} /\ batch = {}
    /\ future = [n \in Nodes |-> "none"] /\ result = [n \in Nodes |-> "none"]
    /\ owner = [n \in Nodes |-> n] /\ told = {}
    /\ shown = [n \in Nodes |-> "none"]
    /\ outcome = "none" /\ verdict = "none" /\ saved = "never"
    /\ \/ gateway = "starting" /\ row = "pending"  \* from the gateway,
       \/ gateway = "absent" /\ row = "none"       \* or from the router
    /\ faults = 0 /\ replays = 0

Fault == faults < MaxFaults /\ faults' = faults + 1
NoFault == UNCHANGED faults

\* Once ExecuteWorkflow has answered, the gateway marks the row running, or failed
\* if the answer is an error though the workflow runs.  Both updates ask for no
\* status and come at any time; one that fails, or a client that is gone, is a
\* step never taken.
MarkTask ==
    /\ gateway = "starting" /\ gateway' \in {"running", "failed"} /\ row' = gateway'
    /\ UNCHANGED <<wf, layerVars, nodeVars, outcome, verdict, saved, bounds>>

(* Steps 1 to 10 ------------------------------------------------------------ *)

Planned ==
    /\ wf' = "nodes" /\ remaining' = Nodes
    /\ NoFault /\ UNCHANGED <<layer, batch, nodeVars, taskVars, replays>>

BudgetExceeded ==
    /\ wf' = "fail" /\ outcome' = "budget_exceeded"
    /\ NoFault /\ UNCHANGED <<layerVars, nodeVars, row, verdict, gateway, saved, replays>>

\* Session, estimate, budget, classification and plan are dereferenced whether
\* or not their activity failed: the workflow task panics for ever.
Panics ==
    /\ Fault /\ wf' = "stuck"
    /\ UNCHANGED <<layerVars, nodeVars, taskVars, replays>>

Prepare == wf = "prepare" /\ (Planned \/ BudgetExceeded \/ Panics)

(* Step 11: layers and batches ---------------------------------------------- *)

\* groupNodesByLayer: what depends on nothing that remains, and everything if a
\* cycle leaves no such node.
Ready(S) ==
    LET free == {n \in S : Deps[n] \cap S = {}} IN IF free = {} THEN S ELSE free

\* The layer is in the order of a map iteration: any slice of the right length.
Batches(S) ==
    LET size == IF Cardinality(S) <= maxParallel THEN Cardinality(S) ELSE maxParallel
    IN {b \in SUBSET S : Cardinality(b) = size}

\* Mutants of RestOfLayer
NoRest(current, b) == {}
RestWithBatch(current, b) == current
RestOfLayer(current, b) == current \ b

NextBatch ==
    /\ wf = "nodes" /\ batch = {} /\ Open = {} /\ layer \union remaining # {}
    /\ LET current == IF layer # {} THEN layer ELSE Ready(remaining)
       IN /\ \E b \in Batches(current) : batch' = b /\ layer' = RestOfLayer(current, b)
          /\ remaining' = remaining \ current
    /\ UNCHANGED <<wf, nodeVars, taskVars, bounds>>

(* Step 11: the nodes of a batch, in any order ------------------------------- *)

\* RecordDAGNodeStatus; its failure is ignored.
Show(n, status) ==
    \/ NoFault /\ shown' = [shown EXCEPT ![n] = status]
    \/ Fault /\ UNCHANGED shown

\* Mutants of Doomed
DoomedByFailure(n, res, marked) == n \in marked \/ \E d \in Deps[n] : res[d] = "failed"
DoomedIfMarked(n, res, marked) == n \in marked
\* The node was marked, or one it depends on has failed or was skipped.
Doomed(n, res, marked) ==
    n \in marked \/ \E d \in Deps[n] : res[d] \in {"failed", "skipped"}

SkipNode(n) ==
    /\ wf = "nodes" /\ n \in batch /\ Doomed(n, result, told)
    /\ batch' = batch \ {n}
    /\ result' = [result EXCEPT ![n] = "skipped"]
    /\ Show(n, "skipped")
    /\ UNCHANGED <<wf, remaining, layer, future, owner, told, taskVars, replays>>

\* The node is shown pending, then running, and its activity is scheduled; a
\* ReAct node runs inside the workflow, which does nothing else meanwhile.
StartNode(n) ==
    /\ wf = "nodes" /\ n \in batch /\ ~Doomed(n, result, told)
    /\ batch' = batch \ {n}
    /\ future' = [future EXCEPT ![n] = "running"]
    /\ owner' = [owner EXCEPT ![n] = n]
    /\ wf' = IF n \in ReActNodes THEN "react" ELSE "nodes"
    /\ \/ Show(n, "running")
       \/ Fault /\ shown' = [shown EXCEPT ![n] = "pending"]
    /\ UNCHANGED <<remaining, layer, result, told, taskVars, replays>>

\* ReactLoop returns an answer or an error; a failed ReAct node is not passed to
\* HandleDAGNodeFailure.
ReactReturns(n) ==
    /\ wf = "react" /\ n \in ReActNodes /\ future[n] = "running"
    /\ future' = [future EXCEPT ![n] = "none"] /\ wf' = "nodes"
    /\ \/ result' = [result EXCEPT ![n] = "completed"] /\ Show(n, "completed")
       \/ /\ Fault /\ result' = [result EXCEPT ![n] = "failed"]
          /\ shown' \in {shown, [shown EXCEPT ![n] = "failed"]}
    /\ UNCHANGED <<layerVars, owner, told, taskVars, replays>>

\* ExecuteDAGNode: an erring model call is a failed result, anything else that
\* keeps failing an error.
NodeRuns(n) ==
    /\ n \notin ReActNodes /\ future[n] = "running"
    /\ \/ NoFault /\ future' = [future EXCEPT ![n] = "ok"]
       \/ Fault /\ n \in UsesLLM /\ future' = [future EXCEPT ![n] = "failed"]
       \/ Fault /\ future' = [future EXCEPT ![n] = "err"]
    /\ UNCHANGED <<wf, layerVars, result, owner, told, shown, taskVars, replays>>
(* Step 11: the results of a batch, in any order ------------------------------ *)

\* Mutant of AffectedBy
EverythingLeft(n) == layer \union remaining
AffectedBy(n) == Dependents[n]

\* HandleDAGNodeFailure shows the node failed and all below it skipped, and tells
\* the workflow; the answer may be lost after the write.
HandleDAGNodeFailure(n) ==
    LET marked == [m \in Nodes |-> IF m = n THEN "failed"
                                   ELSE IF m \in AffectedBy(n) THEN "skipped" ELSE shown[m]]
    IN \/ NoFault /\ told' = told \union AffectedBy(n) /\ shown' = marked
       \/ Fault /\ UNCHANGED told
             /\ shown' \in {marked, shown, [shown EXCEPT ![n] = "failed"]}

Collect(n) ==
    /\ wf = "nodes" /\ batch = {} /\ future[n] \in {"ok", "failed", "err"}
    /\ future' = [future EXCEPT ![n] = "none"]
    /\ result' = [result EXCEPT ![n] = IF future[n] = "ok" THEN "completed" ELSE "failed"]
    /\ \/ future[n] = "ok" /\ Show(n, "completed") /\ UNCHANGED told
       \/ future[n] = "failed" /\ Show(n, "failed") /\ UNCHANGED told
       \/ future[n] = "err" /\ HandleDAGNodeFailure(n)
    /\ UNCHANGED <<wf, layerVars, owner, taskVars, replays>>

(* Steps 12 to 16 ------------------------------------------------------------ *)

Completed == {n \in Nodes : result[n] = "completed"}

\* SynthesisActivity fails if nothing completed, and needs the database.
Synthesised == Completed # {} \/ Nodes = {}

Synthesise ==
    /\ wf = "nodes" /\ layer \union remaining \union batch \union Open = {}
    /\ \/ Synthesised /\ NoFault /\ wf' = "save" /\ UNCHANGED outcome
       \/ ~Synthesised /\ NoFault /\ wf' = "fail" /\ outcome' = "failed"
       \/ Fault /\ wf' = "fail" /\ outcome' = "failed"
    /\ UNCHANGED <<layerVars, nodeVars, row, verdict, gateway, saved, replays>>

\* Mutant of AfterLostSave
CompleteAnyway == "completed"
\* A SaveResultActivity that fails for good makes the task failed.
AfterLostSave == "failed"

\* The update matches a running row only, and to match none is no error.
SaveResult ==
    LET written == IF row = "running" THEN "completed" ELSE row
    IN /\ wf = "save" /\ saved' = gateway
       /\ \/ /\ NoFault /\ row' = written
             /\ outcome' = "completed" /\ wf' = "announce"
          \/ /\ Fault /\ row' \in {row, written}
             /\ outcome' = AfterLostSave
             /\ wf' = IF outcome' = "failed" THEN "fail" ELSE "announce"
       /\ UNCHANGED <<layerVars, nodeVars, verdict, gateway, replays>>

\* SaveFailure touches no row that is already in a terminal state.
SaveFailure ==
    /\ wf = "fail" /\ wf' = "announce"
    /\ \/ NoFault /\ row' = IF row \in {"pending", "running"} THEN outcome ELSE row
       \/ Fault /\ UNCHANGED row
    /\ UNCHANGED <<layerVars, nodeVars, outcome, verdict, gateway, saved, replays>>

\* The executions row, then the terminal event; failures are ignored.
Announce ==
    /\ wf = "announce" /\ wf' = "done"
    /\ \/ NoFault /\ verdict' = outcome
       \/ Fault /\ UNCHANGED verdict
    /\ UNCHANGED <<layerVars, nodeVars, outcome, row, gateway, saved, replays>>

(* Replay ------------------------------------------------------------------- *)

\* The layer a node falls into.
LayerOf[n \in Nodes] ==
    IF Deps[n] = {} THEN 0 ELSE 1 + Max({LayerOf[d] : d \in Deps[n]})

\* Nodes whose commands have the same types in the same order.
Alike(a, b) ==
    /\ a # b /\ LayerOf[a] = LayerOf[b]
    /\ (a \in UsesLLM) = (b \in UsesLLM) /\ (a \in ReActNodes) = (b \in ReActNodes)

\* A worker that has lost the workflow runs it again against its history.  The
\* order of a layer comes from a Go map and may be another one this time; Temporal
\* matches commands by type and position, not by their input, so a node receives
\* what another one's activity returned.  It decides about each node as before, and
\* reaches no layer before those below it are settled.  One pair per replay.
Replay(a, b) ==
    LET was(n) == IF n = a THEN b ELSE IF n = b THEN a ELSE n
        res == [n \in Nodes |-> result[was(n)]]
        fut == [n \in Nodes |-> future[was(n)]]
    IN /\ wf \in {"nodes", "react"} /\ replays < MaxReplays /\ replays' = replays + 1
       /\ Alike(a, b) /\ {a, b} \cap remaining = {} /\ (Started(a) \/ Started(b))
       /\ \A n \in Nodes : /\ res[n] = "skipped" => Doomed(n, res, told)
                           /\ res[n] \in {"completed", "failed"} \/ fut[n] # "none"
                                => ~Doomed(n, res, told)
       /\ \A n \in Nodes \ remaining : \A d \in Deps[n] : res[d] # "none"
       /\ result' = res /\ future' = fut
       /\ owner' = [n \in Nodes |-> owner[was(n)]]
       /\ layer' = {n \in Nodes : was(n) \in layer}
       /\ batch' = {n \in Nodes : was(n) \in batch}
       /\ UNCHANGED <<wf, remaining, told, shown, taskVars, faults>>

Workflow == \/ Prepare \/ NextBatch \/ Synthesise \/ SaveResult \/ SaveFailure \/ Announce
            \/ \E n \in Nodes : SkipNode(n) \/ StartNode(n) \/ ReactReturns(n) \/ Collect(n)

Ended == wf \in {"done", "stuck"} /\ UNCHANGED vars

Next == \/ Workflow \/ Ended \/ MarkTask
        \/ \E n \in Nodes : NodeRuns(n)
        \/ \E a, b \in Nodes : Replay(a, b)

Spec == Init /\ [][Next]_vars

\* Temporal schedules the workflow, and every activity attempt ends by its timeout.
\* The gateway may never come to mark the row.
FairSpec == Spec /\ WF_vars(Workflow) /\ \A n \in Nodes : WF_vars(NodeRuns(n))

-----------------------------------------------------------------------------
(* Properties *)

\* Every variable has its type, and a node still to be reached has no result.
TypeOK ==
    /\ wf \in {"prepare", "nodes", "react", "save", "fail", "announce", "done", "stuck"}
    /\ remaining \subseteq Nodes /\ layer \subseteq Nodes /\ batch \subseteq Nodes
    /\ future \in [Nodes -> FutureStates] /\ result \in [Nodes -> ResultStates]
    /\ \A n \in remaining \union layer \union batch : ~Started(n) /\ result[n] = "none"
    /\ owner \in [Nodes -> Nodes] /\ told \subseteq Nodes
    /\ shown \in [Nodes -> ShownStates]
    /\ outcome \in {"none", "completed", "failed", "budget_exceeded"}
    /\ row \in {"none", "pending", "running", "completed", "failed", "budget_exceeded"}
    /\ gateway \in {"absent", "starting", "running", "failed"}
    /\ saved \in {"never", "absent", "starting", "running", "failed"}
    /\ verdict \in {"none", "completed", "failed", "budget_exceeded"}
    /\ faults \in 0..MaxFaults /\ replays \in 0..MaxReplays

\* Every planned node is settled exactly once: what is to come, the batch, what
\* is in flight and what is settled never overlap and never lose a node, however
\* a layer is cut into batches; and no more than maxParallel are in flight.
\* Without a replay its result is that of its own activity.
EveryNodeAccounted == wf \in {"nodes", "react", "save"} =>
    LET settled == {n \in Nodes : result[n] # "none"}
        parts == {remaining, layer, batch, Open, settled}
    IN /\ UNION parts = Nodes
       /\ Cardinality(remaining) + Cardinality(layer) + Cardinality(batch)
            + Cardinality(Open) + Cardinality(settled) = Cardinality(Nodes)
       /\ Cardinality(Open) <= maxParallel
       /\ replays = 0 => \A n \in settled : owner[n] = n

\* A node runs only if all that it depends on, directly or not, has completed.
RunsOnCompletedInput ==
    \A n, m \in Nodes : Started(m) /\ m \in Dependents[n] => result[n] = "completed"

\* A failure is contained: a node is skipped only below one that failed.
\* (A replay moves the failure, not the marks.)
SkipHasCause == replays = 0 =>
    \A m \in Nodes : result[m] = "skipped" =>
        \E n \in Nodes : m \in Dependents[n] /\ result[n] = "failed"

\* A node that a client was shown as skipped never runs and never looks otherwise,
\* even when the workflow did not hear that it was marked.
ShownSkippedStays == [][replays' = 0 =>
    \A n \in Nodes : shown[n] = "skipped" => shown'[n] = "skipped" /\ ~Started(n)']_vars

\* What is saved or announced as completed has a completed node behind its answer,
\* also when there is no row to save it in.
AnswerHasSource ==
    row = "completed" \/ verdict = "completed" => Synthesised

\* Completion is announced with a row that is completed exactly if the gateway had
\* marked it running when SaveResult looked for it: otherwise the row is absent,
\* or stays pending, running or failed, and nothing tells the client.
VerdictMatchesRow == verdict = "completed" => (row = "completed" <=> saved = "running")

\* What a client is told is completed is, as far as the gateway has kept up: the
\* stream and the row agree, also when the report of its update is lost, unless
\* SaveResult found no running row; and no completion is made up, not even without
\* a row, when every node failed or was skipped.
CompletionIsBacked == AnswerHasSource /\ VerdictMatchesRow

\* A workflow that has a plan ends, whichever nodes fail.
PlannedWorkEnds == wf = "nodes" ~> wf = "done"
=============================================================================

------------------------- MODULE DagExecution_proofs -------------------------
(* Theorems of DagExecution, for every acyclic plan and every bound. *)
EXTENDS DagExecution, FiniteSetTheorems, TLAPS

Ran == {"completed", "failed"}

\* Once the plan is known, every node is to come, in flight or settled.
Accounted == wf \in {"nodes", "react"} =>
    \A n \in Nodes : \/ n \in remaining \union layer \union batch
                     \/ future[n] # "none" \/ result[n] # "none"

\* What is in flight has no result yet.
UnsettledInFlight == \A n \in Nodes : future[n] # "none" => result[n] = "none"

\* A node is to come, in the layer or in the batch, never in two of them.
Disjoint == remaining \cap (layer \union batch) = {} /\ layer \cap batch = {}

\* A layer is reached when all below it is settled.
LayersInOrder == \A n \in layer \union batch : \A d \in Deps[n] : result[d] # "none"

\* RunsOnCompletedInput for the direct dependencies: this one is inductive.
DirectInput == \A m \in Nodes : Started(m) => \A d \in Deps[m] : result[d] = "completed"

\* Before the plan no node is touched.
Untouched == wf = "prepare" =>
    layer = {} /\ batch = {} /\ \A n \in Nodes : ~Started(n) /\ result[n] = "none"

\* What SaveResult and SaveFailure find: a row the gateway has marked is running
\* until one of them, and it is completed by a SaveResult that found it so.
Endings ==
    /\ gateway = "running" /\ wf \in {"prepare", "nodes", "react", "save"} => row = "running"
    /\ row = "running" => gateway = "running"
    /\ wf \in {"prepare", "nodes", "react", "save"} => outcome # "completed" /\ verdict = "none"
    /\ wf = "save" => Synthesised
    /\ row = "completed" => /\ Synthesised /\ gateway = "running" /\ saved = "running"
                            /\ wf \in {"fail", "announce", "done"}
    /\ wf = "fail" => outcome \in {"failed", "budget_exceeded"} /\ verdict = "none"
    /\ outcome = "completed" => Synthesised /\ (saved = "running" => row = "completed")
    /\ saved = "running" => gateway = "running"
    /\ verdict = "completed" => outcome = "completed"

IInv == /\ TypeOK /\ Accounted /\ Disjoint /\ UnsettledInFlight /\ LayersInOrder /\ DirectInput
        /\ Untouched /\ Endings

\* All dependents of a node below it run only if it completed.
LEMMA Transitive ==
    ASSUME DirectInput PROVE RunsOnCompletedInput
  <1> SUFFICES ASSUME NEW n \in Nodes, NEW m \in Nodes, Started(m), m \in Dependents[n]
               PROVE  result[n] = "completed"
    BY DEF RunsOnCompletedInput
  <1> DEFINE S == {k \in Nodes : Started(k) => result[n] = "completed"}
  <1>1. ASSUME NEW k \in Nodes, Deps[k] \cap (S \union {n}) # {}
        PROVE  k \in S
    <2>1. PICK d \in Deps[k] : d \in S \/ d = n
      BY <1>1
    <2>2. Started(k) => result[d] = "completed"
      BY DEF DirectInput
    <2>3. d \in S /\ result[d] = "completed" => result[n] = "completed"
      BY DEF Started
    <2> QED BY <2>1, <2>2, <2>3
  <1>2. \A T \in SUBSET Nodes :
           (\A k \in Nodes : Deps[k] \cap (T \union {n}) # {} => k \in T) => m \in T
    BY DEF Dependents
  <1>3. m \in S
    BY <1>1, <1>2
  <1> QED BY <1>3

LEMMA TransitiveNext == DirectInput' => RunsOnCompletedInput'
  <1>1. DirectInput => RunsOnCompletedInput
    BY Transitive
  <1> QED BY <1>1, PTL

LEMMA Initially == Init => IInv
  <1> SUFFICES ASSUME Init PROVE IInv
    OBVIOUS
  <1> USE DEF Init
  <1>1. TypeOK
    BY PlanAssumption DEF TypeOK, FutureStates, ResultStates, ShownStates, Started
  <1>2. Accounted /\ Disjoint /\ UnsettledInFlight /\ LayersInOrder /\ Untouched /\ Endings
    BY DEF Accounted, Disjoint, UnsettledInFlight, LayersInOrder, Untouched, Started, Endings
  <1>3. DirectInput
    BY DEF DirectInput, Started
  <1> QED BY <1>1, <1>2, <1>3 DEF IInv

LEMMA FaultStep ==
    ASSUME TypeOK, Fault \/ NoFault PROVE faults' \in 0..MaxFaults
  BY PlanAssumption DEF TypeOK, Fault, NoFault

\* Steps 1 to 10.
LEMMA PrepareStep == ASSUME IInv, Prepare PROVE IInv'
  <1> USE DEF IInv, Prepare
  <1>0. faults' \in 0..MaxFaults
    BY FaultStep DEF Planned, BudgetExceeded, Panics
  <1>1. CASE Planned
    <2> USE <1>1 DEF Planned, nodeVars, taskVars
    <2>1. DirectInput' /\ UnsettledInFlight' /\ Accounted' /\ Disjoint'
      BY DEF DirectInput, UnsettledInFlight, Accounted, Disjoint, Started, TypeOK, Untouched
    <2>2. LayersInOrder'
      BY DEF LayersInOrder
    <2>3. Endings' /\ Untouched'
      BY DEF Endings, Untouched, Synthesised, Completed
    <2>4. \A n \in Nodes : ~Started(n) /\ result[n] = "none"
      BY DEF Untouched
    <2>5. TypeOK'
      BY <1>0, <2>4 DEF TypeOK, Started, Untouched
    <2> QED BY <2>1, <2>2, <2>3, <2>5
  <1>2. CASE BudgetExceeded \/ Panics
    <2> USE <1>2 DEF BudgetExceeded, Panics, layerVars, nodeVars, taskVars
    <2>1. TypeOK'
      BY <1>0 DEF TypeOK, Started
    <2>2. DirectInput' /\ UnsettledInFlight' /\ LayersInOrder'
      BY DEF DirectInput, UnsettledInFlight, LayersInOrder, Started
    <2>3. Accounted' /\ Disjoint' /\ Untouched' /\ Endings'
      BY DEF Accounted, Disjoint, Untouched, Endings, Synthesised, Completed
    <2> QED BY <2>1, <2>2, <2>3
  <1> QED BY <1>1, <1>2

\* Steps 12 to 16.
LEMMA EndStep ==
    ASSUME IInv, Synthesise \/ SaveResult \/ SaveFailure \/ Announce PROVE IInv'
  <1> USE DEF IInv, Synthesise, SaveResult, SaveFailure, Announce, layerVars, nodeVars
  <1>0. faults' \in 0..MaxFaults
    BY FaultStep
  <1>1. TypeOK'
    BY <1>0 DEF TypeOK, Started, Endings, AfterLostSave
  <1>2. DirectInput' /\ UnsettledInFlight' /\ LayersInOrder'
    BY DEF DirectInput, UnsettledInFlight, LayersInOrder, Started
  <1>3. Accounted' /\ Disjoint' /\ Untouched'
    BY DEF Accounted, Disjoint, Untouched, AfterLostSave
  <1>4. Endings'
    BY DEF Endings, Synthesised, Completed, AfterLostSave, TypeOK
  <1> QED BY <1>1, <1>2, <1>3, <1>4

\* The gateway marks the row, before or after SaveResult.
LEMMA GatewayStep == ASSUME IInv, MarkTask PROVE IInv'
  <1> USE DEF IInv, MarkTask, layerVars, nodeVars, bounds
  <1>1. TypeOK'
    BY DEF TypeOK, Started
  <1>2. DirectInput' /\ UnsettledInFlight' /\ LayersInOrder'
    BY DEF DirectInput, UnsettledInFlight, LayersInOrder, Started
  <1>3. Accounted' /\ Disjoint' /\ Untouched'
    BY DEF Accounted, Disjoint, Untouched, Started
  <1>4. Endings'
    BY DEF Endings, Synthesised, Completed
  <1> QED BY <1>1, <1>2, <1>3, <1>4

LEMMA NextBatchStep == ASSUME IInv, NextBatch PROVE IInv'
  <1> USE DEF IInv, NextBatch, nodeVars, taskVars, bounds
  <1> DEFINE current == IF layer # {} THEN layer ELSE Ready(remaining)
  <1>1. PICK b \in SUBSET current : batch' = b /\ layer' = current \ b
    BY DEF Batches, RestOfLayer
  <1>2. remaining' = remaining \ current
    OBVIOUS
  <1>3. layer = {} => /\ remaining # {} /\ current \subseteq remaining
                      /\ \A n \in current : Deps[n] \cap remaining = {}
    BY PlanAssumption DEF Ready, TypeOK
  <1>4. current \subseteq layer \union remaining
    BY <1>3
  <1>5. TypeOK'
    BY <1>1, <1>2, <1>4 DEF TypeOK, Started
  <1>6. \A n \in current : \A d \in Deps[n] : result[d] # "none"
    <2>1. CASE layer # {}
      BY <2>1 DEF LayersInOrder
    <2>2. CASE layer = {}
      BY <2>2, <1>3, PlanAssumption DEF Accounted, Disjoint, Open, TypeOK
    <2> QED BY <2>1, <2>2
  <1>7. LayersInOrder'
    BY <1>1, <1>6 DEF LayersInOrder
  <1>8. Accounted' /\ Disjoint'
    BY <1>1, <1>2 DEF Accounted, Disjoint
  <1>9. DirectInput' /\ UnsettledInFlight'
    BY DEF DirectInput, UnsettledInFlight, Started
  <1>10. Endings' /\ Untouched'
    BY DEF Endings, Untouched, Synthesised, Completed
  <1> QED BY <1>5, <1>7, <1>8, <1>9, <1>10

\* What a step on one node n leaves of the invariant: the loop of a batch.
LEMMA SkipStep == ASSUME IInv, NEW n \in Nodes, SkipNode(n) PROVE IInv'
  <1> USE DEF IInv, SkipNode, taskVars
  <1>0. faults' \in 0..MaxFaults
    BY FaultStep DEF Show
  <1>1. /\ result' \in [Nodes -> ResultStates] /\ result'[n] = "skipped"
        /\ \A k \in Nodes \ {n} : result'[k] = result[k]
    BY DEF TypeOK, ResultStates
  <1>2. shown' \in [Nodes -> ShownStates]
    BY DEF TypeOK, Show, ShownStates
  <1>3. result[n] = "none" /\ future[n] = "none"
    BY DEF TypeOK, Started
  <1>4. TypeOK'
    BY <1>0, <1>1, <1>2 DEF TypeOK, Started, Disjoint
  <1>5. Accounted' /\ Disjoint'
    BY <1>1 DEF Accounted, Disjoint
  <1>6. UnsettledInFlight' /\ LayersInOrder'
    BY <1>1, <1>3, PlanAssumption DEF UnsettledInFlight, LayersInOrder, TypeOK
  <1>7. DirectInput'
    BY <1>1, <1>3, PlanAssumption DEF DirectInput, Started
  <1>8. Untouched' /\ Endings'
    BY DEF Untouched, Endings
  <1> QED BY <1>4, <1>5, <1>6, <1>7, <1>8

LEMMA StartStep == ASSUME IInv, NEW n \in Nodes, StartNode(n) PROVE IInv'
  <1> USE DEF IInv, StartNode, taskVars
  <1>0. faults' \in 0..MaxFaults
    BY FaultStep DEF Show
  <1>1. /\ future' \in [Nodes -> FutureStates] /\ future'[n] = "running"
        /\ \A k \in Nodes \ {n} : future'[k] = future[k]
    BY DEF TypeOK, FutureStates
  <1>2. shown' \in [Nodes -> ShownStates] /\ owner' \in [Nodes -> Nodes]
    BY DEF TypeOK, Show, ShownStates
  <1>3. result[n] = "none"
    BY DEF TypeOK
  <1>4. \A d \in Deps[n] : result[d] = "completed"
    <2>1. \A d \in Deps[n] : result[d] # "none" /\ result[d] \notin {"failed", "skipped"}
      BY DEF LayersInOrder, Doomed
    <2> QED BY <2>1, PlanAssumption DEF TypeOK, ResultStates
  <1>5. TypeOK'
    BY <1>0, <1>1, <1>2 DEF TypeOK, Started, Disjoint
  <1>6. Accounted' /\ Disjoint'
    BY <1>1 DEF Accounted, Disjoint
  <1>7. UnsettledInFlight' /\ LayersInOrder'
    BY <1>1, <1>3 DEF UnsettledInFlight, LayersInOrder
  <1>8. DirectInput'
    BY <1>1, <1>4 DEF DirectInput, Started
  <1>9. Untouched' /\ Endings'
    BY DEF Untouched, Endings
  <1> QED BY <1>5, <1>6, <1>7, <1>8, <1>9

LEMMA NodeRunsStep == ASSUME IInv, NEW n \in Nodes, NodeRuns(n) PROVE IInv'
  <1> USE DEF IInv, NodeRuns, layerVars, taskVars
  <1>0. faults' \in 0..MaxFaults
    BY FaultStep
  <1>1. /\ future' \in [Nodes -> FutureStates]
        /\ \A k \in Nodes : (future'[k] = "none") = (future[k] = "none")
    BY DEF TypeOK, FutureStates
  <1>2. \A k \in Nodes : Started(k)' = Started(k)
    BY <1>1 DEF Started
  <1>3. TypeOK'
    BY <1>0, <1>1, <1>2 DEF TypeOK
  <1>4. Accounted' /\ Disjoint' /\ UnsettledInFlight' /\ LayersInOrder'
    BY <1>1 DEF Accounted, Disjoint, UnsettledInFlight, LayersInOrder
  <1>5. DirectInput' /\ Untouched'
    BY <1>2 DEF DirectInput, Untouched
  <1>6. Endings'
    BY DEF Endings, Synthesised, Completed
  <1> QED BY <1>3, <1>4, <1>5, <1>6

LEMMA SettleStep ==
    ASSUME IInv, NEW n \in Nodes, ReactReturns(n) \/ Collect(n) PROVE IInv'
  <1> USE DEF IInv, ReactReturns, Collect, layerVars, taskVars
  <1>0. faults' \in 0..MaxFaults
    BY FaultStep DEF Show, HandleDAGNodeFailure
  <1>1. /\ result' \in [Nodes -> ResultStates] /\ result'[n] \in Ran
        /\ \A k \in Nodes \ {n} : result'[k] = result[k]
    BY DEF TypeOK, ResultStates, Ran
  <1>2. /\ future' \in [Nodes -> FutureStates] /\ future'[n] = "none" /\ future[n] # "none"
        /\ \A k \in Nodes \ {n} : future'[k] = future[k]
    BY DEF TypeOK, FutureStates
  <1>3. shown' \in [Nodes -> ShownStates] /\ told' \subseteq Nodes
    <2>1. AffectedBy(n) \subseteq Nodes
      BY DEF AffectedBy, Dependents
    <2> QED BY <2>1 DEF TypeOK, Show, ShownStates, HandleDAGNodeFailure
  <1>4. result[n] = "none" /\ n \notin remaining \union layer \union batch
    BY <1>2 DEF UnsettledInFlight, TypeOK, Started
  <1>5. \A k \in Nodes : Started(k)' = Started(k)
    BY <1>1, <1>2 DEF Started, Ran
  <1>6. TypeOK'
    BY <1>0, <1>1, <1>2, <1>3, <1>4, <1>5 DEF TypeOK
  <1>7. Accounted' /\ Disjoint' /\ UnsettledInFlight'
    BY <1>1, <1>2 DEF Accounted, Disjoint, UnsettledInFlight, Ran
  <1>8. LayersInOrder' /\ DirectInput'
    BY <1>1, <1>4, <1>5, PlanAssumption DEF LayersInOrder, DirectInput, Ran, TypeOK
  <1>9. Untouched' /\ Endings'
    BY DEF Untouched, Endings
  <1> QED BY <1>6, <1>7, <1>8, <1>9

LEMMA ReplayStep ==
    ASSUME IInv, NEW a \in Nodes, NEW b \in Nodes, Replay(a, b) PROVE IInv'
  <1> DEFINE was(n) == IF n = a THEN b ELSE IF n = b THEN a ELSE n
  <1>1. \A n \in Nodes : was(n) \in Nodes
    OBVIOUS
  <1>2. /\ result' = [n \in Nodes |-> result[was(n)]]
        /\ future' = [n \in Nodes |-> future[was(n)]]
        /\ owner' = [n \in Nodes |-> owner[was(n)]]
        /\ layer' = {n \in Nodes : was(n) \in layer}
        /\ batch' = {n \in Nodes : was(n) \in batch}
        /\ UNCHANGED <<wf, remaining, told, shown, taskVars, faults>>
        /\ a \notin remaining /\ b \notin remaining /\ wf \in {"nodes", "react"}
        /\ replays' = replays + 1 /\ replays < MaxReplays
    BY DEF Replay
  <1>3. /\ \A n \in Nodes : result'[n] \in Ran \/ future'[n] # "none"
                => ~Doomed(n, result', told)
        /\ \A n \in Nodes \ remaining : \A d \in Deps[n] : result'[d] # "none"
    BY DEF Replay, Ran
  <1> HIDE DEF was
  <1>4. \A n \in Nodes : was(n) \in Nodes /\ (was(n) \in remaining <=> n \in remaining)
    BY <1>1, <1>2 DEF was
  <1>5. \A n \in Nodes : /\ result'[n] = result[was(n)] /\ future'[n] = future[was(n)]
                        /\ Started(n)' = Started(was(n))
    BY <1>1, <1>2 DEF Started
  <1>6. TypeOK'
    <2>1. /\ result' \in [Nodes -> ResultStates] /\ future' \in [Nodes -> FutureStates]
          /\ owner' \in [Nodes -> Nodes]
      BY <1>1, <1>2 DEF TypeOK, IInv
    <2>2. \A n \in (remaining \union layer \union batch)' : ~Started(n)' /\ result'[n] = "none"
      BY <1>2, <1>4, <1>5 DEF TypeOK, IInv
    <2>3. replays' \in 0..MaxReplays
      BY <1>2, PlanAssumption DEF TypeOK, IInv
    <2>4. /\ remaining' \subseteq Nodes /\ layer' \subseteq Nodes /\ batch' \subseteq Nodes
          /\ told' \subseteq Nodes /\ shown' \in [Nodes -> ShownStates]
      BY <1>2, Zenon DEF TypeOK, IInv
    <2>5. UNCHANGED <<wf, outcome, row, gateway, saved, verdict, faults>>
      BY <1>2 DEF taskVars
    <2>6. /\ wf' \in {"prepare", "nodes", "react", "save", "fail", "announce", "done", "stuck"}
          /\ outcome' \in {"none", "completed", "failed", "budget_exceeded"}
          /\ row' \in {"none", "pending", "running", "completed", "failed", "budget_exceeded"}
      BY <2>5, Zenon DEF TypeOK, IInv
    <2>7. /\ gateway' \in {"absent", "starting", "running", "failed"}
          /\ saved' \in {"never", "absent", "starting", "running", "failed"}
          /\ verdict' \in {"none", "completed", "failed", "budget_exceeded"}
          /\ faults' \in 0..MaxFaults
      BY <2>5, Zenon DEF TypeOK, IInv
    <2> QED BY <2>1, <2>2, <2>3, <2>4, <2>6, <2>7, Zenon DEF TypeOK
  <1>7. Accounted' /\ Disjoint' /\ UnsettledInFlight'
    BY <1>2, <1>4, <1>5 DEF Accounted, Disjoint, UnsettledInFlight, IInv
  <1>8. LayersInOrder'
    <2>1. \A n \in (layer \union batch)' : n \in Nodes
      BY <1>2
    <2>2. \A n \in (layer \union batch)' : n \notin remaining
      BY <1>2, <1>4 DEF Disjoint, IInv
    <2> QED BY <1>3, <2>1, <2>2 DEF LayersInOrder
  <1>9. DirectInput'
    <2> SUFFICES ASSUME NEW m \in Nodes, Started(m)', NEW d \in Deps[m]
                 PROVE  result'[d] = "completed"
      BY DEF DirectInput
    <2>1. m \notin remaining
      BY <1>4, <1>5 DEF IInv, TypeOK
    <2>2. result'[d] \notin {"failed", "skipped"}
      BY <1>3 DEF Doomed, Started, Ran
    <2> QED BY <1>3, <1>6, <2>1, <2>2, PlanAssumption DEF TypeOK, ResultStates
  <1>10. Untouched' /\ Endings'
    BY <1>2 DEF Untouched, Endings, IInv, taskVars
  <1> QED BY <1>6, <1>7, <1>8, <1>9, <1>10 DEF IInv

LEMMA StutterStep == ASSUME IInv, UNCHANGED vars PROVE IInv'
  BY DEF vars, layerVars, nodeVars, taskVars, bounds, IInv, TypeOK, Accounted, Disjoint,
     UnsettledInFlight, LayersInOrder, DirectInput, Untouched, Endings, Started,
     Synthesised, Completed

LEMMA EveryStep == ASSUME IInv, [Next]_vars PROVE IInv'
  <1>1. CASE UNCHANGED vars \/ Ended
    BY <1>1, StutterStep DEF Ended
  <1>2. CASE Prepare
    BY <1>2, PrepareStep
  <1>3. CASE NextBatch
    BY <1>3, NextBatchStep
  <1>4. CASE Synthesise \/ SaveResult \/ SaveFailure \/ Announce
    BY <1>4, EndStep
  <1>5. CASE \E n \in Nodes : SkipNode(n) \/ StartNode(n)
    BY <1>5, SkipStep, StartStep
  <1>6. CASE \E n \in Nodes : ReactReturns(n) \/ Collect(n)
    BY <1>6, SettleStep
  <1>7. CASE \E n \in Nodes : NodeRuns(n)
    BY <1>7, NodeRunsStep
  <1>8. CASE \E a, b \in Nodes : Replay(a, b)
    BY <1>8, ReplayStep
  <1>9. CASE MarkTask
    BY <1>9, GatewayStep
  <1> QED
    BY <1>1, <1>2, <1>3, <1>4, <1>5, <1>6, <1>7, <1>8, <1>9 DEF Next, Workflow

\* The strengthened invariant: whatever fails and whenever a worker replays,
\* layers are reached in order and in-flight nodes are unsettled.
THEOREM Inductive == Spec => []IInv
  <1> QED BY Initially, EveryStep, PTL DEF Spec

\* Every variable keeps its type, for every acyclic plan.
THEOREM TypeCorrect == Spec => []TypeOK
  <1>1. IInv => TypeOK
    BY DEF IInv
  <1> QED BY <1>1, Inductive, PTL

\* No node of any acyclic plan runs below a node that has not completed.
THEOREM InputCompleted == Spec => []RunsOnCompletedInput
  <1>1. IInv => RunsOnCompletedInput
    BY Transitive DEF IInv
  <1> QED BY <1>1, Inductive, PTL

\* Whatever is saved or announced as completed has a completed node behind it, with
\* a row or without one.
THEOREM AnswerSourced == Spec => []AnswerHasSource
  <1>1. IInv => AnswerHasSource
    BY DEF IInv, Endings, AnswerHasSource
  <1> QED BY <1>1, Inductive, PTL

\* Completion is announced over a completed row exactly if SaveResult came after the
\* gateway had marked the row running.
THEOREM VerdictTrue == Spec => []VerdictMatchesRow
  <1>1. IInv => VerdictMatchesRow
    BY DEF IInv, Endings, VerdictMatchesRow
  <1> QED BY <1>1, Inductive, PTL

\* Announced completion is backed by a completed node, and by a completed row unless
\* SaveResult found none that was running.
THEOREM CompletionBacked == Spec => []CompletionIsBacked
  <1>1. AnswerHasSource /\ VerdictMatchesRow => CompletionIsBacked
    BY DEF CompletionIsBacked
  <1> QED BY <1>1, AnswerSourced, VerdictTrue, PTL

\* As long as nothing was replayed, a node shown as skipped was skipped or has a
\* failed node above it.
ShownBelowFailure == replays = 0 =>
    \A m \in Nodes : shown[m] = "skipped" =>
        result[m] = "skipped" \/ \E n \in Nodes : m \in Dependents[n] /\ result[n] = "failed"

\* Outside a replay a settled node keeps its result.
LEMMA ResultsStay ==
    ASSUME IInv, [Next]_vars, replays' = replays
    PROVE  \A n \in Nodes : result[n] # "none" => result'[n] = result[n]
  <1> SUFFICES ASSUME NEW k \in Nodes, result[k] # "none" PROVE result'[k] = result[k]
    OBVIOUS
  <1>1. CASE \E n \in Nodes : SkipNode(n)
    BY <1>1 DEF SkipNode, IInv, TypeOK
  <1>2. CASE \E n \in Nodes : ReactReturns(n) \/ Collect(n)
    BY <1>2 DEF ReactReturns, Collect, IInv, TypeOK, UnsettledInFlight
  <1>3. CASE \E a, b \in Nodes : Replay(a, b)
    BY <1>3 DEF Replay, IInv, TypeOK
  <1> QED
    BY <1>1, <1>2, <1>3 DEF Next, Workflow, Ended, MarkTask, vars, Prepare, Planned, BudgetExceeded,
       Panics, NextBatch, Synthesise, SaveResult, SaveFailure, Announce, StartNode,
       NodeRuns, nodeVars

LEMMA ReplaysGrow == ASSUME IInv, [Next]_vars, replays' = 0 PROVE replays = 0
  BY DEF IInv, TypeOK, Next, Workflow, Ended, MarkTask, vars, Prepare, Planned, BudgetExceeded,
     Panics, NextBatch, Synthesise, SaveResult, SaveFailure, Announce, StartNode, SkipNode,
     ReactReturns, Collect, NodeRuns, Replay, bounds

\* What changes the status a client is shown.
LEMMA ShownStep ==
    ASSUME IInv, [Next]_vars, NEW m \in Nodes, shown'[m] # shown[m]
    PROVE  \/ SkipNode(m) /\ shown'[m] = "skipped"
           \/ StartNode(m) /\ shown'[m] \in {"pending", "running"}
           \/ ReactReturns(m) /\ shown'[m] \in Ran
           \/ Collect(m) /\ shown'[m] \in Ran
           \/ \E n \in Nodes : /\ Collect(n) /\ future[n] = "err"
                               /\ m \in Dependents[n] /\ shown'[m] = "skipped"
  <1>0. shown \in [Nodes -> ShownStates]
    BY DEF IInv, TypeOK
  <1>1. CASE \E n \in Nodes : SkipNode(n)
    <2>1. PICK n \in Nodes : SkipNode(n)
      BY <1>1
    <2>2. shown' \in {shown, [shown EXCEPT ![n] = "skipped"]}
      BY <2>1 DEF SkipNode, Show
    <2>3. n = m /\ shown'[m] = "skipped"
      BY <1>0, <2>2
    <2> QED BY <2>1, <2>3
  <1>2. CASE \E n \in Nodes : StartNode(n)
    <2>1. PICK n \in Nodes : StartNode(n)
      BY <1>2
    <2>2. shown' \in {shown, [shown EXCEPT ![n] = "pending"], [shown EXCEPT ![n] = "running"]}
      BY <2>1 DEF StartNode, Show
    <2>3. n = m /\ shown'[m] \in {"pending", "running"}
      BY <1>0, <2>2
    <2> QED BY <2>1, <2>3
  <1>3. CASE \E n \in Nodes : ReactReturns(n)
    <2>1. PICK n \in Nodes : ReactReturns(n)
      BY <1>3
    <2>2. \E st \in Ran : shown' \in {shown, [shown EXCEPT ![n] = st]}
      BY <2>1 DEF ReactReturns, Show, Ran
    <2>3. n = m /\ shown'[m] \in Ran
      BY <1>0, <2>2
    <2> QED BY <2>1, <2>3
  <1>4. CASE \E n \in Nodes : Collect(n)
    <2>1. PICK n \in Nodes : Collect(n)
      BY <1>4
    <2> DEFINE marked == [k \in Nodes |-> IF k = n THEN "failed"
                                          ELSE IF k \in Dependents[n] THEN "skipped" ELSE shown[k]]
    <2>2. \/ \E st \in Ran : shown' \in {shown, [shown EXCEPT ![n] = st]}
          \/ future[n] = "err" /\ shown' = marked
      BY <2>1 DEF Collect, HandleDAGNodeFailure, AffectedBy, Show, Ran
    <2>3. CASE \E st \in Ran : shown' \in {shown, [shown EXCEPT ![n] = st]}
      <3>1. n = m /\ shown'[m] \in Ran
        BY <1>0, <2>3
      <3> QED BY <2>1, <3>1
    <2>4. CASE future[n] = "err" /\ shown' = marked
      <3>1. \/ n = m /\ shown'[m] = "failed"
            \/ m \in Dependents[n] /\ shown'[m] = "skipped"
        BY <1>0, <2>4
      <3> QED BY <2>1, <2>4, <3>1 DEF Ran
    <2> QED BY <2>2, <2>3, <2>4
  <1> QED
    BY <1>1, <1>2, <1>3, <1>4 DEF Next, Workflow, Ended, MarkTask, vars, Prepare, Planned,
       BudgetExceeded, Panics, NextBatch, Synthesise, SaveResult, SaveFailure, Announce,
       NodeRuns, nodeVars, Replay

LEMMA ShownBelowStep ==
    ASSUME IInv, ShownBelowFailure, [Next]_vars PROVE ShownBelowFailure'
  <1> SUFFICES ASSUME replays' = 0, NEW m \in Nodes, shown'[m] = "skipped"
               PROVE  \/ result'[m] = "skipped"
                      \/ \E n \in Nodes : m \in Dependents[n] /\ result'[n] = "failed"
    BY DEF ShownBelowFailure
  <1>1. replays = 0
    BY ReplaysGrow
  <1>2. \A n \in Nodes : result[n] # "none" => result'[n] = result[n]
    BY <1>1, ResultsStay
  <1>3. CASE shown'[m] = shown[m]
    BY <1>1, <1>2, <1>3 DEF ShownBelowFailure
  <1>4. CASE SkipNode(m)
    BY <1>4 DEF SkipNode, IInv, TypeOK
  <1>5. CASE \E n \in Nodes : Collect(n) /\ future[n] = "err" /\ m \in Dependents[n]
    BY <1>5 DEF Collect, IInv, TypeOK
  <1> QED BY <1>3, <1>4, <1>5, ShownStep DEF Ran

\* A node shown as skipped is never started and never shown otherwise, for every
\* acyclic plan and every loss of an answer, as long as nothing is replayed.
THEOREM SkippedForGood == Spec => ShownSkippedStays
  <1>1. Init => ShownBelowFailure
    BY DEF Init, ShownBelowFailure
  <1>2. ASSUME IInv, IInv', ShownBelowFailure, ShownBelowFailure', [Next]_vars
        PROVE  [replays' = 0 => \A n \in Nodes : shown[n] = "skipped"
                    => shown'[n] = "skipped" /\ ~Started(n)']_vars
    <2> SUFFICES ASSUME replays' = 0, NEW m \in Nodes, shown[m] = "skipped"
                 PROVE  shown'[m] = "skipped" /\ ~Started(m)'
      OBVIOUS
    <2>1. replays = 0
      BY <1>2, ReplaysGrow
    <2>2. \A n \in Nodes : result[n] # "none" => result'[n] = result[n]
      BY <1>2, <2>1, ResultsStay
    <2>3. \/ result[m] = "skipped"
          \/ \E n \in Nodes : m \in Dependents[n] /\ result[n] = "failed"
      BY <1>2, <2>1 DEF ShownBelowFailure
    <2>4. RunsOnCompletedInput /\ RunsOnCompletedInput'
      BY <1>2, Transitive, TransitiveNext DEF IInv
    <2>5. ~Started(m)
      BY <1>2, <2>3, <2>4 DEF RunsOnCompletedInput, Started, IInv, UnsettledInFlight
    <2>6. ~Started(m)'
      BY <1>2, <2>2, <2>3, <2>4 DEF RunsOnCompletedInput, Started, IInv, UnsettledInFlight
    <2>7. shown'[m] # shown[m] => shown'[m] = "skipped"
      <3> SUFFICES ASSUME shown'[m] # shown[m] PROVE shown'[m] = "skipped"
        OBVIOUS
      <3>1. ~StartNode(m)
        <4>1. StartNode(m) => future'[m] = "running"
          BY <1>2 DEF StartNode, IInv, TypeOK
        <4> QED BY <2>6, <4>1 DEF Started
      <3>2. ~ReactReturns(m) /\ ~Collect(m)
        BY <2>5 DEF ReactReturns, Collect, Started
      <3> QED BY <1>2, <3>1, <3>2, ShownStep
    <2> QED BY <2>6, <2>7
  <1>3. IInv /\ ShownBelowFailure /\ [Next]_vars => ShownBelowFailure'
    BY ShownBelowStep
  <1> QED BY <1>1, <1>2, <1>3, Initially, EveryStep, PTL DEF Spec, ShownSkippedStays

(* Skipped nodes -------------------------------------------------------------- *)

\* A node that failed is above this one.
Caused(m) == \E n \in Nodes : m \in Dependents[n] /\ result[n] = "failed"

\* SkipHasCause needs it of the marks too: a node is skipped because of its own
\* mark as much as because of what it depends on.
MarkHasCause == replays = 0 =>
    \A m \in Nodes : m \in told \/ result[m] = "skipped" => Caused(m)

\* Dependents: what depends on a node directly is below it ...
LEMMA DirectlyBelow ==
    ASSUME NEW m \in Nodes, NEW d \in Deps[m] PROVE d \in Nodes /\ m \in Dependents[d]
  <1>1. d \in Nodes
    BY PlanAssumption
  <1>2. ASSUME NEW S \in SUBSET Nodes,
               \A k \in Nodes : Deps[k] \cap (S \union {d}) # {} => k \in S
        PROVE  m \in S
    BY <1>2
  <1> QED BY <1>1, <1>2 DEF Dependents

\* ... and so is what depends on a node below it.
LEMMA BelowBelow ==
    ASSUME NEW n \in Nodes, NEW m \in Nodes, NEW d \in Deps[m], d \in Dependents[n]
    PROVE  m \in Dependents[n]
  <1>1. ASSUME NEW S \in SUBSET Nodes,
               \A k \in Nodes : Deps[k] \cap (S \union {n}) # {} => k \in S
        PROVE  m \in S
    <2>1. d \in S
      BY <1>1 DEF Dependents
    <2> QED BY <1>1, <2>1
  <1> QED BY <1>1 DEF Dependents

LEMMA MarkStep ==
    ASSUME IInv, MarkHasCause, [Next]_vars PROVE MarkHasCause'
  <1> SUFFICES ASSUME replays' = 0, NEW m \in Nodes, m \in told' \/ result'[m] = "skipped"
               PROVE  \E n \in Nodes : m \in Dependents[n] /\ result'[n] = "failed"
    BY DEF MarkHasCause, Caused
  <1>0. replays = 0
    BY ReplaysGrow
  <1>1. \A n \in Nodes : result[n] # "none" => result'[n] = result[n]
    BY <1>0, ResultsStay
  <1>2. Caused(m) => \E n \in Nodes : m \in Dependents[n] /\ result'[n] = "failed"
    BY <1>1 DEF Caused
  <1>3. CASE \E n \in Nodes : SkipNode(n)
    <2>1. PICK n \in Nodes : SkipNode(n)
      BY <1>3
    <2>2. told' = told /\ result' = [result EXCEPT ![n] = "skipped"] /\ Doomed(n, result, told)
      BY <2>1 DEF SkipNode
    <2>3. CASE m = n
      <3>1. CASE n \in told
        BY <1>0, <1>2, <2>3, <3>1 DEF MarkHasCause
      <3>2. CASE \E d \in Deps[n] : result[d] = "failed"
        <4>1. PICK d \in Deps[n] : result[d] = "failed"
          BY <3>2
        <4>2. d \in Nodes /\ n \in Dependents[d]
          BY DirectlyBelow
        <4> QED BY <1>1, <2>3, <4>1, <4>2
      <3>3. CASE \E d \in Deps[n] : result[d] = "skipped"
        <4>1. PICK d \in Deps[n] : result[d] = "skipped"
          BY <3>3
        <4>2. d \in Nodes
          BY DirectlyBelow
        <4>3. PICK c \in Nodes : d \in Dependents[c] /\ result[c] = "failed"
          BY <1>0, <4>1, <4>2 DEF MarkHasCause, Caused
        <4>4. n \in Dependents[c]
          BY <4>3, BelowBelow
        <4> QED BY <1>1, <2>3, <4>3, <4>4
      <3> QED BY <2>2, <3>1, <3>2, <3>3 DEF Doomed
    <2>4. CASE m # n
      BY <1>0, <1>2, <2>2, <2>4 DEF MarkHasCause, IInv, TypeOK
    <2> QED BY <2>3, <2>4
  <1>4. CASE \E n \in Nodes : ReactReturns(n)
    <2>1. PICK n \in Nodes : ReactReturns(n)
      BY <1>4
    <2>2. told' = told /\ \E v \in Ran : result' = [result EXCEPT ![n] = v]
      BY <2>1 DEF ReactReturns, Ran
    <2>3. m \in told \/ result[m] = "skipped"
      BY <2>2 DEF Ran, IInv, TypeOK
    <2> QED BY <1>0, <1>2, <2>3 DEF MarkHasCause
  <1>5. CASE \E n \in Nodes : Collect(n)
    <2>1. PICK n \in Nodes : Collect(n)
      BY <1>5
    <2> DEFINE st == IF future[n] = "ok" THEN "completed" ELSE "failed"
    <2>2. result' = [result EXCEPT ![n] = st]
      BY <2>1 DEF Collect
    <2>3. told' = told \/ (future[n] = "err" /\ told' = told \union Dependents[n])
      <3>1. UNCHANGED told \/ (future[n] = "err" /\ HandleDAGNodeFailure(n))
        BY <2>1 DEF Collect
      <3>2. HandleDAGNodeFailure(n) => told' = told \/ told' = told \union Dependents[n]
        BY DEF HandleDAGNodeFailure, AffectedBy
      <3> QED BY <3>1, <3>2
    <2>4. result'[m] = "skipped" => result[m] = "skipped"
      BY <2>2 DEF IInv, TypeOK
    <2>5. future[n] = "err" => result'[n] = "failed"
      BY <2>2 DEF IInv, TypeOK
    <2> QED BY <1>0, <1>2, <2>3, <2>4, <2>5 DEF MarkHasCause
  <1>6. CASE UNCHANGED <<told, result>>
    BY <1>0, <1>2, <1>6 DEF MarkHasCause
  <1>7. \/ UNCHANGED <<told, result>>
        \/ \E n \in Nodes : SkipNode(n) \/ ReactReturns(n) \/ Collect(n)
    BY <1>0 DEF Next, Workflow, Ended, MarkTask, vars, Prepare, Planned, BudgetExceeded, Panics,
       NextBatch, Synthesise, SaveResult, SaveFailure, Announce, StartNode, NodeRuns,
       nodeVars, Replay
  <1> QED BY <1>3, <1>4, <1>5, <1>6, <1>7

\* Without a replay no node is skipped unless one above it failed, for every
\* acyclic plan and whichever marks the workflow never hears of.
THEOREM SkipsContained == Spec => []SkipHasCause
  <1>1. Init => MarkHasCause
    BY DEF Init, MarkHasCause
  <1>2. IInv /\ MarkHasCause /\ [Next]_vars => MarkHasCause'
    BY MarkStep
  <1>3. MarkHasCause => SkipHasCause
    BY DEF MarkHasCause, SkipHasCause, Caused
  <1> QED BY <1>1, <1>2, <1>3, Inductive, PTL DEF Spec

(* Every node accounted for ---------------------------------------------------- *)

\* No more are started or about to be started than a batch may hold.
Width == Cardinality(batch \union Open) <= maxParallel

\* Nothing is left when the answer is saved.
NothingLeft == wf = "save" => /\ layer \union remaining \union batch \union Open = {}
                              /\ \A n \in Nodes : result[n] # "none"

\* Only a replay gives a node the activity of another one.
OwnActivity == replays = 0 => \A n \in Nodes : owner[n] = n

PlacesInv == Width /\ NothingLeft /\ OwnActivity

LEMMA Parallelism == maxParallel \in Nat \ {0}
  BY PlanAssumption DEF maxParallel

LEMMA OpenFinite == ASSUME TypeOK PROVE IsFiniteSet(batch \union Open)
  <1>1. batch \union Open \subseteq Nodes
    BY DEF TypeOK, Open
  <1> QED BY <1>1, FS_Subset, PlanAssumption

\* A set that loses nodes stays within a bound.
LEMMA Shrinks ==
    ASSUME NEW S \in SUBSET Nodes, NEW T \in SUBSET S, Cardinality(S) <= maxParallel
    PROVE  Cardinality(T) <= maxParallel
  <1>1. IsFiniteSet(S)
    BY FS_Subset, PlanAssumption
  <1>2. Cardinality(S) \in Nat /\ IsFiniteSet(T) /\ Cardinality(T) <= Cardinality(S)
    BY <1>1, FS_Subset, FS_CardinalityType
  <1>3. Cardinality(T) \in Nat
    BY <1>2, FS_CardinalityType
  <1> QED BY <1>2, <1>3, Parallelism

LEMMA WidthStep == ASSUME IInv, Width, [Next]_vars PROVE Width'
  <1> DEFINE S == batch \union Open
             T == batch' \union {n \in Nodes : future'[n] # "none"}
  <1>0. S \subseteq Nodes /\ Cardinality(S) <= maxParallel
    BY DEF IInv, TypeOK, Open, Width
  <1> SUFFICES Cardinality(T) <= maxParallel
    BY DEF Width, Open
  <1>1. CASE T \subseteq S
    BY <1>0, <1>1, Shrinks
  <1>2. CASE NextBatch
    <2> DEFINE current == IF layer # {} THEN layer ELSE Ready(remaining)
    <2>1. PICK b \in Batches(current) : batch' = b
      BY <1>2 DEF NextBatch
    <2>2. current \subseteq Nodes
      BY DEF IInv, TypeOK, Ready
    <2>3. Cardinality(current) \in Nat
      BY <2>2, FS_Subset, FS_CardinalityType, PlanAssumption
    <2> HIDE DEF current
    <2>4. Cardinality(b) <= maxParallel
      BY <2>1, <2>3, Parallelism DEF Batches
    <2>5. future' = future /\ Open = {}
      BY <1>2 DEF NextBatch, nodeVars
    <2>6. T = b
      BY <2>1, <2>5 DEF Open
    <2> QED BY <2>4, <2>6
  <1>3. CASE \E n \in Nodes : StartNode(n)
    BY <1>1, <1>3 DEF StartNode, Open, IInv, TypeOK
  <1>4. CASE \E n \in Nodes : SkipNode(n)
    BY <1>1, <1>4 DEF SkipNode, Open
  <1>5. CASE \E n \in Nodes : ReactReturns(n) \/ Collect(n)
    BY <1>1, <1>5 DEF ReactReturns, Collect, layerVars, Open, IInv, TypeOK
  <1>6. CASE \E n \in Nodes : NodeRuns(n)
    BY <1>1, <1>6 DEF NodeRuns, layerVars, Open, IInv, TypeOK
  <1>7. CASE \E a, b \in Nodes : Replay(a, b)
    <2>1. PICK a \in Nodes, b \in Nodes : Replay(a, b)
      BY <1>7
    <2> DEFINE was(n) == IF n = a THEN b ELSE IF n = b THEN a ELSE n
               f == [n \in T |-> was(n)]
    <2>2. /\ future' = [n \in Nodes |-> future[was(n)]]
          /\ batch' = {n \in Nodes : was(n) \in batch}
      BY <2>1 DEF Replay
    <2>3. \A n \in T : was(n) \in S
      BY <2>2 DEF Open
    <2>4. f \in Injection(T, S)
      BY <2>3 DEF Injection, IsInjective
    <2>5. IsFiniteSet(S)
      BY <1>0, FS_Subset, PlanAssumption
    <2> HIDE DEF S, T, f
    <2>6. IsFiniteSet(T) /\ Cardinality(T) <= Cardinality(S)
      BY <2>4, <2>5, FS_Injection
    <2>7. Cardinality(T) \in Nat /\ Cardinality(S) \in Nat
      BY <2>5, <2>6, FS_CardinalityType
    <2> QED BY <1>0, <2>6, <2>7, Parallelism
  <1>8. CASE UNCHANGED <<batch, future>>
    BY <1>1, <1>8 DEF Open
  <1>9. CASE Prepare
    BY <1>1, <1>9 DEF Prepare, Planned, BudgetExceeded, Panics, layerVars, nodeVars, Open
  <1>10. CASE Synthesise \/ SaveResult \/ SaveFailure \/ Announce
    BY <1>8, <1>10 DEF Synthesise, SaveResult, SaveFailure, Announce, layerVars, nodeVars
  <1> QED
    BY <1>2, <1>3, <1>4, <1>5, <1>6, <1>7, <1>8, <1>9, <1>10
    DEF Next, Workflow, Ended, MarkTask, vars, layerVars, nodeVars

LEMMA NothingLeftStep == ASSUME IInv, NothingLeft, [Next]_vars PROVE NothingLeft'
  <1>1. CASE Synthesise
    <2>1. layer \union remaining \union batch \union Open = {}
      BY <1>1 DEF Synthesise
    <2>2. \A n \in Nodes : result[n] # "none"
      BY <1>1, <2>1 DEF Synthesise, IInv, Accounted, Open
    <2>3. UNCHANGED <<layerVars, nodeVars>>
      BY <1>1 DEF Synthesise
    <2> QED BY <2>1, <2>2, <2>3 DEF NothingLeft, layerVars, nodeVars, Open
  <1>2. CASE \E n \in Nodes : NodeRuns(n)
    BY <1>2 DEF NodeRuns, NothingLeft, layerVars, Open
  <1>3. CASE UNCHANGED vars
    BY <1>3 DEF vars, NothingLeft, layerVars, nodeVars, Open
  <1>4. CASE wf' # "save"
    BY <1>4 DEF NothingLeft
  <1>5. CASE MarkTask
    BY <1>5 DEF MarkTask, NothingLeft, layerVars, nodeVars, Open
  <1> QED
    BY <1>1, <1>2, <1>3, <1>4, <1>5 DEF Next, Workflow, Ended, Prepare, Planned, BudgetExceeded,
       Panics, NextBatch, SaveResult, SaveFailure, Announce, StartNode, SkipNode,
       ReactReturns, Collect, Replay

LEMMA OwnActivityStep == ASSUME IInv, OwnActivity, [Next]_vars PROVE OwnActivity'
  <1> SUFFICES ASSUME replays' = 0, NEW m \in Nodes PROVE owner'[m] = m
    BY DEF OwnActivity
  <1>0. replays = 0
    BY ReplaysGrow
  <1>1. owner' = owner \/ \E n \in Nodes : owner' = [owner EXCEPT ![n] = n]
    BY <1>0 DEF Next, Workflow, Ended, MarkTask, vars, Prepare, Planned, BudgetExceeded, Panics,
       NextBatch, Synthesise, SaveResult, SaveFailure, Announce, StartNode, SkipNode,
       ReactReturns, Collect, NodeRuns, nodeVars, Replay, IInv, TypeOK
  <1> QED BY <1>0, <1>1 DEF OwnActivity, IInv, TypeOK

\* The sizes of sets that share no node add up.
LEMMA DisjointUnion ==
    ASSUME NEW S \in SUBSET Nodes, NEW T \in SUBSET Nodes, S \cap T = {}
    PROVE  Cardinality(S \union T) = Cardinality(S) + Cardinality(T)
  <1>1. IsFiniteSet(S) /\ IsFiniteSet(T)
    BY FS_Subset, PlanAssumption
  <1>2. Cardinality(S \cap T) = 0
    BY FS_EmptySet
  <1>3. Cardinality(S) \in Nat /\ Cardinality(T) \in Nat
    BY <1>1, FS_CardinalityType
  <1>4. Cardinality(S \union T) = Cardinality(S) + Cardinality(T) - Cardinality(S \cap T)
    BY <1>1, FS_Union
  <1> QED BY <1>2, <1>3, <1>4

\* Every node is in exactly one place, and the batch is never too wide, for every
\* acyclic plan, every parallelism asked for and every replay.
THEOREM NodesAccounted == Spec => []EveryNodeAccounted
  <1>1. Init => PlacesInv
    <2> SUFFICES ASSUME Init PROVE PlacesInv
      OBVIOUS
    <2>1. batch \union Open = {}
      BY DEF Init, Open
    <2>2. Width
      BY <2>1, FS_EmptySet, Parallelism DEF Width
    <2> QED BY <2>2 DEF Init, PlacesInv, NothingLeft, OwnActivity
  <1>2. IInv /\ PlacesInv /\ [Next]_vars => PlacesInv'
    BY WidthStep, NothingLeftStep, OwnActivityStep DEF PlacesInv
  <1>3. IInv /\ PlacesInv => EveryNodeAccounted
    <2> SUFFICES ASSUME IInv, PlacesInv, wf \in {"nodes", "react", "save"}
                 PROVE  EveryNodeAccounted
      BY DEF EveryNodeAccounted
    <2> DEFINE settled == {n \in Nodes : result[n] # "none"}
               whole == remaining \union layer \union batch \union Open \union settled
    <2>1. /\ remaining \subseteq Nodes /\ layer \subseteq Nodes /\ batch \subseteq Nodes
          /\ Open \subseteq Nodes /\ settled \subseteq Nodes
      BY DEF IInv, TypeOK, Open
    <2>2. /\ remaining \cap layer = {} /\ (remaining \union layer) \cap batch = {}
          /\ (remaining \union layer \union batch) \cap Open = {}
          /\ (remaining \union layer \union batch \union Open) \cap settled = {}
      BY DEF IInv, Disjoint, TypeOK, Open, Started, UnsettledInFlight
    <2>3. whole = Nodes
      BY <2>1 DEF IInv, PlacesInv, Accounted, NothingLeft, Open
    <2>4. UNION {remaining, layer, batch, Open, settled} = whole
      OBVIOUS
    <2>5. Cardinality(Open) <= maxParallel
      <3>1. batch \union Open \subseteq Nodes /\ Open \subseteq batch \union Open
        BY <2>1
      <3> QED BY <3>1, Shrinks DEF PlacesInv, Width
    <2>6. replays = 0 => \A n \in settled : owner[n] = n
      BY DEF PlacesInv, OwnActivity
    <2> HIDE DEF settled, whole
    <2>7. Cardinality(remaining) + Cardinality(layer) + Cardinality(batch)
            + Cardinality(Open) + Cardinality(settled) = Cardinality(whole)
      <3> DEFINE two == remaining \union layer
                 three == two \union batch
                 four == three \union Open
      <3>1. Cardinality(two) = Cardinality(remaining) + Cardinality(layer)
        BY <2>1, <2>2, DisjointUnion
      <3>2. Cardinality(three) = Cardinality(two) + Cardinality(batch)
        BY <2>1, <2>2, DisjointUnion
      <3>3. Cardinality(four) = Cardinality(three) + Cardinality(Open)
        BY <2>1, <2>2, DisjointUnion
      <3>4. Cardinality(whole) = Cardinality(four) + Cardinality(settled)
        BY <2>1, <2>2, DisjointUnion DEF whole
      <3> QED BY <3>1, <3>2, <3>3, <3>4
    <2> USE DEF settled, whole
    <2> QED BY <2>3, <2>4, <2>5, <2>6, <2>7 DEF EveryNodeAccounted
  <1> QED BY <1>1, <1>2, <1>3, Inductive, PTL DEF Spec
=============================================================================

------------------------- MODULE ApprovalGate_proofs -------------------------
(***************************************************************************)
(* For any queries, answers and responders, any deadline and any number of *)
(* lost attempts: what is gated runs only after its approval, the tables   *)
(* agree, the answer of a human is what counts, and the gate implements    *)
(* its contract.                                                           *)
(***************************************************************************)
EXTENDS ApprovalGate, TLAPS

-----------------------------------------------------------------------------
(* The inductive invariant *)

Early   == {"none", "classify", "detect", "route", "cost", "approvalPolicy"}
Waiting == {"markWaiting", "await", "select"}
Gate    == {"request", "record", "decide", "markTimeout"} \union Waiting

Status  == approvals[current].status
Entry(v) == [id |-> current, status |-> v]

\* What the place of the workflow says about the decision and the request.
PlaceInv ==
    /\ gw = "start" => wf = "none"
    /\ wf \in Early => decision.policy = "none" /\ approvals = <<>>
    /\ wf \in Gate => decision.policy = "spoke" /\ decision.gated
    /\ wf \in Early \union {"request"} \/ decision.policy = "none" => current = 0
    /\ wf \in Gate \ {"request"} => current > 0 /\ approvals[current].mode = decision.mode
    /\ wf \in Early \union Gate \union {"dispatch"} \/ decision.policy = "none" => ran = "none"
    /\ wf = "child" => ran # "none"
    /\ wf = "dispatch" => decision.policy # "none"

\* How far the verdict has come.
VerdictInv ==
    /\ wf \in Early \union {"request"} \union Waiting => audit = <<>>
    /\ wf \in Waiting => Status = "pending"
    /\ wf = "record" => /\ Status \in {"pending", Verdict(answer)}
                        /\ \A i \in 1..Len(audit) : audit[i] = Entry(Verdict(answer))
    /\ wf = "markTimeout" => /\ Status \in {"pending", "timeout"}
                             /\ \A i \in 1..Len(audit) : audit[i] = Entry("timeout")
    /\ wf = "decide" => /\ Status = Verdict(answer)
                        /\ \E i \in 1..Len(audit) : audit[i] = Entry(Verdict(answer))

\* What the dispatcher may rely on.
Cleared ==
    /\ decision.gated => /\ IsApproved
                         /\ \E i \in 1..Len(audit) : audit[i] = Entry("approved")
                         /\ decision.mode \in HighRisk => decision.mode = approvals[current].mode
    /\ decision.policy = "failed" => decision.mode \notin HighRisk /\ ~decision.sandbox

Sent(id, a) == \E r \in Responders : resp[r].pc = "sent" /\ resp[r].id = id /\ resp[r].answer = a

\* Every signal is the answer of a responder, and so is the one that is processed.
AnswerInv ==
    /\ \A i \in 1..Len(signals) : Sent(signals[i].id, signals[i].answer)
    /\ wf \in {"record", "decide"} => Sent(current, answer) /\ answer \in AnswerType

\* What the row of the task and the result know of the run.
RowInv ==
    /\ wf \in Early \union {"request"} => row.status \in {"none", "running"}
    /\ wf \in Early \union Gate \union {"dispatch", "child"} =>
          row.outcome = "none" /\ result = "none"
    /\ result = "ok" => ran # "none"
    /\ result \notin {"none", "ok", "error"} => ran = "none"
    /\ \A i \in 1..Len(audit) : audit[i].id \in 1..Len(approvals)

Safety == RunsAreCleared /\ AnswersAreHonoured /\ TablesAgree

IInv ==
    /\ TypeOK /\ PlaceInv /\ VerdictInv /\ (wf = "dispatch" => Cleared) /\ AnswerInv /\ RowInv
    /\ Safety

-----------------------------------------------------------------------------
(* Types *)

DecisionType == [complexity: {"low", "mid", "high"}, risk: {"low", "high", "critical"},
                 sandbox: BOOLEAN, costly: BOOLEAN, planned: Modes, mode: Modes,
                 gated: BOOLEAN, policy: {"none", "spoke", "failed"}]
RequestType  == [status: {"pending"} \union Verdicts, mode: Modes]
EntryType    == [id: Nat, status: Verdicts]
SignalType   == [id: Nat, answer: AnswerType]
RowType      == [status: RowStatuses, outcome: Results, approval: Nat]
ResponderType == [pc: {"idle", "checked", "refused", "sent", "failed"},
                  via: {"respond", "task"}, id: Nat, answer: AnswerType \union {NoAnswer}]

\* Place, attempts and faults.
StepOK ==
    /\ wf \in {"none"} \union Working \union Closed
    /\ att \in 0..((IF wf \in {"persist", "killed"} THEN 2 ELSE 1) * MaxAttempts - 1)
    /\ faults \in 0..MaxFaults

\* Everything else.
StateOK ==
    /\ query \in Queries /\ requireApproval \in BOOLEAN
    /\ gw \in {"start", "insert", "accepted", "rejected"}
    /\ decision \in DecisionType
    /\ expires \in Nat /\ current \in 0..Len(approvals)
    /\ answer \in AnswerType \union {NoAnswer}
    /\ result \in Results /\ ran \in {"none"} \union Modes
    /\ row \in RowType /\ approvals \in Seq(RequestType)
    /\ audit \in Seq(EntryType) /\ signals \in Seq(SignalType)
    /\ resp \in [Responders -> ResponderType] /\ now \in Nat

LEMMA TypeParts == (TypeOK <=> StepOK /\ StateOK) /\ (TypeOK' <=> StepOK' /\ StateOK')
BY DEF TypeOK, StepOK, StateOK, DecisionType, RequestType, EntryType, SignalType, RowType,
   ResponderType

LEMMA Faults ==
    ASSUME StepOK, NEW ok, NoFaultIf(ok)
    PROVE  faults' \in 0..MaxFaults
BY GateAssumption DEF StepOK, NoFaultIf, Fault

\* Attempts of an activity that is tried a number of times.
LEMMA AttemptSteps ==
    ASSUME StepOK, NEW reported \in BOOLEAN,
           NEW next \in Working \union Closed, NEW onError \in Working \union Closed,
           NEW limit, limit = (IF wf \in {"persist", "killed"} THEN 2 ELSE 1) * MaxAttempts,
           Attempt(reported, limit, next, onError), wf \in Working
    PROVE  /\ StepOK' /\ (reported => wf' = next) /\ (~reported => wf' \in {wf, onError})
<1>1. limit \in Nat \ {0} /\ att \in 0..(limit - 1)
  BY GateAssumption DEF StepOK
<1>2. faults' \in 0..MaxFaults
  BY Faults DEF Attempt
<1>3. \/ att' = 0 /\ wf' = (IF reported THEN next ELSE onError)
      \/ att' \in 0..(limit - 1) /\ wf' = wf /\ ~reported
  <2>1. CASE reported \/ att + 1 = limit
    BY <2>1 DEF Attempt
  <2>2. CASE ~(reported \/ att + 1 = limit)
    BY <1>1, <2>2 DEF Attempt
  <2> QED
    BY <2>1, <2>2
<1>4. CASE att' = 0 /\ wf' = (IF reported THEN next ELSE onError)
  <2>1. /\ 0 \in 0..(1 * MaxAttempts - 1) /\ 0 \in 0..(2 * MaxAttempts - 1)
    BY GateAssumption
  <2> QED
    BY <1>2, <1>4, <2>1 DEF StepOK
<1>5. CASE att' \in 0..(limit - 1) /\ wf' = wf /\ ~reported
  BY <1>2, <1>5 DEF StepOK
<1> QED
  BY <1>3, <1>4, <1>5

LEMMA FewAttempts ==
    ASSUME StepOK, NEW reported \in BOOLEAN,
           NEW next \in Working \union Closed, NEW onError \in Working \union Closed,
           Attempt(reported, MaxAttempts, next, onError), wf \in Working \ {"persist"}
    PROVE  /\ StepOK' /\ (reported => wf' = next) /\ (~reported => wf' \in {wf, onError})
<1>1. MaxAttempts = (IF wf \in {"persist", "killed"} THEN 2 ELSE 1) * MaxAttempts
  BY GateAssumption DEF Working
<1> QED
  BY <1>1, AttemptSteps

\* Attempts of an activity that the server repeats.
LEMMA PersistentSteps ==
    ASSUME StepOK, NEW reported \in BOOLEAN, NEW clean, NEW next \in Working \union Closed,
           Persistent(reported, clean, next), wf \in Working \ {"persist"}
    PROVE  StepOK' /\ wf' \in {wf, next} /\ (reported => wf' = next)
<1>1. faults' \in 0..MaxFaults
  BY Faults DEF Persistent
<1>2. wf' \in {wf, next} /\ att' = att /\ (reported => wf' = next)
  BY DEF Persistent
<1>3. att \in 0..(1 * MaxAttempts - 1) /\ att \in 0..(2 * MaxAttempts - 1)
  BY GateAssumption DEF StepOK, Working
<1> QED
  BY <1>1, <1>2, <1>3 DEF StepOK

\* Steps of the workflow that are no activities.
LEMMA PlainSteps ==
    ASSUME StepOK, UNCHANGED <<att, faults>>, wf \in Working \ {"persist"},
           wf' \in {"none"} \union Working \union Closed
    PROVE  StepOK'
<1>1. att \in 0..(1 * MaxAttempts - 1) /\ att \in 0..(2 * MaxAttempts - 1)
  BY GateAssumption DEF StepOK, Working
<1> QED
  BY <1>1 DEF StepOK

-----------------------------------------------------------------------------
(* The decision *)

\* A step towards the decision leaves the tables and the gate alone.
LEMMA DecidingStep ==
    ASSUME IInv, wf \in Early \ {"none"}, wf' \in (Early \ {"none"}) \union {"aborted"},
           StepOK', decision' \in DecisionType, decision'.policy = "none",
           result' = IF wf' = "aborted" THEN "error" ELSE result,
           UNCHANGED <<config, gw, gateVars, ran, tables, human, now>>
    PROVE  IInv'
<1> USE DEF IInv, config, gateVars, tables, human
<1>1. StateOK'
  BY TypeParts DEF StateOK, Results
<1>2. PlaceInv'
  BY DEF PlaceInv, Early, Gate, Waiting
<1>3. VerdictInv'
  BY DEF VerdictInv, Early, Gate, Waiting
<1>4. AnswerInv'
  BY DEF AnswerInv, Early, Sent
<1>5. RowInv'
  BY DEF RowInv, PlaceInv, Early, Gate, Waiting
<1>6. ran' = "none"
  BY DEF PlaceInv
<1>7. RunsAreCleared' /\ AnswersAreHonoured'
  BY <1>6 DEF Safety, RunsAreCleared, AnswersAreHonoured, HighRisk
<1>8. TablesAgree'
  BY DEF Safety, TablesAgree
<1>9. wf' # "dispatch"
  BY DEF Early
<1> QED
  BY <1>1, <1>2, <1>3, <1>4, <1>5, <1>7, <1>8, <1>9, TypeParts DEF Safety

LEMMA EarlyFacts ==
    ASSUME IInv
    PROVE  /\ StepOK /\ StateOK /\ decision \in DecisionType
           /\ wf \in Early => decision.policy = "none"
           /\ query \in QueryType
BY TypeParts, GateAssumption DEF IInv, StateOK, PlaceInv

LEMMA ClassifyStep == ASSUME IInv, Classify PROVE IInv'
<1> PICK reported \in BOOLEAN : Classify!(reported)
  BY DEF Classify
<1>1. StepOK' /\ wf' \in {"classify", "detect"}
  BY EarlyFacts, FewAttempts DEF Working
<1>2. decision' = [decision EXCEPT !.complexity = query.complexity, !.risk = query.risk]
      \/ decision' = decision
  OBVIOUS
<1>3. decision' \in DecisionType /\ decision'.policy = "none"
  BY <1>2, EarlyFacts DEF DecisionType, QueryType, Early
<1> QED
  BY <1>1, <1>3, DecidingStep DEF Early, Deciding

LEMMA DetectStep == ASSUME IInv, Detect PROVE IInv'
<1> PICK reported \in BOOLEAN : Detect!(reported)
  BY DEF Detect
<1>1. StepOK' /\ wf' \in {"detect", "route"}
  BY EarlyFacts, FewAttempts DEF Working
<1>2. decision' = [decision EXCEPT !.sandbox = query.sandbox] \/ decision' = decision
  OBVIOUS
<1>3. decision' \in DecisionType /\ decision'.policy = "none"
  BY <1>2, EarlyFacts DEF DecisionType, QueryType, Early
<1> QED
  BY <1>1, <1>3, DecidingStep DEF Early, Deciding

LEMMA CostStep == ASSUME IInv, EstimateRouteCost PROVE IInv'
<1> PICK reported \in BOOLEAN : EstimateRouteCost!(reported)
  BY DEF EstimateRouteCost
<1>1. StepOK' /\ wf' \in {"cost", "approvalPolicy"}
  BY EarlyFacts, FewAttempts DEF Working
<1>2. decision' = [decision EXCEPT !.costly = query.costly] \/ decision' = decision
  OBVIOUS
<1>3. decision' \in DecisionType /\ decision'.policy = "none"
  BY <1>2, EarlyFacts DEF DecisionType, QueryType, Early
<1> QED
  BY <1>1, <1>3, DecidingStep DEF Early, Deciding

LEMMA RouteStep == ASSUME IInv, EvaluateRoutingPolicy PROVE IInv'
<1> PICK reported \in BOOLEAN, planned \in Modes, mode \in Modes :
            EvaluateRoutingPolicy!(reported, planned, mode)
  BY DEF EvaluateRoutingPolicy
<1>1. StepOK' /\ wf' \in {"route", "cost", "aborted"}
  BY EarlyFacts, FewAttempts DEF Working, Closed
<1>2. PICK g \in BOOLEAN : decision' = [decision EXCEPT !.planned = planned, !.mode = mode,
                                                        !.gated = g]
                           \/ decision' = decision
  <2>1. GatedByRouting(planned, mode) \in BOOLEAN
    BY DEF GatedByRouting
  <2> QED
    BY <2>1, Zenon
<1>3. decision' \in DecisionType /\ decision'.policy = "none"
  BY <1>2, EarlyFacts DEF DecisionType, Early
<1> QED
  BY <1>1, <1>3, DecidingStep DEF Early, Deciding

\* The four ways an attempt of the approval policy may end.
LEMMA PolicyEnds ==
    ASSUME IInv, EvaluateApprovalPolicy
    PROVE  /\ StepOK' /\ wf = "approvalPolicy" /\ expires' \in Nat /\ decision' \in DecisionType
           /\ \/ wf' = "approvalPolicy" /\ UNCHANGED <<decision, result, expires>>
              \/ /\ wf' = "request" /\ decision'.gated /\ decision'.policy = "spoke"
                 /\ result' = result
              \/ /\ wf' = "dispatch" /\ ~decision'.gated /\ result' = result
                 /\ \/ decision'.policy = "spoke"
                    \/ /\ decision'.policy = "failed" /\ decision'.mode \notin HighRisk
                       /\ ~decision'.sandbox
              \/ /\ wf' = "aborted" /\ decision'.policy = "failed" /\ ~decision'.gated
                 /\ result' = "error"
<1> PICK reported \in BOOLEAN : EvaluateApprovalPolicy!(reported)
  BY DEF EvaluateApprovalPolicy
<1> DEFINE onError == IF FailClosed THEN "aborted" ELSE "dispatch"
<1>1. /\ Granted \in Working \union Closed /\ onError \in Working \union Closed
      /\ wf \in Working \ {"persist"} /\ wf # Granted /\ wf # onError
  BY DEF Granted, Working, Closed
<1>2. Attempt(reported, MaxAttempts, Granted, onError)
  OBVIOUS
<1>3. StepOK' /\ (reported => wf' = Granted) /\ (~reported => wf' \in {wf, onError})
  <2> HIDE DEF onError
  <2> QED
    BY <1>1, <1>2, EarlyFacts, FewAttempts
<1>4. expires' \in Nat
  BY EarlyFacts, GateAssumption DEF StateOK
<1>5. PICK g \in BOOLEAN : g = (reported /\ ApprovalRequired)
  BY DEF ApprovalRequired
<1>6. CASE wf' = wf
  BY <1>1, <1>3, <1>4, <1>6, EarlyFacts
<1>7. CASE wf' # wf
  <2>1. decision' = [decision EXCEPT !.gated = g, !.policy = IF reported THEN "spoke" ELSE "failed"]
    BY <1>5, <1>7
  <2>2. /\ decision' \in DecisionType /\ decision'.gated = g
        /\ decision'.policy = (IF reported THEN "spoke" ELSE "failed")
        /\ decision'.mode = decision.mode /\ decision'.sandbox = decision.sandbox
    BY <2>1, EarlyFacts DEF DecisionType
  <2>3. CASE reported
    BY <2>2, <2>3, <1>3, <1>4, <1>5 DEF Granted
  <2>4. CASE ~reported
    <3>1. wf' = onError /\ ~g
      BY <2>4, <1>3, <1>5, <1>7
    <3> QED
      BY <2>2, <2>4, <3>1, <1>3, <1>4 DEF FailClosed
  <2> QED
    BY <2>3, <2>4
<1> QED
  BY <1>6, <1>7

LEMMA PolicyStep == ASSUME IInv, EvaluateApprovalPolicy PROVE IInv'
<1>e. /\ StepOK' /\ wf = "approvalPolicy" /\ expires' \in Nat /\ decision' \in DecisionType
      /\ \/ wf' = "approvalPolicy" /\ UNCHANGED <<decision, result, expires>>
         \/ /\ wf' = "request" /\ decision'.gated /\ decision'.policy = "spoke"
            /\ result' = result
         \/ /\ wf' = "dispatch" /\ ~decision'.gated /\ result' = result
            /\ \/ decision'.policy = "spoke"
               \/ /\ decision'.policy = "failed" /\ decision'.mode \notin HighRisk
                  /\ ~decision'.sandbox
         \/ /\ wf' = "aborted" /\ decision'.policy = "failed" /\ ~decision'.gated
            /\ result' = "error"
  BY PolicyEnds
<1>u. UNCHANGED <<config, gw, current, answer, ran, tables, human, now>>
  BY DEF EvaluateApprovalPolicy
<1> USE <1>e, <1>u DEF IInv, config, tables, human
<1>1. StateOK'
  BY TypeParts DEF StateOK, Results
<1>2. PlaceInv'
  BY DEF PlaceInv, Early, Gate, Waiting
<1>3. VerdictInv'
  BY DEF VerdictInv, Early, Gate, Waiting
<1>4. AnswerInv'
  BY DEF AnswerInv, Early, Sent
<1>5. RowInv'
  BY DEF RowInv, PlaceInv, Early, Gate, Waiting
<1>6. ran' = "none"
  BY DEF PlaceInv, Early
<1>7. RunsAreCleared' /\ AnswersAreHonoured'
  BY <1>6 DEF Safety, RunsAreCleared, AnswersAreHonoured, HighRisk
<1>8. TablesAgree'
  BY DEF Safety, TablesAgree
<1>9. (wf = "dispatch" => Cleared)'
  BY DEF Cleared
<1> QED
  BY <1>1, <1>2, <1>3, <1>4, <1>5, <1>7, <1>8, <1>9, TypeParts DEF Safety

-----------------------------------------------------------------------------
(* The gate *)

LEMMA GateFacts ==
    ASSUME IInv
    PROVE  /\ StepOK /\ StateOK /\ Safety
           /\ decision.mode \in Modes
           /\ approvals \in Seq(RequestType) /\ audit \in Seq(EntryType)
           /\ signals \in Seq(SignalType) /\ row \in RowType
           /\ Len(approvals) \in Nat /\ Len(audit) \in Nat /\ Len(signals) \in Nat
           /\ \A i \in 1..Len(approvals) : approvals[i] \in RequestType
           /\ \A i \in 1..Len(audit) : audit[i] \in EntryType /\ audit[i].id \in 1..Len(approvals)
           /\ wf \in Gate => /\ decision.policy = "spoke" /\ decision.gated /\ ran = "none"
                             /\ row.outcome = "none" /\ result = "none"
           /\ wf \in Gate \ {"request"} => current \in 1..Len(approvals)
<1>1. StepOK /\ StateOK /\ Safety
  BY TypeParts DEF IInv
<1>2. wf \in Gate => /\ decision.policy = "spoke" /\ decision.gated /\ ran = "none"
                     /\ row.outcome = "none" /\ result = "none"
  BY DEF IInv, PlaceInv, RowInv
<1>3. wf \in Gate \ {"request"} => current \in 1..Len(approvals)
  BY <1>1 DEF IInv, PlaceInv, StateOK
<1>4. decision.mode \in Modes
  BY <1>1 DEF StateOK, DecisionType
<1>5. \A i \in 1..Len(audit) : audit[i].id \in 1..Len(approvals)
  BY DEF IInv, RowInv
<1> QED
  BY <1>1, <1>2, <1>3, <1>4, <1>5 DEF StateOK

LEMMA RequestStep == ASSUME IInv, RequestApproval PROVE IInv'
<1> PICK stored \in BOOLEAN, reported \in BOOLEAN : RequestApproval!(stored, reported)
  BY DEF RequestApproval
<1>f. /\ StepOK /\ StateOK /\ Safety /\ decision.mode \in Modes
      /\ approvals \in Seq(RequestType) /\ Len(approvals) \in Nat
      /\ wf \in Gate /\ decision.policy = "spoke" /\ decision.gated /\ ran = "none"
      /\ row.outcome = "none" /\ result = "none"
  BY GateFacts DEF Gate
<1>w. StepOK' /\ wf' \in {"request", "markWaiting"} /\ (reported => wf' = "markWaiting")
  BY <1>f, PersistentSteps DEF Working
<1>o. ~reported => wf' = "request"
  BY DEF Persistent
<1>u. UNCHANGED <<config, gw, expires, answer, runVars, row, audit, human, now>>
  OBVIOUS
<1>c. current = 0 /\ audit = <<>>
  BY DEF IInv, PlaceInv, VerdictInv
<1>1. /\ approvals' \in Seq(RequestType) /\ Len(approvals') \in Nat /\ Len(approvals) <= Len(approvals')
      /\ \A i \in 1..Len(approvals) : approvals'[i] = approvals[i]
      /\ \A i \in 1..Len(approvals') : i \in 1..Len(approvals) \/ approvals'[i].status = "pending"
      /\ stored => Len(approvals') > 0 /\ approvals'[Len(approvals')] =
                      [status |-> "pending", mode |-> decision.mode]
  <2>1. [status |-> "pending", mode |-> decision.mode] \in RequestType
    BY <1>f DEF RequestType
  <2> QED
    BY <2>1, <1>f
<1>2. /\ reported => current' = Len(approvals')
      /\ ~reported => current' = 0
  BY <1>c
<1> USE <1>u DEF config, runVars, human
<1>3. StateOK'
  BY <1>f, <1>1, <1>2 DEF StateOK
<1>4. PlaceInv'
  BY <1>f, <1>w, <1>o, <1>1, <1>2 DEF IInv, PlaceInv, Early, Gate, Waiting
<1>5. VerdictInv'
  BY <1>f, <1>w, <1>o, <1>c, <1>1, <1>2 DEF VerdictInv, Early, Gate, Waiting, Status
<1>6. AnswerInv'
  BY <1>w DEF IInv, AnswerInv, Sent
<1>7. RowInv'
  BY <1>f, <1>w, <1>c DEF IInv, RowInv, Early, Gate, Waiting
<1>8. RunsAreCleared' /\ TablesAgree'
  BY <1>f, <1>c DEF IInv, RowInv, RunsAreCleared, TablesAgree
<1>9. AnswersAreHonoured'
  BY <1>f, <1>1 DEF Safety, AnswersAreHonoured, HighRisk
<1> QED
  BY <1>w, <1>3, <1>4, <1>5, <1>6, <1>7, <1>8, <1>9, TypeParts DEF IInv, Safety

LEMMA MarkStep == ASSUME IInv, MarkWaiting PROVE IInv'
<1> PICK written \in BOOLEAN, reported \in BOOLEAN : MarkWaiting!(written, reported)
  BY DEF MarkWaiting
<1>f. /\ StepOK /\ StateOK /\ Safety /\ row \in RowType
      /\ decision.policy = "spoke" /\ decision.gated /\ ran = "none"
      /\ row.outcome = "none" /\ result = "none" /\ current \in 1..Len(approvals)
      /\ Len(approvals) \in Nat
  BY GateFacts DEF Gate, Waiting
<1>w. StepOK' /\ wf' \in {"markWaiting", "await"}
  BY <1>f, PersistentSteps DEF Working
<1>u. UNCHANGED <<config, gw, gateVars, runVars, approvals, audit, human, now>>
  OBVIOUS
<1>r. /\ row' \in RowType /\ row'.outcome = "none"
      /\ row' = row \/ row'.approval = current
  <2>1. CASE written
    <3>1. row' = [row EXCEPT !.status = "waiting_for_approval", !.approval = current]
      BY <2>1 DEF ShownApproval
    <3>2. current \in Nat /\ "waiting_for_approval" \in RowStatuses
      BY <1>f DEF RowStatuses
    <3> QED
      BY <1>f, <3>1, <3>2 DEF RowType
  <2>2. CASE ~written
    BY <1>f, <2>2
  <2> QED
    BY <2>1, <2>2
<1> USE <1>u DEF config, gateVars, runVars, human
<1>1. StateOK'
  BY <1>f, <1>r DEF StateOK
<1>2. PlaceInv'
  BY <1>w DEF IInv, PlaceInv, Early, Gate, Waiting
<1>3. VerdictInv'
  BY <1>w DEF IInv, VerdictInv, Early, Gate, Waiting, Status
<1>4. AnswerInv'
  BY <1>w DEF IInv, AnswerInv, Sent
<1>5. RowInv'
  BY <1>f, <1>r, <1>w DEF IInv, RowInv, Early, Gate, Waiting
<1>6. RunsAreCleared' /\ AnswersAreHonoured'
  BY <1>f DEF Safety, RunsAreCleared, AnswersAreHonoured, HighRisk
<1>7. TablesAgree'
  <2>1. row.status = "waiting_for_approval" => row.approval = current
    BY <1>f DEF Safety, TablesAgree
  <2>2. row'.status = "waiting_for_approval" => row'.approval = current
    BY <2>1, <1>r
  <2>3. current > 0
    BY <1>f
  <2> QED
    BY <2>2, <2>3, <1>f, <1>r DEF Safety, TablesAgree
<1> QED
  BY <1>w, <1>1, <1>2, <1>3, <1>4, <1>5, <1>6, <1>7, TypeParts DEF IInv, Safety

\* Steps of the workflow that write nothing but its place and the answer it takes.
LEMMA WaitingStep ==
    ASSUME IInv, wf \in {"await", "select"},
           \/ wf' \in {"await", "select", "markTimeout"} /\ answer' = answer
           \/ wf' = "record" /\ Sent(current, answer') /\ answer' \in AnswerType,
           UNCHANGED <<config, gw, att, expires, current, runVars, tables, human, now, faults>>
    PROVE  IInv'
<1> USE DEF config, runVars, tables, human
<1>f. /\ StepOK /\ StateOK /\ Safety /\ decision.policy = "spoke" /\ decision.gated
      /\ ran = "none" /\ row.outcome = "none" /\ result = "none"
  BY GateFacts DEF Gate, Waiting
<1>w. StepOK'
  BY <1>f, PlainSteps DEF Working
<1>1. StateOK'
  BY <1>f DEF StateOK
<1>2. PlaceInv'
  BY DEF IInv, PlaceInv, Early, Gate, Waiting
<1>3. VerdictInv'
  BY DEF IInv, VerdictInv, Early, Gate, Waiting, Status
<1>4. AnswerInv'
  BY DEF IInv, AnswerInv, Sent
<1>5. RowInv'
  BY <1>f DEF IInv, RowInv, Early, Gate, Waiting
<1>6. Safety'
  BY <1>f DEF Safety, RunsAreCleared, AnswersAreHonoured, TablesAgree, HighRisk
<1> QED
  BY <1>w, <1>1, <1>2, <1>3, <1>4, <1>5, <1>6, TypeParts DEF IInv

LEMMA DeadlineSteps == ASSUME IInv, CheckDeadline \/ TimerFires PROVE IInv'
BY WaitingStep DEF CheckDeadline, TimerFires, gateVars

LEMMA ReceiveStep == ASSUME IInv, ReceiveSignal PROVE IInv'
<1> PICK i \in Delivered : ReceiveSignal!(i)
  BY DEF ReceiveSignal
<1>1. i \in 1..Len(signals) /\ signals[i].id = current
  BY DEF Delivered
<1>2. Sent(current, signals[i].answer)
  BY <1>1 DEF IInv, AnswerInv
<1>3. signals[i].answer \in AnswerType
  <2>1. signals[i] \in SignalType
    BY <1>1, GateFacts
  <2> QED
    BY <2>1 DEF SignalType
<1> QED
  BY <1>2, <1>3, WaitingStep DEF runVars, gateVars

-----------------------------------------------------------------------------
(* The verdict *)

\* What one attempt to record a verdict leaves behind.
LEMMA ConcludeFacts ==
    ASSUME IInv, wf \in {"record", "markTimeout"}, NEW v \in Verdicts,
           NEW next \in Working \union Closed, Conclude(v, v, next), Status \in {"pending", v},
           \A i \in 1..Len(audit) : audit[i] = Entry(v)
    PROVE  /\ StepOK' /\ wf' \in {wf, next} /\ current \in 1..Len(approvals)
           /\ approvals' \in Seq(RequestType) /\ Len(approvals') = Len(approvals)
           /\ \A i \in 1..Len(approvals) : i # current => approvals'[i] = approvals[i]
           /\ approvals'[current].mode = approvals[current].mode
           /\ approvals'[current].status \in {v, Status}
           /\ audit' \in Seq(EntryType) /\ \A i \in 1..Len(audit') : audit'[i] = Entry(v)
           /\ Len(audit') > 0 => approvals'[current].status = v \/ Len(audit) > 0
           /\ wf' # wf => /\ approvals'[current].status = v
                          /\ \E i \in 1..Len(audit') : audit'[i] = Entry(v)
<1> PICK updated \in BOOLEAN, inserted \in BOOLEAN, reported \in BOOLEAN :
            Conclude(v, v, next)!(updated, inserted, reported)
  BY DEF Conclude
<1>f. /\ StepOK /\ approvals \in Seq(RequestType) /\ audit \in Seq(EntryType)
      /\ current \in 1..Len(approvals) /\ Len(approvals) \in Nat /\ Len(audit) \in Nat
      /\ approvals[current] \in RequestType
  BY GateFacts DEF Gate
<1>w. StepOK' /\ wf' \in {wf, next}
  BY <1>f, PersistentSteps DEF Working
<1>o. wf' # wf => reported
  BY DEF Persistent
<1>1. /\ approvals' \in Seq(RequestType) /\ Len(approvals') = Len(approvals)
      /\ \A i \in 1..Len(approvals) : i # current => approvals'[i] = approvals[i]
      /\ approvals'[current].mode = approvals[current].mode
      /\ approvals'[current].status = IF updated THEN v ELSE Status
  <2>1. CASE updated
    <3>1. approvals' = [approvals EXCEPT ![current].status = v]
      BY <2>1
    <3>2. approvals' = [approvals EXCEPT ![current] = [@ EXCEPT !.status = v]]
      BY <3>1
    <3>3. [approvals[current] EXCEPT !.status = v] \in RequestType
      BY <1>f DEF RequestType
    <3>4. approvals'[current] = [approvals[current] EXCEPT !.status = v]
      BY <1>f, <3>2
    <3>5. approvals'[current].mode = approvals[current].mode /\ approvals'[current].status = v
      BY <1>f, <3>4 DEF RequestType
    <3> QED
      BY <1>f, <2>1, <3>2, <3>3, <3>5
  <2>2. CASE ~updated
    BY <1>f, <2>2 DEF Status
  <2> QED
    BY <2>1, <2>2
<1>2. /\ audit' \in Seq(EntryType) /\ \A i \in 1..Len(audit') : audit'[i] = Entry(v)
      /\ inserted => \E i \in 1..Len(audit') : audit'[i] = Entry(v)
      /\ Len(audit') > 0 => inserted \/ Len(audit) > 0
  <2>1. Entry(v) \in EntryType
    BY <1>f DEF Entry, EntryType
  <2>2. CASE inserted
    <3>1. audit' = Append(audit, Entry(v))
      BY <2>2 DEF Entry
    <3>2. audit' \in Seq(EntryType) /\ Len(audit') = Len(audit) + 1 /\ audit'[Len(audit) + 1] = Entry(v)
          /\ \A i \in 1..Len(audit) : audit'[i] = audit[i]
      BY <1>f, <2>1, <3>1
    <3> QED
      BY <1>f, <2>2, <3>2
  <2>3. CASE ~inserted
    BY <1>f, <2>3
  <2> QED
    BY <2>2, <2>3
<1> QED
  BY <1>f, <1>w, <1>o, <1>1, <1>2 DEF Status

\* The verdict of an approver, or of the clock, enters the tables.
LEMMA ConcludeStep ==
    ASSUME IInv, NEW v \in Verdicts, NEW next \in {"decide", "persist"}, Conclude(v, v, next),
           \/ wf = "record" /\ v = Verdict(answer) /\ next = "decide" /\ result' = result
           \/ /\ wf = "markTimeout" /\ v = "timeout" /\ next = "persist"
              /\ result' = IF wf' = "persist" THEN "approval_timeout" ELSE result
    PROVE  IInv'
<1>0. Status \in {"pending", v} /\ \A i \in 1..Len(audit) : audit[i] = Entry(v)
  BY DEF IInv, VerdictInv
<1>c. /\ StepOK' /\ wf' \in {wf, next} /\ current \in 1..Len(approvals)
      /\ approvals' \in Seq(RequestType) /\ Len(approvals') = Len(approvals)
      /\ \A i \in 1..Len(approvals) : i # current => approvals'[i] = approvals[i]
      /\ approvals'[current].mode = approvals[current].mode
      /\ approvals'[current].status \in {v, Status}
      /\ audit' \in Seq(EntryType) /\ \A i \in 1..Len(audit') : audit'[i] = Entry(v)
      /\ Len(audit') > 0 => approvals'[current].status = v \/ Len(audit) > 0
      /\ wf' # wf => /\ approvals'[current].status = v
                     /\ \E i \in 1..Len(audit') : audit'[i] = Entry(v)
  BY <1>0, ConcludeFacts DEF Working, Closed
<1>f. /\ StateOK /\ Safety /\ decision.policy = "spoke" /\ decision.gated
      /\ ran = "none" /\ row.outcome = "none" /\ result = "none"
      /\ Len(approvals) \in Nat /\ Len(audit) \in Nat /\ Len(audit') \in Nat
  BY <1>c, GateFacts DEF Gate
<1>u. UNCHANGED <<config, gw, gateVars, decision, ran, row, human, now>>
  BY DEF Conclude
<1> USE <1>u DEF config, gateVars, human
<1>s. Len(audit') > 0 => approvals'[current].status = v
  <2>1. CASE Len(audit) > 0
    <3>1. 1 \in 1..Len(audit)
      BY <2>1, <1>f
    <3>2. approvals[audit[1].id].status = audit[1].status /\ audit[1] = Entry(v)
      BY <3>1, <1>0, <1>f DEF Safety, TablesAgree
    <3>3. Status = v
      BY <3>2 DEF Status, Entry
    <3> QED
      BY <3>3, <1>c
  <2>2. CASE ~(Len(audit) > 0)
    BY <2>2, <1>c
  <2> QED
    BY <2>1, <2>2
<1>1. StateOK'
  BY <1>f, <1>c DEF StateOK, Results
<1>2. PlaceInv'
  BY <1>f, <1>c DEF IInv, PlaceInv, Early, Gate, Waiting
<1>3. VerdictInv'
  <2>1. \A w : Entry(w)' = Entry(w)
    BY DEF Entry
  <2>2. CASE wf' = wf
    BY <1>c, <1>0, <2>1, <2>2 DEF VerdictInv, Early, Gate, Waiting, Status, Verdict
  <2>3. CASE wf' # wf
    BY <1>c, <2>1, <2>3 DEF VerdictInv, Early, Gate, Waiting, Status, Verdict
  <2> QED
    BY <2>2, <2>3
<1>4. AnswerInv'
  BY <1>c DEF IInv, AnswerInv, Sent
<1>5. RowInv'
  <2>1. \A i \in 1..Len(audit') : audit'[i].id \in 1..Len(approvals')
    BY <1>c DEF Entry
  <2> QED
    BY <1>f, <1>c, <2>1 DEF IInv, RowInv, Early, Gate, Waiting
<1>6. RunsAreCleared'
  BY <1>f DEF RunsAreCleared
<1>7. TablesAgree'
  <2>1. \A i \in 1..Len(audit') : approvals'[audit'[i].id].status = audit'[i].status
    <3> SUFFICES ASSUME NEW i \in 1..Len(audit')
                 PROVE  approvals'[audit'[i].id].status = audit'[i].status
      OBVIOUS
    <3>1. audit'[i].id = current /\ audit'[i].status = v
      BY <1>c DEF Entry
    <3>2. Len(audit') > 0
      BY <1>f
    <3> QED
      BY <3>1, <3>2, <1>s
  <2> QED
    BY <2>1, <1>f DEF Safety, TablesAgree
<1>8. AnswersAreHonoured'
  <2>1. ASSUME NEW id \in 1..Len(approvals'),
               approvals'[id].status \in {"approved", "rejected", "modified"}
        PROVE  \E r \in Responders : /\ resp[r].pc = "sent" /\ resp[r].id = id
                                     /\ resp[r].answer.approved = (approvals'[id].status = "approved")
    <3>1. CASE approvals'[id].status = approvals[id].status
      BY <3>1, <2>1, <1>c, <1>f DEF Safety, AnswersAreHonoured
    <3>2. CASE approvals'[id].status # approvals[id].status
      <4>1. id = current /\ approvals'[id].status = v
        BY <3>2, <1>c DEF Status
      <4>2. wf = "record" /\ v = Verdict(answer)
        BY <2>1, <4>1
      <4>3. PICK r \in Responders : resp[r].pc = "sent" /\ resp[r].id = current
                                    /\ resp[r].answer = answer
        BY <4>2 DEF IInv, AnswerInv, Sent
      <4>4. answer.approved \in BOOLEAN
        BY <4>2 DEF IInv, AnswerInv, AnswerType
      <4>5. answer.approved = (v = "approved")
        BY <4>2, <4>4 DEF Verdict
      <4> QED
        BY <4>1, <4>3, <4>5
    <3> QED
      BY <3>1, <3>2
  <2> QED
    BY <2>1, <1>f DEF AnswersAreHonoured, HighRisk
<1>9. wf' # "dispatch"
  BY <1>c
<1> QED
  BY <1>c, <1>1, <1>2, <1>3, <1>4, <1>5, <1>6, <1>7, <1>8, <1>9, TypeParts DEF IInv, Safety

LEMMA VerdictSteps == ASSUME IInv, RecordApprovalResponse \/ MarkApprovalTimeout PROVE IInv'
<1>1. CASE RecordApprovalResponse
  <2>1. Verdict(answer) \in Verdicts
    BY DEF Verdict, Verdicts
  <2> QED
    BY <1>1, <2>1, ConcludeStep DEF RecordApprovalResponse
<1>2. CASE MarkApprovalTimeout
  BY <1>2, ConcludeStep DEF MarkApprovalTimeout, AfterTimeout, Verdicts
<1> QED
  BY <1>1, <1>2

-----------------------------------------------------------------------------
(* The dispatch *)

\* A step that decides over a result or a child and writes to no table.
LEMMA DispatchStep ==
    ASSUME IInv, StepOK', wf \in {"decide", "dispatch", "child"},
           wf' \in {"dispatch", "child", "persist"}, decision' \in DecisionType,
           UNCHANGED <<config, gw, gateVars, tables, human, now>>,
           \A f \in {"policy", "gated", "sandbox"} : decision'[f] = decision[f],
           wf' = "dispatch" => Cleared',
           result' \in Results, ran' \in {"none"} \union Modes,
           wf' = "dispatch" => result' = "none" /\ ran' = "none",
           wf' = "child" => result' = "none" /\ ran' # "none",
           result' = "ok" => ran' # "none",
           result' \notin {"none", "ok", "error"} => ran' = "none",
           ran' # "none" => \/ ran' = ran /\ wf = "child"
                            \/ wf = "dispatch" /\ ran' = decision.mode
    PROVE  IInv'
<1> USE DEF config, gateVars, tables, human
<1>f. StateOK /\ Safety /\ decision.policy # "none" /\ row.outcome = "none"
  BY TypeParts DEF IInv, PlaceInv, RowInv, Gate
<1>d. decision'.policy = decision.policy /\ decision'.gated = decision.gated
      /\ decision'.sandbox = decision.sandbox
  OBVIOUS
<1>1. StateOK'
  BY <1>f DEF StateOK
<1>2. PlaceInv'
  BY <1>f, <1>d DEF IInv, PlaceInv, Early, Gate, Waiting
<1>3. VerdictInv'
  BY DEF VerdictInv, Early, Gate, Waiting
<1>4. AnswerInv'
  BY DEF IInv, AnswerInv, Sent
<1>5. RowInv'
  BY <1>f DEF IInv, RowInv, Early, Gate, Waiting
<1>6. CASE ran' = "none"
  <2>1. RunsAreCleared' /\ AnswersAreHonoured'
    BY <1>6, <1>f DEF Safety, RunsAreCleared, AnswersAreHonoured, HighRisk
  <2>2. TablesAgree'
    BY <1>6, <1>f DEF Safety, TablesAgree
  <2> QED
    BY <1>1, <1>2, <1>3, <1>4, <1>5, <2>1, <2>2, TypeParts DEF IInv, Safety
<1>7. CASE ran' # "none"
  <2>1. RunsAreCleared' /\ AnswersAreHonoured'
    <3>1. CASE ran' = ran /\ wf = "child"
      BY <1>7, <3>1, <1>f, <1>d DEF Safety, RunsAreCleared, AnswersAreHonoured, IsApproved
    <3>2. CASE wf = "dispatch" /\ ran' = decision.mode
      BY <1>7, <3>2, <1>f, <1>d DEF Safety, RunsAreCleared, AnswersAreHonoured, IsApproved, IInv,
         Cleared, Entry
    <3> QED
      BY <1>7, <3>1, <3>2
  <2>2. TablesAgree'
    BY <1>7, <1>f DEF Safety, TablesAgree
  <2> QED
    BY <1>1, <1>2, <1>3, <1>4, <1>5, <1>7, <2>1, <2>2, TypeParts DEF IInv, Safety
<1> QED
  BY <1>6, <1>7

LEMMA RefuseStep == ASSUME IInv, Refuse PROVE IInv'
<1>f. /\ StepOK /\ StateOK /\ ran = "none" /\ decision \in DecisionType
  BY GateFacts DEF Gate, StateOK, Refuse
<1>w. StepOK'
  BY <1>f, PlainSteps DEF Refuse, Working
<1>1. result' \in {"rejected", "partial"}
  BY DEF Refuse
<1> QED
  BY <1>f, <1>w, <1>1, DispatchStep DEF Refuse, Results

LEMMA AcceptStep == ASSUME IInv, Accept PROVE IInv'
<1>f. /\ StepOK /\ StateOK /\ ran = "none" /\ decision \in DecisionType /\ decision.mode \in Modes
      /\ decision.policy = "spoke" /\ decision.gated /\ result = "none"
      /\ current \in 1..Len(approvals) /\ Len(approvals) \in Nat
  BY GateFacts DEF Gate, StateOK, Accept
<1>w. StepOK'
  BY <1>f, PlainSteps DEF Accept, Working, NeedsReapproval
<1>a. answer.approved /\ Verdict(answer) = "approved" /\ answer \in AnswerType
  BY DEF Accept, Refused, Verdict, IInv, AnswerInv
<1>m. ModeAfter(answer) \in Modes
  BY <1>f DEF ModeAfter
<1>d. decision' = [decision EXCEPT !.mode = ModeAfter(answer)]
  BY DEF Accept
<1>1. decision' \in DecisionType /\ decision'.mode = ModeAfter(answer)
      /\ \A f \in {"policy", "gated", "sandbox"} : decision'[f] = decision[f]
  BY <1>f, <1>m, <1>d DEF DecisionType
<1>2. UNCHANGED <<config, gw, gateVars, ran, tables, human, now>> /\ wf = "decide"
  BY DEF Accept
<1>3. CASE NeedsReapproval(ModeAfter(answer))
  <2>1. result' = "rejected" /\ wf' = "persist"
    BY <1>3 DEF Accept
  <2> QED
    BY <1>f, <1>w, <1>1, <1>2, <2>1, DispatchStep DEF Results
<1>4. CASE ~NeedsReapproval(ModeAfter(answer))
  <2>1. result' = "none" /\ wf' = "dispatch"
    BY <1>4, <1>f DEF Accept
  <2>2. Cleared'
    <3>1. Status = "approved" /\ \E i \in 1..Len(audit) : audit[i] = Entry("approved")
      BY <1>2, <1>a DEF IInv, VerdictInv
    <3>2. ModeAfter(answer) \in HighRisk => ModeAfter(answer) = decision.mode
      BY <1>4 DEF NeedsReapproval
    <3>3. decision.mode = approvals[current].mode
      BY <1>2 DEF IInv, PlaceInv, Gate
    <3>4. decision'.policy = "spoke"
      BY <1>1, <1>f
    <3> QED
      BY <3>1, <3>2, <3>3, <3>4, <1>1, <1>2, <1>f DEF Cleared, IsApproved, Status, Entry, gateVars, tables
  <2> QED
    BY <1>f, <1>w, <1>1, <1>2, <2>1, <2>2, DispatchStep DEF Results
<1> QED
  BY <1>3, <1>4

LEMMA ChildSteps == ASSUME IInv, Withhold \/ StartChild \/ ChildReturns PROVE IInv'
<1>f. /\ StepOK /\ StateOK /\ decision \in DecisionType /\ decision.mode \in Modes
      /\ ran \in {"none"} \union Modes /\ result = "none"
      /\ wf = "dispatch" => ran = "none"
      /\ wf = "child" => ran # "none"
  BY TypeParts DEF IInv, StateOK, PlaceInv, RowInv, DecisionType, Withhold, StartChild, ChildReturns
<1>w. StepOK'
  BY <1>f, PlainSteps DEF Withhold, StartChild, ChildReturns, Working
<1>u. /\ UNCHANGED <<config, gw, gateVars, tables, human, now>>
      /\ decision' = decision
  BY DEF Withhold, StartChild, ChildReturns
<1>1. CASE Withhold
  <2>1. result' \in {"mode_disabled", "approval_required"} /\ wf' = "persist" /\ ran' = "none"
    BY <1>1, <1>f DEF Withhold
  <2> QED
    BY <1>1, <1>f, <1>w, <1>u, <2>1, DispatchStep DEF Withhold, Results
<1>2. CASE StartChild
  <2>1. decision.mode # "none"
    BY <1>f DEF Modes, HighRisk
  <2> QED
    BY <1>2, <1>f, <1>w, <1>u, <2>1, DispatchStep DEF StartChild, Results
<1>3. CASE ChildReturns
  BY <1>3, <1>f, <1>w, <1>u, DispatchStep DEF ChildReturns, Results
<1> QED
  BY <1>1, <1>2, <1>3

-----------------------------------------------------------------------------
(* The row, the gateway, the clock and the responders *)

\* The last write, and everything that ends the workflow without one.
LEMMA ClosingStep ==
    ASSUME IInv, StepOK', wf \in Working, wf' \in Closed \/ (wf = "persist" /\ wf' = wf),
           \/ row' = row
           \/ /\ wf = "persist" /\ row'.outcome = result /\ row'.status \in {"completed", "failed"}
              /\ row' \in RowType,
           UNCHANGED <<config, gw, gateVars, runVars, approvals, audit, human, now>>
    PROVE  IInv'
<1> USE DEF config, gateVars, runVars, human
<1>f. StateOK /\ Safety /\ row \in RowType
  BY TypeParts DEF IInv, StateOK
<1>w. wf' \in Closed \union {"persist"}
  OBVIOUS
<1>1. StateOK'
  BY <1>f DEF StateOK
<1>2. PlaceInv'
  BY <1>w DEF IInv, PlaceInv, Early, Gate, Waiting, Closed, Working
<1>3. VerdictInv'
  BY <1>w DEF VerdictInv, Early, Gate, Waiting, Closed
<1>4. AnswerInv'
  BY <1>w DEF IInv, AnswerInv, Sent, Closed
<1>5. RowInv'
  BY <1>w DEF IInv, RowInv, Early, Gate, Waiting, Closed
<1>6. RunsAreCleared' /\ AnswersAreHonoured'
  BY <1>f DEF Safety, RunsAreCleared, AnswersAreHonoured, IsApproved
<1>7. TablesAgree'
  BY <1>f DEF Safety, TablesAgree, IInv, RowInv
<1>8. wf' # "dispatch"
  BY <1>w DEF Closed
<1> QED
  BY <1>1, <1>2, <1>3, <1>4, <1>5, <1>6, <1>7, <1>8, TypeParts DEF IInv, Safety

LEMMA PersistStep == ASSUME IInv, Persist PROVE IInv'
<1> PICK written \in BOOLEAN, reported \in BOOLEAN : Persist!(written, reported)
  BY DEF Persist
<1>f. StepOK /\ StateOK /\ result \in Results
  BY TypeParts DEF IInv, StateOK
<1>1. 2 * MaxAttempts = (IF wf \in {"persist", "killed"} THEN 2 ELSE 1) * MaxAttempts /\ wf \in Working
  BY DEF Working
<1>2. StepOK' /\ wf' \in {wf, "ended", "unpersisted"}
  BY <1>f, <1>1, AttemptSteps DEF Closed
<1>3. \/ row' = row
      \/ /\ row'.outcome = result /\ row'.status \in {"completed", "failed"} /\ row' \in RowType
  <2>1. CASE written
    <3>1. row' = [status |-> IF result = "error" THEN "failed" ELSE "completed",
                  outcome |-> result, approval |-> 0]
      BY <2>1 DEF PersistedOutcome
    <3> QED
      BY <3>1, <1>f DEF RowType, RowStatuses
  <2>2. CASE ~written
    BY <2>2
  <2> QED
    BY <2>1, <2>2
<1> QED
  BY <1>1, <1>2, <1>3, ClosingStep DEF Closed

LEMMA KilledStep == ASSUME IInv, ExecutionTimesOut PROVE IInv'
<1>1. att \in 0..(2 * MaxAttempts - 1) /\ faults \in 0..MaxFaults
  BY GateAssumption, TypeParts DEF IInv, StepOK
<1>2. StepOK'
  BY <1>1 DEF ExecutionTimesOut, StepOK, Closed
<1> QED
  BY <1>2, ClosingStep DEF ExecutionTimesOut, Closed, tables

LEMMA GatewayStep == ASSUME IInv, ExecuteWorkflow \/ InsertRow PROVE IInv'
<1> USE DEF config, gateVars, runVars, tables, human
<1>f. StepOK /\ StateOK /\ Safety /\ row \in RowType
  BY TypeParts DEF IInv, StateOK
<1>1. CASE ExecuteWorkflow
  <2> PICK started \in BOOLEAN, ok \in BOOLEAN : ExecuteWorkflow!(started, ok)
    BY <1>1 DEF ExecuteWorkflow
  <2>1. /\ UNCHANGED <<config, att, gateVars, runVars, tables, human, now>>
        /\ wf = "none" /\ wf' \in {"none", "classify"} /\ gw' \in {"insert", "rejected"}
    BY DEF IInv, PlaceInv
  <2>2. StepOK'
    <3>1. faults' \in 0..MaxFaults
      BY <1>f, Faults
    <3>2. att \in 0..(1 * MaxAttempts - 1)
      BY <1>f, <2>1 DEF StepOK
    <3> QED
      BY <2>1, <3>1, <3>2 DEF StepOK, Working
  <2>3. StateOK'
    BY <1>f, <2>1 DEF StateOK
  <2>4. PlaceInv' /\ VerdictInv' /\ AnswerInv' /\ RowInv'
    BY <2>1 DEF IInv, PlaceInv, VerdictInv, AnswerInv, RowInv, Early, Gate, Waiting, Sent
  <2>5. Safety'
    BY <1>f, <2>1 DEF Safety, RunsAreCleared, AnswersAreHonoured, TablesAgree, IsApproved
  <2> QED
    BY <2>1, <2>2, <2>3, <2>4, <2>5, TypeParts DEF IInv
<1>2. CASE InsertRow
  <2> PICK ok \in BOOLEAN : InsertRow!(ok)
    BY <1>2 DEF InsertRow
  <2>1. /\ UNCHANGED <<config, wf, att, gateVars, runVars, approvals, audit, human, now>>
        /\ gw' = "accepted"
    OBVIOUS
  <2>2. /\ row' \in RowType /\ row'.outcome = row.outcome /\ row'.approval = row.approval
        /\ row'.status = row.status \/ row'.status = "running"
    BY <1>f DEF RowType, RowStatuses
  <2>3. StepOK'
    BY <1>f, Faults DEF StepOK
  <2>4. StateOK'
    BY <1>f, <2>1, <2>2 DEF StateOK
  <2>5. PlaceInv' /\ VerdictInv' /\ AnswerInv'
    BY <2>1 DEF IInv, PlaceInv, VerdictInv, AnswerInv, Early, Gate, Waiting, Sent, Status, Entry,
       Verdict
  <2>6. RowInv'
    BY <2>1, <2>2 DEF IInv, RowInv
  <2>7. RunsAreCleared' /\ AnswersAreHonoured'
    BY <1>f, <2>1 DEF Safety, RunsAreCleared, AnswersAreHonoured, IsApproved
  <2>8. TablesAgree'
    BY <1>f, <2>1, <2>2 DEF Safety, TablesAgree
  <2>9. wf' = "dispatch" => Cleared'
    BY <2>1 DEF IInv, Cleared, IsApproved, Entry
  <2> QED
    BY <2>1, <2>3, <2>4, <2>5, <2>6, <2>7, <2>8, <2>9, TypeParts DEF IInv, Safety
<1> QED
  BY <1>1, <1>2

\* What a responder may do: look, and then send one answer.
LEMMA RespondStep == ASSUME IInv, Respond PROVE IInv'
<1> USE DEF config, gateVars, runVars, tables, HumanStep
<1>f. StepOK /\ StateOK /\ Safety /\ signals \in Seq(SignalType) /\ Len(signals) \in Nat
      /\ resp \in [Responders -> ResponderType] /\ Len(approvals) \in Nat
  BY TypeParts, GateFacts DEF IInv, StateOK
<1> PICK r \in Responders : CheckApproval(r) \/ FindPending(r) \/ SendSignal(r)
  BY DEF Respond
<1>u. UNCHANGED <<config, gw, wf, att, gateVars, runVars, tables, now, faults>>
  BY DEF CheckApproval, FindPending, SendSignal
<1>k. /\ \A q \in Responders : resp[q].pc = "sent" => resp'[q] = resp[q]
      /\ resp' \in [Responders -> ResponderType] /\ signals' \in Seq(SignalType)
      /\ \A i \in 1..Len(signals') :
            \/ i \in 1..Len(signals) /\ signals'[i] = signals[i]
            \/ /\ signals'[i].id = resp'[r].id /\ signals'[i].answer = resp'[r].answer
               /\ resp'[r].pc = "sent"
  <2>r. resp[r] \in ResponderType
    BY <1>f
  <2>1. CASE CheckApproval(r)
    <3> PICK id \in 1..Len(approvals) : CheckApproval(r)!(id)
      BY <2>1 DEF CheckApproval
    <3>1. PICK p \in {"checked", "refused"} :
             resp' = [resp EXCEPT ![r] = [@ EXCEPT !.pc = p, !.id = id]]
      OBVIOUS
    <3>2. id \in Nat
      BY <1>f
    <3>3. [resp[r] EXCEPT !.pc = p, !.id = id] \in ResponderType
      BY <2>r, <3>2 DEF ResponderType
    <3>4. resp[r].pc = "idle" /\ signals' = signals
      OBVIOUS
    <3> QED
      BY <1>f, <3>1, <3>3, <3>4
  <2>2. CASE FindPending(r)
    <3>1. PICK p \in {"checked", "refused"}, id \in Nat :
             resp' = [resp EXCEPT ![r] = [@ EXCEPT !.pc = p, !.via = "task", !.id = id]]
      <4>1. CASE Pending = {}
        <5>1. resp' = [resp EXCEPT ![r] = [@ EXCEPT !.pc = "refused", !.via = "task"]]
          BY <2>2, <4>1 DEF FindPending
        <5>2. [resp[r] EXCEPT !.pc = "refused", !.via = "task"]
              = [resp[r] EXCEPT !.pc = "refused", !.via = "task", !.id = resp[r].id]
          BY <2>r DEF ResponderType
        <5>3. resp[r].id \in Nat
          BY <2>r DEF ResponderType
        <5> QED
          BY <5>1, <5>2, <5>3
      <4>2. CASE Pending # {}
        <5>1. PICK id \in Pending :
                 resp' = [resp EXCEPT ![r] = [@ EXCEPT !.pc = "checked", !.via = "task", !.id = id]]
          BY <2>2, <4>2 DEF FindPending
        <5>2. id \in Nat
          BY <1>f DEF Pending
        <5> QED
          BY <5>1, <5>2
      <4> QED
        BY <4>1, <4>2
    <3>2. [resp[r] EXCEPT !.pc = p, !.via = "task", !.id = id] \in ResponderType
      BY <2>r DEF ResponderType
    <3>3. resp[r].pc = "idle" /\ signals' = signals
      BY <2>2 DEF FindPending
    <3> QED
      BY <1>f, <3>1, <3>2, <3>3
  <2>3. CASE SendSignal(r) /\ wf \in Closed
    <3>1. resp' = [resp EXCEPT ![r] = [@ EXCEPT !.pc = "failed"]] /\ signals' = signals
          /\ resp[r].pc = "checked"
      BY <2>3 DEF SendSignal
    <3>2. [resp[r] EXCEPT !.pc = "failed"] \in ResponderType
      BY <2>r DEF ResponderType
    <3> QED
      BY <1>f, <3>1, <3>2
  <2>4. CASE SendSignal(r) /\ wf \notin Closed
    <3>1. PICK a \in AnswersVia(resp[r].via) :
             /\ signals' = Append(signals, [id |-> resp[r].id, answer |-> a])
             /\ resp' = [resp EXCEPT ![r] = [@ EXCEPT !.pc = "sent", !.answer = a]]
      BY <2>4 DEF SendSignal
    <3>2. a \in AnswerType /\ resp[r].id \in Nat /\ resp[r].pc = "checked"
      BY <2>4, <2>r, GateAssumption DEF AnswersVia, ResponderType, SendSignal
    <3>3. [resp[r] EXCEPT !.pc = "sent", !.answer = a] \in ResponderType
      BY <2>r, <3>2 DEF ResponderType
    <3>4. resp' \in [Responders -> ResponderType] /\ resp'[r] = [resp[r] EXCEPT !.pc = "sent", !.answer = a]
          /\ \A q \in Responders \ {r} : resp'[q] = resp[q]
      BY <1>f, <3>1, <3>3
    <3>5. resp'[r].pc = "sent" /\ resp'[r].id = resp[r].id /\ resp'[r].answer = a
      BY <2>r, <3>4 DEF ResponderType
    <3>6. [id |-> resp[r].id, answer |-> a] \in SignalType
      BY <3>2 DEF SignalType
    <3>7. /\ signals' \in Seq(SignalType) /\ Len(signals') = Len(signals) + 1
          /\ \A i \in 1..Len(signals) : signals'[i] = signals[i]
          /\ signals'[Len(signals) + 1] = [id |-> resp[r].id, answer |-> a]
      BY <1>f, <3>1, <3>6
    <3>8. \A i \in 1..Len(signals') :
             \/ i \in 1..Len(signals) /\ signals'[i] = signals[i]
             \/ /\ signals'[i].id = resp'[r].id /\ signals'[i].answer = resp'[r].answer
                /\ resp'[r].pc = "sent"
      BY <1>f, <3>5, <3>7
    <3> QED
      BY <3>2, <3>4, <3>7, <3>8
  <2> QED
    BY <2>1, <2>2, <2>3, <2>4
<1>1. StepOK' /\ StateOK'
  BY <1>f, <1>u, <1>k DEF StepOK, StateOK
<1> DEFINE SentThen(id, a) ==
             \E q \in Responders : resp'[q].pc = "sent" /\ resp'[q].id = id /\ resp'[q].answer = a
<1>2. \A id, a : Sent(id, a) => SentThen(id, a)
  BY <1>k DEF Sent
<1>3. AnswerInv'
  <2>1. ASSUME NEW i \in 1..Len(signals') PROVE SentThen(signals'[i].id, signals'[i].answer)
    <3>1. CASE i \in 1..Len(signals) /\ signals'[i] = signals[i]
      BY <1>2, <3>1 DEF IInv, AnswerInv
    <3>2. CASE /\ signals'[i].id = resp'[r].id /\ signals'[i].answer = resp'[r].answer
               /\ resp'[r].pc = "sent"
      BY <3>2
    <3> QED
      BY <1>k, <3>1, <3>2
  <2>2. wf \in {"record", "decide"} => SentThen(current, answer) /\ answer \in AnswerType
    BY <1>2 DEF IInv, AnswerInv
  <2> QED
    BY <2>1, <2>2, <1>u DEF AnswerInv, Sent
<1>4. PlaceInv' /\ VerdictInv' /\ RowInv' /\ (wf = "dispatch" => Cleared)'
  BY <1>u DEF IInv, PlaceInv, VerdictInv, RowInv, Early, Gate, Waiting, Status, Entry, Verdict,
     Cleared, IsApproved
<1>5. RunsAreCleared' /\ TablesAgree'
  BY <1>f, <1>u DEF Safety, RunsAreCleared, TablesAgree, IsApproved
<1>6. AnswersAreHonoured'
  BY <1>f, <1>u, <1>k DEF Safety, AnswersAreHonoured
<1> QED
  BY <1>1, <1>3, <1>4, <1>5, <1>6, TypeParts DEF IInv, Safety

LEMMA ClockStep == ASSUME IInv, Tick \/ UNCHANGED vars PROVE IInv'
<1> USE DEF vars, config, gateVars, runVars, tables, human
<1>f. StepOK /\ StateOK /\ Safety
  BY TypeParts DEF IInv
<1>u. UNCHANGED <<config, gw, wf, att, gateVars, runVars, tables, human, faults>>
  BY DEF Tick
<1>n. now' \in Nat
  BY <1>f DEF Tick, StateOK
<1>1. StepOK' /\ StateOK'
  BY <1>f, <1>u, <1>n DEF StepOK, StateOK
<1>2. PlaceInv' /\ VerdictInv' /\ RowInv' /\ AnswerInv' /\ (wf = "dispatch" => Cleared)'
  BY <1>u DEF IInv, PlaceInv, VerdictInv, RowInv, AnswerInv, Early, Gate, Waiting, Status, Entry,
     Verdict, Cleared, IsApproved, Sent
<1>3. Safety'
  BY <1>f, <1>u DEF Safety, RunsAreCleared, AnswersAreHonoured, TablesAgree, IsApproved
<1> QED
  BY <1>1, <1>2, <1>3, TypeParts DEF IInv

-----------------------------------------------------------------------------
(* The theorems *)

LEMMA InitInv == Init => IInv
<1> SUFFICES ASSUME Init PROVE IInv
  OBVIOUS
<1> USE DEF Init
<1>1. decision \in DecisionType /\ decision.policy = "none"
  BY DEF DecisionType, Modes, HighRisk
<1>2. row \in RowType /\ row.status = "none" /\ row.outcome = "none"
  BY DEF RowType, RowStatuses, Results
<1>3. resp \in [Responders -> ResponderType]
  BY DEF ResponderType
<1>4. StepOK
  BY GateAssumption DEF StepOK
<1>5. StateOK
  BY <1>1, <1>2, <1>3 DEF StateOK, Results
<1>6. PlaceInv /\ VerdictInv /\ AnswerInv /\ RowInv
  BY <1>1, <1>2 DEF PlaceInv, VerdictInv, AnswerInv, RowInv, Early, Gate, Waiting
<1>7. Safety
  BY <1>2 DEF Safety, RunsAreCleared, AnswersAreHonoured, TablesAgree, HighRisk
<1> QED
  BY <1>4, <1>5, <1>6, <1>7, TypeParts DEF IInv

LEMMA StepInv == IInv /\ [Next]_vars => IInv'
<1> SUFFICES ASSUME IInv, [Next]_vars PROVE IInv'
  OBVIOUS
<1>1. ASSUME Workflow PROVE IInv'
  BY <1>1, ClassifyStep, DetectStep, RouteStep, CostStep, PolicyStep, RequestStep, MarkStep,
     DeadlineSteps, ReceiveStep, VerdictSteps, RefuseStep, AcceptStep, ChildSteps, PersistStep
     DEF Workflow
<1>2. ASSUME ~Workflow PROVE IInv'
  BY <1>2, GatewayStep, RespondStep, KilledStep, ClockStep DEF Next, Finished
<1> QED
  BY <1>1, <1>2

LEMMA Invariance == Spec => []IInv
BY InitInv, StepInv, PTL DEF Spec

\* Every variable keeps its type, for any number of responders and attempts.
THEOREM TypeCorrect == Spec => []TypeOK
<1>1. IInv => TypeOK
  BY DEF IInv
<1> QED
  BY <1>1, Invariance, PTL

\* Nothing gated runs before its request is approved and logged, and nothing risky runs
\* when the policy could not be asked (router.go executeWithApprovalGate).
THEOREM GatedRunsAreCleared == Spec => []RunsAreCleared
<1>1. IInv => RunsAreCleared
  BY DEF IInv, Safety
<1> QED
  BY <1>1, Invariance, PTL

\* A recorded verdict is the answer of a responder to this very request, and a high-risk
\* mode behind the gate is the one that was shown (approval.go, approval_handlers.go).
THEOREM HumansAreHonoured == Spec => []AnswersAreHonoured
<1>1. IInv => AnswersAreHonoured
  BY DEF IInv, Safety
<1> QED
  BY <1>1, Invariance, PTL

\* Approvals, audit log and tasks row do not contradict each other.
THEOREM TablesMatch == Spec => []TablesAgree
<1>1. IInv => TablesAgree
  BY DEF IInv, Safety
<1> QED
  BY <1>1, Invariance, PTL

-----------------------------------------------------------------------------
(* The contract *)

Needed  == IF decision.policy = "none" THEN "open" ELSE IF decision.gated THEN "yes" ELSE "no"
Judged  == IF current = 0 \/ Status = "pending" THEN "open"
           ELSE IF Status = "approved" THEN "granted" ELSE "denied"
Started == ran # "none"

ContractStep ==
    \/ UNCHANGED <<Needed, Judged, Started>>
    \/ Needed = "open" /\ Needed' \in {"yes", "no"} /\ UNCHANGED <<Judged, Started>>
    \/ /\ Needed = "yes" /\ Judged = "open" /\ ~Started
       /\ Judged' \in {"granted", "denied"} /\ UNCHANGED <<Needed, Started>>
    \/ /\ ~Started /\ (Needed = "no" \/ Judged = "granted")
       /\ Started' /\ UNCHANGED <<Needed, Judged>>

\* Steps that concern neither the decision nor the request nor the child.
LEMMA Unseen ==
    ASSUME UNCHANGED <<current, ran>>, decision'.policy = decision.policy,
           decision'.policy = "none" \/ decision'.gated = decision.gated,
           current = 0 \/ approvals' = approvals
    PROVE  ContractStep
BY DEF ContractStep, Needed, Judged, Started, Status

LEMMA DecidingSteps ==
    ASSUME IInv, Classify \/ Detect \/ EvaluateRoutingPolicy \/ EstimateRouteCost
    PROVE  ContractStep
<1>1. UNCHANGED <<current, ran, approvals>>
  BY DEF Classify, Detect, EvaluateRoutingPolicy, EstimateRouteCost, Deciding, gateVars, tables
<1>2. decision \in DecisionType /\ decision.policy = "none"
  BY EarlyFacts DEF Early, Classify, Detect, EvaluateRoutingPolicy, EstimateRouteCost
<1>3. decision'.policy = "none"
  <2>1. CASE Classify
    BY <2>1, <1>2 DEF Classify, DecisionType
  <2>2. CASE Detect
    BY <2>2, <1>2 DEF Detect, DecisionType
  <2>3. CASE EstimateRouteCost
    BY <2>3, <1>2 DEF EstimateRouteCost, DecisionType
  <2>4. CASE EvaluateRoutingPolicy
    BY <2>4, <1>2 DEF EvaluateRoutingPolicy, DecisionType
  <2> QED
    BY <2>1, <2>2, <2>3, <2>4
<1> QED
  BY <1>1, <1>2, <1>3, Unseen

LEMMA PolicyIsAssessment == ASSUME IInv, EvaluateApprovalPolicy PROVE ContractStep
<1>1. UNCHANGED <<current, ran, approvals>>
  BY DEF EvaluateApprovalPolicy, gateVars, tables
<1>2. decision.policy = "none"
  BY EarlyFacts DEF Early, EvaluateApprovalPolicy
<1>3. decision' = decision \/ decision'.policy \in {"spoke", "failed"}
  BY PolicyEnds
<1>4. CASE decision' = decision
  BY <1>1, <1>2, <1>4, Unseen
<1>5. CASE decision'.policy \in {"spoke", "failed"}
  BY <1>1, <1>2, <1>5 DEF ContractStep, Needed, Judged, Started, Status
<1> QED
  BY <1>3, <1>4, <1>5

LEMMA RequestIsUnseen == ASSUME IInv, RequestApproval PROVE ContractStep
<1> PICK stored \in BOOLEAN, reported \in BOOLEAN : RequestApproval!(stored, reported)
  BY DEF RequestApproval
<1>1. current = 0 /\ approvals \in Seq(RequestType)
  BY GateFacts DEF IInv, PlaceInv
<1>2. UNCHANGED <<decision, ran>>
  BY DEF runVars
<1>3. current' = 0 \/ approvals'[current'].status = "pending"
  BY <1>1
<1> QED
  BY <1>1, <1>2, <1>3 DEF ContractStep, Needed, Judged, Started, Status

LEMMA VerdictIsJudgement ==
    ASSUME IInv, RecordApprovalResponse \/ MarkApprovalTimeout
    PROVE  ContractStep
<1>1. PICK v \in Verdicts, next \in Working \union Closed :
         /\ Conclude(v, v, next) /\ Status \in {"pending", v}
         /\ \A i \in 1..Len(audit) : audit[i] = Entry(v)
  <2>1. CASE RecordApprovalResponse
    BY <2>1 DEF RecordApprovalResponse, Verdicts, Verdict, Working, IInv, VerdictInv
  <2>2. CASE MarkApprovalTimeout
    BY <2>2 DEF MarkApprovalTimeout, AfterTimeout, Verdicts, Closed, Working, IInv, VerdictInv
  <2> QED
    BY <2>1, <2>2
<1>2. wf \in {"record", "markTimeout"}
  BY DEF RecordApprovalResponse, MarkApprovalTimeout
<1>3. current \in 1..Len(approvals) /\ approvals'[current].status \in {v, Status}
  BY <1>1, <1>2, ConcludeFacts
<1>4. UNCHANGED <<current, decision, ran>>
  BY <1>1 DEF Conclude, gateVars
<1>5. decision.policy = "spoke" /\ decision.gated /\ ran = "none" /\ current # 0
  BY <1>2, <1>3, GateFacts DEF Gate
<1>6. v # "pending"
  BY DEF Verdicts
<1> QED
  BY <1>1, <1>3, <1>4, <1>5, <1>6 DEF ContractStep, Needed, Judged, Started, Status

LEMMA DispatchIsExecution == ASSUME IInv, StartChild PROVE ContractStep
<1>1. Cleared /\ decision.policy # "none" /\ ran = "none"
  BY DEF IInv, PlaceInv, StartChild
<1>2. /\ UNCHANGED <<current, decision, approvals>> /\ ran' = decision.mode
      /\ decision.mode \in Modes
  BY GateFacts DEF StartChild, gateVars, tables
<1>3. ran' # "none"
  BY <1>2 DEF Modes, HighRisk
<1>4. decision.gated => current # 0 /\ Status = "approved"
  BY <1>1 DEF Cleared, IsApproved, Status
<1> QED
  BY <1>1, <1>2, <1>3, <1>4 DEF ContractStep, Needed, Judged, Started, Status

LEMMA StepsKeepContract == ASSUME IInv, [Next]_vars PROVE ContractStep
<1>1. CASE Accept
  <2>1. decision \in DecisionType
    BY EarlyFacts
  <2>2. decision'.policy = decision.policy /\ decision'.gated = decision.gated
    BY <1>1, <2>1 DEF Accept, DecisionType
  <2> QED
    BY <1>1, <2>2, Unseen DEF Accept, gateVars, tables
<1>2. CASE \/ MarkWaiting \/ CheckDeadline \/ ReceiveSignal \/ TimerFires \/ Refuse \/ Withhold
           \/ ChildReturns \/ Persist
  BY <1>2, Unseen DEF MarkWaiting, CheckDeadline, ReceiveSignal, TimerFires, Refuse, Withhold,
     ChildReturns, Persist, gateVars, runVars, tables
<1>3. CASE \/ ExecuteWorkflow \/ InsertRow \/ Respond \/ Tick \/ ExecutionTimesOut \/ UNCHANGED vars
  BY <1>3, Unseen DEF ExecuteWorkflow, InsertRow, Respond, CheckApproval, FindPending, SendSignal,
     HumanStep, Tick, ExecutionTimesOut, vars, gateVars, runVars, tables
<1> QED
  BY <1>1, <1>2, <1>3, DecidingSteps, PolicyIsAssessment, RequestIsUnseen, VerdictIsJudgement,
     DispatchIsExecution DEF Next, Workflow, Finished

\* Seen from outside, the gate implements ApprovalContract: it asks, takes one
\* verdict, and executes only what needs none or was granted.
THEOREM GateImplementsContract == Spec => ImplementsContract
<1>1. Init => Contract!Init
  BY DEF Init, Contract!Init
<1>2. ASSUME IInv, [Next]_vars
      PROVE  [Contract!Next]_<<Needed, Judged, Started>>
  BY <1>2, StepsKeepContract
     DEF ContractStep, Contract!Next, Contract!Assess, Contract!Judge, Contract!Execute,
         Needed, Judged, Started, Status
<1>3. IInv /\ [Next]_vars => [Contract!Next]_<<Needed, Judged, Started>>
  BY <1>2
<1> QED
  BY <1>1, <1>3, Invariance, PTL DEF Spec, ImplementsContract, Contract!Spec, Needed, Judged, Started, Status
=============================================================================

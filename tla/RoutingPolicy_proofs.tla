------------------------ MODULE RoutingPolicy_proofs ------------------------
(***************************************************************************)
(* For every set of requests, every limit and every bound on attempts:     *)
(* types, that nothing the user has not allowed executes, and that the     *)
(* plan is one the rules admit.                                            *)
(***************************************************************************)
EXTENDS RoutingPolicy, TLAPS

-----------------------------------------------------------------------------
(* The operators the decision is built from.                               *)

\* What a disabled mode gives way to: research_v1 only stands in for
\* research_v2, and no stand-in is the sandbox, ReAct or the DAG.
LEMMA StandIns ==
    ASSUME NEW m \in Scored
    PROVE  /\ WhenDisabled(m) \in {"research_v1", "reflection", "tree_of_thoughts", "mode_disabled"}
           /\ WhenDisabled(m) = "research_v1" => m = "research_v2"
  <1>1. CASE m = "research_v2"
    BY <1>1 DEF WhenDisabled
  <1>2. CASE m = "reflection"
    BY <1>2 DEF WhenDisabled
  <1>3. CASE m = "tree_of_thoughts"
    BY <1>3 DEF WhenDisabled
  <1>4. CASE m = "debate"
    BY <1>4 DEF WhenDisabled
  <1>5. CASE m \notin {"research_v2", "reflection", "tree_of_thoughts", "debate"}
    BY <1>5 DEF WhenDisabled
  <1> QED BY <1>1, <1>2, <1>3, <1>4, <1>5

\* The rival of a keyword's mode is a mode with a score.
LEMMA Rivals == ASSUME NEW m \in Advanced PROVE Alternative(m) \in Scored
  <1>1. CASE m = "sandbox_execution"
    BY <1>1 DEF Alternative, Scored
  <1>2. CASE m = "research_v2"
    BY <1>2 DEF Alternative, Scored
  <1>3. CASE m = "tree_of_thoughts"
    BY <1>3 DEF Alternative, Scored
  <1>4. CASE m = "debate"
    BY <1>4 DEF Alternative, Scored
  <1>5. CASE m = "reflection"
    BY <1>5 DEF Alternative, Scored
  <1>6. CASE m \notin {"sandbox_execution", "research_v2", "tree_of_thoughts", "debate", "reflection"}
    BY <1>6 DEF Alternative, Scored
  <1> QED BY <1>1, <1>2, <1>3, <1>4, <1>5, <1>6

\* What the resolution lets through the user has allowed: a mode that is not
\* blocked is both needed and allowed.
LEMMA ResolutionAllowed ==
    ASSUME NEW m \in Scored
    PROVE  LET e == Guarded(Resolved(m)) IN
           /\ e \in Scored \cup Unscored
           /\ e = "sandbox_execution" => "sandbox" \in allow
           /\ e \in {"research_v1", "research_v2"} => "research" \in allow
           /\ e \in {"react_tool", "dag_workflow"} => "tools" \in allow
  <1>1. /\ "research" \in Granted => "research" \in allow
        /\ "tools" \in Granted => "tools" \in allow
    BY DEF Granted, Allowable
  <1>2. CASE UserBlocks(m)
    BY <1>2 DEF Resolved, Fallback, Guarded, Scored
  <1>3. CASE ~UserBlocks(m) /\ m \in Flagged \ enabled
    <2>1. Resolved(m) = WhenDisabled(m)
      BY <1>3 DEF Resolved, Fallback
    <2>2. m = "research_v2" => "research" \in allow
      BY <1>1, <1>3 DEF UserBlocks
    <2> QED BY <2>1, <2>2, StandIns DEF Guarded, Scored, Unscored
  <1>4. CASE ~UserBlocks(m) /\ m \notin Flagged \ enabled
    <2>1. Resolved(m) = m
      BY <1>4 DEF Resolved
    <2>2. /\ m = "research_v2" => "research" \in allow
          /\ m \in {"react_tool", "dag_workflow"} => "tools" \in allow
      BY <1>1, <1>4 DEF UserBlocks
    <2> QED BY <2>1, <2>2 DEF Guarded, Scored, Unscored
  <1> QED BY <1>2, <1>3, <1>4

-----------------------------------------------------------------------------
(* The inductive invariant.                                                *)

\* The request is one the gateway passes on.
Asked == keyword \in Keywords /\ wish \in Wishes

\* Once planned there is a mode to run, and until the arbiter has spoken it is
\* the heuristic's.
HasPlan ==
    /\ stage \in {"arbitrate", "resolve", "audit", "done", "error"} => planned \in Scored
    /\ stage = "arbitrate" => planned = pick

\* Every attempt of the audit leaves at most one row.
RowsOfAttempts ==
    /\ tries < MaxAttempts
    /\ stage = "audit" => audits <= tries
    /\ stage \notin {"audit", "done"} => audits = 0

IInv == TypeOK /\ Asked /\ HasPlan /\ RowsOfAttempts /\ BlockedNeverExecutes /\ PlanIsAdmitted

LEMMA InitInv == Init => IInv
  BY InputAssumption, RetryAssumption
  DEF Init, IInv, TypeOK, Asked, HasPlan, RowsOfAttempts, BlockedNeverExecutes, PlanIsAdmitted,
      Scored, Unscored, Capabilities

\* Attempts that are counted stay within the policy.
LEMMA AttemptsCounted ==
    ASSUME IInv, Succeeds \/ Retries \/ GivesUp
    PROVE  /\ tries' \in 0..MaxAttempts /\ tries' < MaxAttempts /\ faults' \in 0..MaxFaults
           /\ Retries => tries' = tries + 1
  BY RetryAssumption DEF IInv, TypeOK, RowsOfAttempts, Succeeds, Retries, GivesUp, Lost

LEMMA PlanStep ==
    ASSUME IInv, PlanByKeyword \/ PlanByLegacy \/ PlanByScore
    PROVE  IInv'
  <1> USE DEF IInv, HasPlan, RowsOfAttempts, BlockedNeverExecutes, PlanIsAdmitted
  <1>1. CASE PlanByKeyword
    <2>1. keyword \in Advanced /\ keyword \in Scored
      BY <1>1, InputAssumption DEF PlanByKeyword, Asked, Advanced
    <2>2. Alternative(keyword) \in Scored
      BY <2>1, Rivals
    <2>3. TypeOK'
      BY <1>1, <2>1, <2>2 DEF PlanByKeyword, TypeOK
    <2>4. Asked'
      BY <1>1 DEF PlanByKeyword, Asked, request
    <2> QED BY <1>1, <2>1, <2>3, <2>4 DEF PlanByKeyword, request
  <1>2. CASE PlanByLegacy
    <2>1. PICK m \in LegacyModes : pick' = m /\ planned' = m
      BY <1>2 DEF PlanByLegacy
    <2>2. m \in Scored
      BY <2>1 DEF LegacyModes, Scored
    <2>3. TypeOK'
      BY <1>2, <2>1, <2>2 DEF PlanByLegacy, TypeOK
    <2>4. Asked'
      BY <1>2 DEF PlanByLegacy, Asked, request
    <2> QED BY <1>2, <2>1, <2>2, <2>3, <2>4 DEF PlanByLegacy, request
  <1>3. CASE PlanByScore
    <2>1. PICK m \in Scored : BestOfRanking(m) /\ pick' = m /\ planned' = m
      BY <1>3 DEF PlanByScore
    <2>2. TypeOK'
      BY <1>3, <2>1 DEF PlanByScore, TypeOK
    <2>3. planned' \in unfit' => planned' = "direct_answer" /\ unfit' = Scored
      BY <1>3, <2>1 DEF PlanByScore, BestOfRanking
    <2>4. Asked'
      BY <1>3 DEF PlanByScore, Asked, request
    <2> QED BY <1>3, <2>1, <2>2, <2>3, <2>4 DEF PlanByScore, request
  <1> QED BY <1>1, <1>2, <1>3

LEMMA ArbiterStep ==
    ASSUME IInv, SkipArbiter \/ ArbiterFails \/ ArbiterAnswers
    PROVE  IInv'
  <1> USE DEF IInv, HasPlan, RowsOfAttempts, BlockedNeverExecutes, PlanIsAdmitted
  <1>1. CASE SkipArbiter
    BY <1>1 DEF SkipArbiter, TypeOK, Asked, request, plan
  <1>2. CASE ArbiterFails
    BY <1>2 DEF ArbiterFails, KeepPick, TypeOK, Asked, request, plan
  <1>3. CASE ArbiterAnswers
    <2>1. \/ planned' = planned
          \/ planned' \in menu /\ planned' \notin unfit
      BY <1>3 DEF ArbiterAnswers, TakeTop
    <2>2. planned' \in Scored
      BY <1>3, <2>1 DEF ArbiterAnswers, TypeOK
    <2>3. TypeOK'
      BY <1>3, <2>2 DEF ArbiterAnswers, TypeOK, plan
    <2> QED BY <1>3, <2>1, <2>2, <2>3 DEF ArbiterAnswers, Asked, request, plan
  <1> QED BY <1>1, <1>2, <1>3

LEMMA OtherStep ==
    ASSUME IInv, Detect \/ Resolve \/ EvaluationLost \/ Audit \/ UNCHANGED vars
    PROVE  IInv'
  <1> USE DEF IInv, HasPlan, RowsOfAttempts, BlockedNeverExecutes, PlanIsAdmitted
  <1>1. CASE Detect
    <2>1. Succeeds \/ Retries \/ GivesUp
      BY <1>1 DEF Detect
    <2>2. needs' \in SUBSET Capabilities
      BY <1>1, InputAssumption DEF Detect, Asked, TypeOK
    <2> QED BY <1>1, <2>1, <2>2, AttemptsCounted DEF Detect, TypeOK, Asked, request, plan
  <1>2. CASE Resolve
    <2>1. /\ tries' = 0 /\ tries' < MaxAttempts /\ faults' = faults
          /\ tries' \in 0..MaxAttempts
      BY <1>2, RetryAssumption DEF Resolve, Succeeds
    <2>2. /\ executed' \in Scored \cup Unscored
          /\ BlockedNeverExecutes'
      BY <1>2, ResolutionAllowed DEF Resolve, request
    <2>3. TypeOK'
      BY <1>2, <2>1, <2>2 DEF Resolve, TypeOK, plan
    <2> QED BY <1>2, <2>1, <2>2, <2>3 DEF Resolve, Asked, request, plan
  <1>3. CASE EvaluationLost
    <2>1. Retries \/ GivesUp
      BY <1>3 DEF EvaluationLost
    <2> QED BY <1>3, <2>1, AttemptsCounted DEF EvaluationLost, TypeOK, Asked, request, plan
  <1>4. CASE Audit
    <2>1. Succeeds \/ Retries \/ GivesUp
      BY <1>4 DEF Audit
    <2>2. /\ audits' \in 0..MaxAttempts
          /\ stage' = "audit" => audits' <= tries'
          /\ stage' \in {"audit", "done"}
      BY <1>4, <2>1, AttemptsCounted, RetryAssumption DEF Audit, TypeOK
    <2> QED BY <1>4, <2>1, <2>2, AttemptsCounted DEF Audit, TypeOK, Asked, request, plan
  <1>5. CASE UNCHANGED vars
    BY <1>5 DEF vars, request, plan, TypeOK, Asked
  <1> QED BY <1>1, <1>2, <1>3, <1>4, <1>5

\* IInv is inductive: a mode is planned before it is resolved, and only the
\* resolution decides what executes.
THEOREM Inductive == Spec => []IInv
  <1>1. ASSUME IInv, [Next]_vars PROVE IInv'
    BY <1>1, PlanStep, ArbiterStep, OtherStep DEF Next, Decided
  <1> QED BY InitInv, <1>1, PTL DEF Spec

\* Every variable keeps its type, the rows of the audit included.
THEOREM TypeCorrect == Spec => []TypeOK
  <1>1. IInv => TypeOK
    BY DEF IInv
  <1> QED BY <1>1, Inductive, PTL

\* Whatever planned the mode - keyword, score, arbiter or fallback - nothing that
\* the user has not allowed is executed.
THEOREM BlockedStaysOut == Spec => []BlockedNeverExecutes
  <1>1. IInv => BlockedNeverExecutes
    BY DEF IInv
  <1> QED BY <1>1, Inductive, PTL

\* A failing arbiter changes nothing, and a rejected mode is only planned when
\* every mode is rejected.
THEOREM PlanAdmitted == Spec => []PlanIsAdmitted
  <1>1. IInv => PlanIsAdmitted
    BY DEF IInv
  <1> QED BY <1>1, Inductive, PTL
=============================================================================

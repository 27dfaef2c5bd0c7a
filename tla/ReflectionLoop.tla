--------------------------- MODULE ReflectionLoop ---------------------------
(***************************************************************************)
(* ReflectionWorkflow: a draft is evaluated and, under the threshold,      *)
(* revised, at most MaxIterations times.  An evaluation or a revision      *)
(* whose two attempts fail ends the loop with the draft it has; a lost     *)
(* first draft ends the workflow with a status and without an error.       *)
(***************************************************************************)
EXTENDS Integers, Sequences

CONSTANTS
    MaxIterations,
    Thresholds       \* thresholds a caller asks for; the router asks for 75

ASSUME ReflectionAssumption == MaxIterations \in Int /\ Thresholds \subseteq Int

VARIABLES
    review,          \* "draft", "evaluate", "revise", "done" or "failed"
    threshold,       \* MinScoreThreshold, in hundredths
    draft,           \* currentDraft, as the number of revisions behind it
    score,           \* evalResult.Score of the pass
    iterations,      \* the iterations recorded
    reflected        \* Status of the result, "none" before it

reflectionVars == <<review, threshold, draft, score, iterations, reflected>>

ReflectionInit ==
    /\ threshold \in Thresholds
    /\ review = "draft" /\ draft = 0 /\ score = 0 /\ iterations = <<>> /\ reflected = "none"

GenerateInitialDraft ==
    /\ review = "draft"
    /\ \/ review' = "evaluate" /\ UNCHANGED reflected
       \/ review' = "failed" /\ reflected' = "error"
    /\ UNCHANGED <<threshold, draft, score, iterations>>

\* EvaluateDraft gives 0.55 whatever the critique says.
EvaluationScore == 55

LastScore(passes) == IF passes = <<>> THEN 0 ELSE passes[Len(passes)].score

\* No pass recorded counts as success.
Status(passes) ==
    IF passes # <<>> /\ LastScore(passes) < threshold THEN "max_iterations_reached" ELSE "ok"

Finish(passes) == review' = "done" /\ iterations' = passes /\ reflected' = Status(passes)

\* Mutant: recorded after the draft was replaced.
PassOfRevision(given, revised) ==
    [draft |-> IF revised THEN draft + 1 ELSE draft, score |-> given, revised |-> revised]

Pass(given, revised) == [draft |-> draft, score |-> given, revised |-> revised]

EvaluateDraft ==
    /\ review = "evaluate"
    /\ score' = EvaluationScore
    /\ IF EvaluationScore >= threshold
          THEN Finish(Append(iterations, Pass(EvaluationScore, FALSE)))
          ELSE review' = "revise" /\ UNCHANGED <<iterations, reflected>>
    /\ UNCHANGED <<threshold, draft>>

EvaluateLost ==
    /\ review = "evaluate"
    /\ Finish(iterations)
    /\ UNCHANGED <<threshold, draft, score>>

ReviseDraft ==
    /\ review = "revise"
    /\ draft' = draft + 1
    /\ LET passes == Append(iterations, Pass(score, TRUE)) IN
          IF Len(passes) < MaxIterations
             THEN review' = "evaluate" /\ iterations' = passes /\ UNCHANGED reflected
             ELSE Finish(passes)
    /\ UNCHANGED <<threshold, score>>

\* Mutant: the loop goes on without recording the pass.
ReviseAgain ==
    /\ review = "revise"
    /\ review' = "evaluate"
    /\ UNCHANGED <<threshold, draft, score, iterations, reflected>>

ReviseLost ==
    /\ review = "revise"
    /\ Finish(Append(iterations, Pass(score, FALSE)))
    /\ UNCHANGED <<threshold, draft, score>>

ReflectionNext ==
    GenerateInitialDraft \/ EvaluateDraft \/ EvaluateLost \/ ReviseDraft \/ ReviseLost

-----------------------------------------------------------------------------
ReflectionTypeOK ==
    /\ review \in {"draft", "evaluate", "revise", "done", "failed"}
    /\ threshold \in Thresholds /\ draft \in 0 .. MaxIterations /\ score \in {0, EvaluationScore}
    /\ \A i \in DOMAIN iterations : iterations[i].draft \in 0 .. MaxIterations
    /\ reflected \in {"none", "ok", "max_iterations_reached", "error"}

\* The record of the passes describes the answer given: the passes are of
\* successive drafts, every pass but the last was under the threshold and
\* revised, an "ok" answer is the very draft that passed (or was never
\* evaluated), and any other is the last draft evaluated or its revision.
PassesExplainAnswer ==
    LET n == Len(iterations) IN
    /\ \A i \in 1 .. n : iterations[i].draft = i - 1
    /\ \A i \in 1 .. n - 1 : iterations[i].score < threshold /\ iterations[i].revised
    /\ review = "done" /\ n > 0 =>
          /\ draft = iterations[n].draft + (IF iterations[n].revised THEN 1 ELSE 0)
          /\ reflected = "ok" <=> (~iterations[n].revised /\ iterations[n].score >= threshold)
=============================================================================

---------------------------- MODULE DebateRounds ----------------------------
(***************************************************************************)
(* DebateWorkflow: in every round pro and con argue, and a moderator, when *)
(* there is one, gives a verdict; a verdict for a side ends the debate     *)
(* early when consensus is required, otherwise a last verdict closes it.   *)
(* A debater whose two attempts fail is replaced by a placeholder, a       *)
(* moderator is skipped, and a failed last verdict fails the workflow.     *)
(***************************************************************************)
EXTENDS Integers, Sequences

CONSTANTS MaxDebateRounds, Moderated, Consensus

VARIABLES
    floor,           \* who speaks next, or how the debate ended
    debate,          \* its configuration: rounds, moderator, require
    rounds,          \* rounds closed
    proTurn,         \* lastProRef
    conTurn,         \* lastConRef
    roundVerdict,    \* judgeVerdict of the round, "none" without one
    position,        \* finalPosition
    consensusReached,
    verdictOf,       \* finalVerdictRef: the call of the judge it names, 0 before one
    winner,          \* winningTurnRef
    debateCalls      \* llmCalls

debateVars == <<floor, debate, rounds, proTurn, conTurn, roundVerdict, position,
                consensusReached, verdictOf, winner, debateCalls>>

Sides == {"pro", "con"}
NoTurn == [side |-> "none", round |-> 0, ok |-> FALSE]
Turn(side, ok) == [side |-> side, round |-> rounds + 1, ok |-> ok]

\* The router asks for one or two rounds with a moderator; a caller of the
\* workflow may ask for others.
DebateInit ==
    /\ debate \in [rounds : 1 .. MaxDebateRounds, moderator : Moderated, require : Consensus]
    /\ floor = "pro" /\ rounds = 0 /\ proTurn = NoTurn /\ conTurn = NoTurn
    /\ roundVerdict = "none" /\ position = "tie" /\ consensusReached = FALSE
    /\ verdictOf = 0 /\ winner = NoTurn /\ debateCalls = 0

\* A failed debater leaves a turn in its name with an error reference.
GenerateArguments ==
    /\ floor \in Sides
    /\ \E ok \in BOOLEAN :
          /\ debateCalls' = IF ok THEN debateCalls + 1 ELSE debateCalls
          /\ IF floor = "pro" THEN proTurn' = Turn("pro", ok) /\ UNCHANGED conTurn
                              ELSE conTurn' = Turn("con", ok) /\ UNCHANGED proTurn
    /\ floor' = CASE floor = "pro" -> "con"
                  [] floor = "con" /\ debate.moderator -> "moderator"
                  [] OTHER -> "close"
    /\ roundVerdict' = "none"
    /\ UNCHANGED <<debate, rounds, position, consensusReached, verdictOf, winner>>

\* A reply that cannot be parsed becomes a verdict of the heuristics, so an
\* answered judge always decides something.
Verdicts == Sides \cup {"tie"}

\* Mutant: the side is not looked at.
TurnOfPro(verdict) == IF verdict = "tie" THEN winner ELSE proTurn

\* A tie leaves the winning turn as it was.
TurnOf(verdict) ==
    CASE verdict = "pro" -> proTurn [] verdict = "con" -> conTurn [] OTHER -> winner

JudgeRound ==
    /\ floor = "moderator"
    /\ floor' = "close"
    /\ \/ \E v \in Verdicts :
            /\ roundVerdict' = v
            /\ winner' = TurnOf(v)
            /\ verdictOf' = rounds + 1
            /\ debateCalls' = debateCalls + 1
       \/ UNCHANGED <<roundVerdict, winner, verdictOf, debateCalls>>
    /\ UNCHANGED <<debate, rounds, proTurn, conTurn, position, consensusReached>>

EarlyConsensus == debate.require /\ roundVerdict \in Sides

\* The round is recorded; early consensus ends the debate without a last judge.
CloseRound ==
    /\ floor = "close"
    /\ rounds' = rounds + 1
    /\ IF EarlyConsensus
          THEN floor' = "done" /\ position' = roundVerdict /\ consensusReached' = TRUE
          ELSE /\ floor' = IF rounds + 1 < debate.rounds THEN "pro" ELSE "judge"
               /\ UNCHANGED <<position, consensusReached>>
    /\ UNCHANGED <<debate, proTurn, conTurn, roundVerdict, verdictOf, winner, debateCalls>>

FinalJudge ==
    /\ floor = "judge"
    /\ \E v \in Verdicts :
          /\ position' = v
          /\ winner' = TurnOf(v)
          /\ consensusReached' = (v # "tie")
    /\ verdictOf' = rounds + 1
    /\ debateCalls' = debateCalls + 1
    /\ floor' = "done"
    /\ UNCHANGED <<debate, rounds, proTurn, conTurn, roundVerdict>>

FinalJudgeLost ==
    /\ floor = "judge"
    /\ floor' = "error"
    /\ UNCHANGED <<debate, rounds, proTurn, conTurn, roundVerdict, position,
                   consensusReached, verdictOf, winner, debateCalls>>

DebateNext == GenerateArguments \/ JudgeRound \/ CloseRound \/ FinalJudge \/ FinalJudgeLost

-----------------------------------------------------------------------------
DebateTypeOK ==
    /\ floor \in Sides \cup {"moderator", "close", "judge", "done", "error"}
    /\ rounds \in 0 .. debate.rounds
    /\ {proTurn, conTurn, winner} \subseteq
          [side : Sides \cup {"none"}, round : 0 .. debate.rounds, ok : BOOLEAN]
    /\ roundVerdict \in Verdicts \cup {"none"} /\ position \in Verdicts
    /\ verdictOf \in 0 .. debate.rounds + 1 /\ debateCalls \in Nat

\* The parts of the result agree: a debate decided for a side names that side's
\* last turn as the winning one and the verdict that decided it, the last one
\* asked for; consensus is exactly a decision.  The winning turn, the position
\* and the verdict are set in four places over several rounds.
WinnerAgrees ==
    floor = "done" =>
        /\ consensusReached = (position \in Sides)
        /\ verdictOf = IF EarlyConsensus THEN rounds ELSE rounds + 1
        /\ position \in Sides => winner = IF position = "pro" THEN proTurn ELSE conTurn
=============================================================================

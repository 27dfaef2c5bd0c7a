--------------------------- MODULE MultiAgentTeamMC ---------------------------
EXTENDS MultiAgentTeam

\* No limit, one that the researcher's prompt uses up or exceeds, one of exactly the
\* researcher and the prompt of the critic (the bound of the overshoot is reached),
\* and one of all three.
SomeTotals      == {0, 1, 9, 16}
SomeCompletions == {0, 2}
SomeEstimates   == {1, 3}
SomeOverheads   == {1}
=============================================================================

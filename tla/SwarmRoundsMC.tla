---------------------------- MODULE SwarmRoundsMC ----------------------------
(* Small swarms for TLC. *)
EXTENDS SwarmRounds

\* No valid count (three by default), one worker without peers, a researcher
\* with its hand-off target, four workers: one message for the lead.
MCCounts == {0, 1, 2, 4}
MCRounds == {0, 1}
=============================================================================

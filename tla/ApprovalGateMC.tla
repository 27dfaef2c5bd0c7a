---------------------------- MODULE ApprovalGateMC ----------------------------
(* Small instances of ApprovalGate for TLC. *)
EXTENDS ApprovalGate, TLC

Plain == [complexity |-> "low", risk |-> "low", sandbox |-> FALSE,
          costly |-> FALSE, allowSandbox |-> TRUE]

\* One query for each way to be gated, one that is not, and a plain high risk.
MCQueries == {Plain,
              [Plain EXCEPT !.costly = TRUE],
              [Plain EXCEPT !.sandbox = TRUE],
              [Plain EXCEPT !.complexity = "mid", !.risk = "high"]}
GatedQueries == {[Plain EXCEPT !.costly = TRUE], [Plain EXCEPT !.sandbox = TRUE]}

Yes == [approved |-> TRUE, change |-> "nil"]
No  == [approved |-> FALSE, change |-> "nil"]

\* Accept, reject, reject with a suggestion, accept with another mode.
MCAnswers == {Yes, No, [approved |-> FALSE, change |-> "addons"],
              [approved |-> TRUE, change |-> "research_v2"],
              [approved |-> TRUE, change |-> "direct_answer"]}
RaceAnswers == MCAnswers \ {[approved |-> FALSE, change |-> "addons"]}
ShortAnswers == {Yes, No}

\* Responders differ in nothing but their names.
AnyResponder == Permutations(Responders)
=============================================================================

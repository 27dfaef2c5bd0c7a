--------------------------- MODULE ApprovalContract ---------------------------
(***************************************************************************)
(* What the approval gate promises, without tables, signals or clocks: an  *)
(* execution is first found to need a human verdict or not; a needed       *)
(* verdict is given once; and nothing is executed before the need is       *)
(* known, nor against it.                                                  *)
(***************************************************************************)
VARIABLES needed, verdict, executed

Init == needed = "open" /\ verdict = "open" /\ executed = FALSE

Assess == /\ needed = "open"
          /\ needed' \in {"yes", "no"}
          /\ UNCHANGED <<verdict, executed>>

Judge == /\ needed = "yes" /\ verdict = "open" /\ ~executed
         /\ verdict' \in {"granted", "denied"}
         /\ UNCHANGED <<needed, executed>>

Execute == /\ ~executed
           /\ needed = "no" \/ verdict = "granted"
           /\ executed' = TRUE
           /\ UNCHANGED <<needed, verdict>>

Next == Assess \/ Judge \/ Execute

Spec == Init /\ [][Next]_<<needed, verdict, executed>>
=============================================================================

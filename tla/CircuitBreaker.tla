---------------------------- MODULE CircuitBreaker ----------------------------
(***************************************************************************)
(* The breaker of the vector store client, shared by every activity of a   *)
(* worker.  A call asks Allow, runs without the lock and records its       *)
(* result later: what it records may be about a circuit that has changed.  *)
(***************************************************************************)
EXTENDS Naturals

CONSTANT MaxFailures  \* cbMaxFailures: 3

ASSUME BreakerAssumption == MaxFailures \in Nat \ {0}

VARIABLES
    circuit,   \* cb.state
    failures,  \* cb.failures
    cooled     \* openTimeout has passed since the circuit was last opened

breakerVars == <<circuit, failures, cooled>>

BreakerInit == circuit = "closed" /\ failures = 0 /\ cooled = FALSE

MayPass == circuit # "open" \/ cooled

Allow ==
    /\ MayPass
    /\ circuit' = IF circuit = "open" THEN "half_open" ELSE circuit
    /\ UNCHANGED <<failures, cooled>>

\* Any success closes the circuit, also one of a call that was let through
\* before the circuit opened.
RecordSuccess == circuit' = "closed" /\ failures' = 0 /\ cooled' = FALSE

\* Mutant: the circuit opens one failure late.
AboveLimit(n) == n > MaxFailures

AtLimit(n) == n >= MaxFailures

RecordFailure ==
    /\ failures' = failures + 1
    /\ IF AtLimit(failures + 1) THEN circuit' = "open" /\ cooled' = FALSE
       ELSE UNCHANGED <<circuit, cooled>>

\* The clock: openTimeout passes.
OpenTimeout ==
    /\ circuit = "open" /\ ~cooled /\ cooled' = TRUE
    /\ UNCHANGED <<circuit, failures>>

BreakerTypeOK ==
    /\ circuit \in {"closed", "open", "half_open"} /\ failures \in Nat /\ cooled \in BOOLEAN
=============================================================================

----------------------- MODULE MultiAgentTeam_proofs -----------------------
(***************************************************************************)
(* For every set of limits and estimates and any number of lost attempts:  *)
(* types, admission before every call, the bound of the overshoot, the     *)
(* agreement of the accounts, and the finality of the row.                 *)
(***************************************************************************)
EXTENDS MultiAgentTeam, TLAPS

-----------------------------------------------------------------------------
(* The inductive invariant, by what a part of the run knows of another.    *)

Asking  == {"session", "planner", "estimate", "admit", "tool", "call"}
Failing == {"fail_row", "fail_exec"}

\* What each role's answers and the tool results cost.
Charged == Sum3(used) + ToolTokens * merged

\* The stores are closed in order, and only a saved answer is called completed.
Closing ==
    /\ stage \in Asking \cup {"usage", "panic", "save"} => verdict = "none"
    /\ stage \in Asking \cup {"usage", "panic"} => closed = "never"
    /\ stage = "record" => verdict = "completed"
    /\ stage \in Failing => verdict \in {"failed", "budget_exceeded"}
    /\ stage \in {"announce", "done"} => verdict \in Terminal
    /\ stage \notin {"announce", "done"} => announced = "none"
    /\ stage # "done" => status = "none"
    /\ announced \in {"none", verdict} /\ status \in {"none", verdict}
    /\ exec = "completed" => verdict = "completed"

\* What the gateway's mark means for the row: without it nothing is completed, and
\* with it the row is running until SaveResult or SaveFailure.
Marks ==
    /\ closed \in {"never", "starting", gateway}
    /\ row = "completed" => closed = "marked"
    /\ closed = "marked" => gateway = "marked"
    /\ row = "running" => gateway = "marked"
    /\ gateway = "marked" /\ stage = "save" => row \in {"running", "completed"}
    /\ closed = "never" => \/ gateway \in {"starting", "unmarked"} /\ row = "pending"
                           \/ gateway = "marked" /\ row = "running"
                           \/ gateway = "failed" /\ row = "failed"
    /\ verdict = "completed" /\ closed = "marked" => row = "completed"

\* With nothing lost what is announced is the verdict, and so is what a failed run
\* leaves on its row.
NothingLost == faults = 0 =>
    /\ stage \in {"save", "fail_row"} => closed = "never"
    /\ stage \in {"fail_exec", "announce", "done"} /\ verdict # "completed"
         /\ gateway = closed /\ gateway # "failed" => row = verdict
    /\ stage = "done" => announced = verdict /\ status = verdict

\* The account of the roles that have answered, in their order.
Accounts ==
    /\ \A r \in Roles : r > role \/ (r = role /\ stage \in Asking) => used[r] = 0 /\ ledger[r] = Nil
    /\ \A r \in Roles : ledger[r] \in {Nil, used[r]}
    /\ \A r \in Roles : r < role => calls[r] > 0
    /\ stage = "usage" => calls[role] > 0
    /\ stage = "save" => \A r \in Roles : calls[r] > 0
    /\ stage \in Asking \cup {"usage"} => merged <= role - 1
    /\ stage \in Asking \cup {"save"} => acc = Charged
    /\ stage = "usage" => acc + used[role] = Charged
    /\ row = "completed" => rowTotal = Charged /\ \A r \in Roles : calls[r] > 0

Bound(r) == IF r = 1 THEN Limit ELSE total

\* A budget output is one of this role and this prompt; the researcher's output is
\* no longer than an answer with a tool result.
Admission ==
    /\ stage = "admit" => ~hasBudget /\ est \in Nat
    /\ stage \in {"tool", "call", "usage"} /\ hasBudget =>
          /\ est \in Nat /\ allowed <= Completion
          /\ acc + est + allowed <= Limit + Completion
          /\ fit[role] # Nil /\ fit[role] <= Bound(role)
    /\ output[1] <= Completion + ToolText
    /\ stage = "usage" =>
          acc + used[role] <= Limit + 2 * Completion + ToolText + MaxOverhead

IInv ==
    /\ TypeOK /\ Closing /\ Marks /\ NothingLost /\ Accounts /\ Admission
    /\ NoUnadmittedCall /\ OvershootBounded

\* The limits of a run are numbers, and no request raises them.
LEMMA Limits ==
    ASSUME TypeOK
    PROVE  /\ total \in Int /\ cap \in Int /\ Limit \in Int /\ Completion \in Nat \ {0}
           /\ total <= Limit /\ Limit >= 0 /\ ToolText \in Nat /\ (cap > 0 => Completion = cap)
  BY BudgetAssumption DEF TypeOK, Limit, Completion

LEMMA InitInv == Init => IInv
  <1> SUFFICES ASSUME Init PROVE IInv
    OBVIOUS
  <1>1. TypeOK
    <2>1. NoRecord \in [Roles -> Nat \union {Nil}] /\ NoTokens \in [Roles -> Nat]
      BY DEF NoRecord, NoTokens
    <2>2. 0 \in 0..(MaxAttempts - 1) /\ 0 \in 0..MaxFaults /\ 1 \in Roles /\ 0 \in 0..3
      BY RetryAssumption DEF Roles
    <2>3. stage \in Stages /\ est \in Nat \union {Nil} /\ allowed \in Int /\ acc \in Nat
          /\ gateway \in GatewayStates
      BY DEF Init, Stages, GatewayStates
    <2> QED
      BY <2>1, <2>2, <2>3 DEF Init, TypeOK, Terminal
  <1>2. Charged = 0
    BY BudgetAssumption DEF Init, Charged, Sum3, NoTokens, Roles
  <1> QED
    BY <1>1, <1>2, Limits, BudgetAssumption
    DEF Init, IInv, Closing, Marks, NothingLost, Accounts, Admission, NoUnadmittedCall, OvershootBounded,
        Asking, Failing, Roles, Nil, NoRecord, NoTokens

-----------------------------------------------------------------------------
(* One attempt                                                             *)

LEMMA Attempts ==
    ASSUME TypeOK
    PROVE  /\ Succeeds => tries' \in 0..(MaxAttempts - 1) /\ faults' = faults
           /\ Retries \/ GivesUp => /\ tries' \in 0..(MaxAttempts - 1)
                                    /\ faults' \in 0..MaxFaults /\ faults' # 0
  BY RetryAssumption DEF TypeOK, Succeeds, Retries, GivesUp, Lost

\* What the request fixes stays fixed.
LEMMA Fixed == ASSUME UNCHANGED request PROVE Limit' = Limit /\ Completion' = Completion
  BY DEF request, Limit, Completion

LEMMA Stutter == ASSUME IInv, UNCHANGED vars PROVE IInv'
  BY DEF IInv, vars, request, budget, stores, ends, history, TypeOK, Closing, Marks, NothingLost,
     Accounts, Admission, NoUnadmittedCall, OvershootBounded, Charged, Sum3, Limit, Completion,
     Bound

\* An attempt that only costs itself.
LEMMA TryAgainStep == ASSUME IInv, NEW s, TryAgain(s) PROVE IInv'
  <1>1. TypeOK'
    BY Attempts DEF IInv, TypeOK, TryAgain, request, budget, stores, ends, history
  <1> QED
    BY <1>1, Attempts
    DEF IInv, TryAgain, request, budget, stores, ends, history, Closing, Marks, NothingLost,
        Accounts, Admission, NoUnadmittedCall, OvershootBounded, Charged, Sum3, Limit,
        Completion, Bound

\* The failure path is entered before anything was saved.
LEMMA FailStep ==
    ASSUME IInv, stage \in Asking, NEW v \in {"failed", "budget_exceeded"}, Fail(v),
           tries' \in 0..(MaxAttempts - 1), faults' \in 0..MaxFaults, faults' = 0 => faults = 0,
           UNCHANGED <<request, role, acc, output, stores, status, used, merged, vital>>,
           hasBudget' \in BOOLEAN, allowed' \in Int, withTool' \in BOOLEAN, UNCHANGED <<est, fit>>,
           calls' = calls \/ (MayCall /\ Request)
    PROVE  IInv'
  <1>1. /\ calls' \in [Roles -> Nat]
        /\ \A r \in Roles : calls[r] > 0 => calls'[r] > 0
        /\ \A r \in Roles : calls'[r] > 0 => calls[r] > 0 \/ (r = role /\ MayCall)
    BY DEF Request, IInv, TypeOK, Roles
  <1>2. TypeOK'
    BY <1>1 DEF IInv, TypeOK, Fail, Stages, Terminal, request, stores
  <1>3. NoUnadmittedCall'
    BY <1>1 DEF IInv, NoUnadmittedCall, MayCall, NoBudgetOutput, Admission, Bound, Limit, request
  <1>4. /\ stage # "save" /\ verdict = "none" /\ closed = "never" /\ exec # "completed"
        /\ announced = "none" /\ status = "none" /\ stage' = "fail_row" /\ verdict' = v
        /\ UNCHANGED <<row, rowTotal, exec, announced, gateway, closed, status>>
    BY DEF IInv, Closing, Fail, stores, Asking
  <1>5. Closing' /\ Marks' /\ NothingLost'
    BY <1>4 DEF IInv, Closing, Marks, NothingLost, Asking, Failing
  <1>6. Accounts' /\ Admission'
    <2>1. /\ Charged' = Charged
          /\ UNCHANGED <<used, merged, acc, output, role, ledger, row, rowTotal>>
      BY DEF Charged, Sum3, stores
    <2>2. Accounts'
      BY <1>1, <1>4, <2>1 DEF IInv, Accounts, Asking
    <2>3. Admission'
      BY <1>4, <2>1 DEF IInv, Admission, Limit, Completion, Bound, request
    <2> QED
      BY <2>2, <2>3
  <1> QED
    BY <1>2, <1>3, <1>5, <1>6
    DEF IInv, OvershootBounded, Limit, Completion, request

-----------------------------------------------------------------------------
(* The steps of one turn                                                   *)

LEMMA SessionStep == ASSUME IInv, LoadSession PROVE IInv'
  <1>1. CASE TryAgain("session")
    BY <1>1, TryAgainStep
  <1>2. CASE ~TryAgain("session")
    <2>1. TypeOK'
      <3>1. /\ tries' \in 0..(MaxAttempts - 1) /\ faults' \in 0..MaxFaults
            /\ stage' \in {"planner", "panic"} /\ (vital' = vital \/ vital' = TRUE)
            /\ UNCHANGED <<request, role, budget, acc, output, stores, ends, fit, calls, used, merged>>
        BY <1>2, Attempts DEF IInv, TypeOK, LoadSession, history
      <3>2. vital' \in BOOLEAN
        BY <3>1, Zenon DEF IInv, TypeOK
      <3> QED
        BY <3>1, <3>2 DEF IInv, TypeOK, Stages, request, budget, stores, ends
    <2> QED
      BY <1>2, <2>1, Attempts
      DEF IInv, LoadSession, request, budget, stores, ends, history, Closing, Marks, NothingLost, Asking,
          Failing, Accounts, Admission, NoUnadmittedCall, OvershootBounded, Charged, Sum3, Limit,
          Completion, Bound
  <1> QED
    BY <1>1, <1>2

LEMMA PlannerStep == ASSUME IInv, RunPlanner PROVE IInv'
  <1>1. CASE TryAgain("planner")
    BY <1>1, TryAgainStep
  <1>2. CASE stage = "planner" /\ (GivesUp \/ Succeeds) /\ Fail("failed")
             /\ UNCHANGED <<request, role, budget, acc, output, stores, status, history>>
    BY <1>2, FailStep, Attempts DEF IInv, TypeOK, Asking, budget, history
  <1>3. CASE /\ stage = "planner" /\ Succeeds /\ stage' = "estimate"
             /\ UNCHANGED <<request, role, budget, acc, output, stores, ends, history>>
    <2>1. TypeOK'
      BY <1>3, Attempts DEF IInv, TypeOK, Stages, request, budget, stores, ends, history
    <2> QED
      BY <1>3, <2>1, Attempts
      DEF IInv, request, budget, stores, ends, history, Closing, Marks, NothingLost, Asking, Failing,
          Accounts, Admission, NoUnadmittedCall, OvershootBounded, Charged, Sum3, Limit,
          Completion, Bound
  <1> QED
    BY <1>1, <1>2, <1>3 DEF RunPlanner

LEMMA EstimateStep == ASSUME IInv, Estimate PROVE IInv'
  <1>1. CASE TryAgain("estimate")
    BY <1>1, TryAgainStep
  <1>2. CASE ~TryAgain("estimate")
    <2>1. /\ stage = "estimate" /\ stage' \in {"admit", "tool", "call"} /\ hasBudget' = FALSE
          /\ (stage' = "admit" => est' \in Nat)
          /\ UNCHANGED <<request, role, acc, output, stores, ends, fit, calls, used, merged>>
      <3>1. Sum3(output) \in Nat
        BY DEF IInv, TypeOK, Sum3, Roles
      <3>2. \A tokens \in Estimates : tokens + Sum3(output) \in Nat
        BY <3>1, BudgetAssumption
      <3> HIDE DEF Sum3
      <3> QED
        BY <1>2, <3>2 DEF Estimate, ToTool, NoBudgetYet, history
    <2>2. TypeOK'
      <3>1. /\ (stage' = "admit" \/ est' = Nil) /\ allowed' = 0 /\ withTool' = FALSE
            /\ vital' \in {vital, TRUE}
        BY <1>2 DEF Estimate, NoBudgetYet, history
      <3>2. tries' \in 0..(MaxAttempts - 1) /\ faults' \in 0..MaxFaults
        BY <1>2, Attempts DEF IInv, TypeOK, Estimate
      <3>3. /\ vital' \in BOOLEAN /\ hasBudget' \in BOOLEAN /\ withTool' \in BOOLEAN
            /\ allowed' \in Int /\ stage' \in Stages
        <4>1. vital' = vital \/ vital' = TRUE
          BY <3>1
        <4>2. vital' \in BOOLEAN
          BY <4>1, Zenon DEF IInv, TypeOK
        <4>3. allowed' \in Int /\ stage' \in Stages
          BY <2>1, <3>1 DEF Stages
        <4> QED
          BY <2>1, <3>1, <4>2, <4>3
      <3>4. est' \in Nat \union {Nil}
        BY <2>1, <3>1
      <3> QED
        BY <2>1, <3>2, <3>3, <3>4 DEF IInv, TypeOK, request, stores, ends
    <2>3. faults' = 0 => faults = 0
      BY <1>2, Attempts DEF IInv, Estimate
    <2> QED
      BY <2>1, <2>2, <2>3
      DEF IInv, request, stores, ends, Closing, Marks, NothingLost, Asking, Failing, Accounts,
          Admission, NoUnadmittedCall, OvershootBounded, Charged, Sum3, Limit, Completion, Bound
  <1> QED
    BY <1>1, <1>2

LEMMA Smaller ==
    ASSUME NEW a \in Int, NEW b \in Int
    PROVE  Least(a, b) \in Int /\ Least(a, b) <= a /\ Least(a, b) <= b
  BY DEF Least

\* What CheckBudget and the later block admit stays below the limit.
LEMMA Allowance ==
    ASSUME IInv, stage = "admit", Budget.ok
    PROVE  /\ Budget.allowed \in Int /\ acc + est \in Nat
           /\ acc + est <= Bound(role) /\ acc + est + Budget.allowed <= Limit + Completion
           /\ Budget.allowed <= Completion
  <1>1. est \in Nat /\ acc \in Nat /\ role \in Roles
    BY DEF IInv, TypeOK, Admission
  <1>2. ASSUME role = 1 PROVE acc = 0
    <2>1. used[1] = 0 /\ used[2] = 0 /\ used[3] = 0
      BY <1>2 DEF IInv, Accounts, Asking, Roles
    <2>2. merged = 0 /\ acc = Charged
      BY <1>2 DEF IInv, TypeOK, Accounts, Asking
    <2> QED
      BY <2>1, <2>2, BudgetAssumption DEF Charged, Sum3
  <1>3. /\ total \in Int /\ cap \in Int /\ Limit \in Int /\ Completion \in Nat \ {0}
        /\ total <= Limit /\ (cap > 0 => Completion = cap)
    BY Limits DEF IInv
  <1>4. CASE role = 1
    <2>1. Budget.ok <=> est <= Limit
      BY <1>4 DEF Budget, CheckBudget
    <2>2. Budget.allowed = Least(Completion, Limit - est)
      BY <1>4 DEF Budget, CheckBudget
    <2>3. Budget.allowed \in Int /\ Budget.allowed <= Completion
      BY <2>2, <1>1, <1>3, Smaller
    <2>4. est <= Limit
      BY <2>1
    <2> QED
      BY <1>1, <1>2, <1>3, <1>4, <2>3, <2>4 DEF Bound
  <1>5. CASE role # 1
    <2> DEFINE rest == total - acc
    <2>1. Budget.ok <=> est <= rest
      BY <1>5 DEF Budget, TeamBudget
    <2>2. Budget.allowed = Least(Least(est, rest), cap)
      BY <1>5 DEF Budget, TeamBudget
    <2>3. Budget.allowed \in Int /\ Budget.allowed <= cap
      BY <2>2, <1>1, <1>3, Smaller
    <2>4. est <= rest
      BY <2>1
    <2>5. Budget.allowed <= Completion
      BY <2>3, <1>3
    <2> QED
      BY <1>1, <1>3, <1>5, <2>3, <2>4, <2>5 DEF Bound
  <1> QED
    BY <1>4, <1>5

LEMMA AdmitStep == ASSUME IInv, Admit PROVE IInv'
  <1>1. CASE role = 1 /\ TryAgain("admit")
    BY <1>1, TryAgainStep
  <1>2. CASE /\ stage = "admit" /\ Succeeds /\ ~Budget.ok /\ Fail("budget_exceeded")
             /\ UNCHANGED <<hasBudget, allowed, fit>>
             /\ UNCHANGED <<request, role, est, withTool, acc, output, stores, status, calls, used,
                            merged, vital>>
    BY <1>2, FailStep, Attempts DEF IInv, TypeOK, Asking
  <1>3. CASE /\ stage = "admit" /\ Succeeds /\ Budget.ok
             /\ hasBudget' = TRUE /\ allowed' = Budget.allowed
             /\ fit' = [fit EXCEPT ![role] = acc + est]
             /\ stage' = ToTool /\ UNCHANGED verdict
             /\ UNCHANGED <<request, role, est, withTool, acc, output, stores, status, calls, used,
                            merged, vital>>
    <2>1. /\ fit' \in [Roles -> Nat \union {Nil}] /\ fit'[role] = acc + est /\ acc + est \in Nat
          /\ \A r \in Roles : r # role => fit'[r] = fit[r]
      BY <1>3, Allowance DEF IInv, TypeOK
    <2>2. stage' \in {"tool", "call"}
      BY <1>3 DEF ToTool
    <2>3. TypeOK'
      BY <1>3, <2>1, <2>2, Allowance, Attempts DEF IInv, TypeOK, Stages, request, stores
    <2>4. Closing' /\ Marks' /\ NothingLost' /\ Accounts' /\ OvershootBounded'
      BY <1>3, <2>2, Attempts
      DEF IInv, request, stores, Closing, Marks, NothingLost, Asking, Failing, Accounts,
          OvershootBounded, Charged, Sum3, Limit, Completion
    <2>5. Admission'
      <3>1. Limit' = Limit /\ Completion' = Completion /\ Bound(role)' = Bound(role)
        BY <1>3 DEF request, Limit, Completion, Bound
      <3>2. est \in Nat /\ output[1] <= Completion + ToolText
        BY <1>3 DEF IInv, Admission
      <3>3. fit'[role] # Nil
        BY <2>1 DEF Nil
      <3> QED
        BY <1>3, <2>1, <2>2, <3>1, <3>2, <3>3, Allowance DEF Admission
    <2>6. NoUnadmittedCall'
      <3>1. fit'[role] # Nil /\ fit'[role] <= Bound(role)
        BY <1>3, <2>1, Allowance DEF Nil
      <3> QED
        BY <1>3, <2>1, <3>1 DEF IInv, NoUnadmittedCall, Bound, request, Limit
    <2> QED
      BY <2>3, <2>4, <2>5, <2>6 DEF IInv
  <1>4. CASE /\ stage = "admit" /\ GivesUp /\ stage' = ToTool /\ vital' = TRUE
             /\ UNCHANGED <<request, role, budget, acc, output, stores, ends, fit, calls, used, merged>>
    <2>1. stage' \in {"tool", "call"}
      BY <1>4 DEF ToTool
    <2>2. TypeOK'
      BY <1>4, <2>1, Attempts DEF IInv, TypeOK, Stages, request, budget, stores, ends
    <2> QED
      BY <1>4, <2>1, <2>2, Attempts
      DEF IInv, request, budget, stores, ends, Closing, Marks, NothingLost, Asking, Failing, Accounts,
          Admission, NoUnadmittedCall, OvershootBounded, Charged, Sum3, Limit, Completion, Bound
  <1> QED
    BY <1>1, <1>2, <1>3, <1>4 DEF Admit

LEMMA ToolStep == ASSUME IInv, UseTool PROVE IInv'
  <1>1. CASE TryAgain("tool")
    BY <1>1, TryAgainStep
  <1>2. CASE /\ stage = "tool" /\ Succeeds /\ Fail("failed") /\ UNCHANGED withTool
             /\ UNCHANGED <<request, role, est, hasBudget, allowed, acc, output, stores, status, history>>
    BY <1>2, FailStep, Attempts DEF IInv, TypeOK, Asking, history
  <1>3. CASE /\ stage = "tool" /\ (Succeeds \/ GivesUp)
             /\ withTool' \in BOOLEAN /\ stage' = "call"
             /\ UNCHANGED <<request, role, est, hasBudget, allowed, acc, output, stores, ends, history>>
    <2>1. TypeOK'
      BY <1>3, Attempts DEF IInv, TypeOK, Stages, request, stores, ends, history
    <2> QED
      BY <1>3, <2>1, Attempts
      DEF IInv, request, stores, ends, history, Closing, Marks, NothingLost, Asking, Failing, Accounts,
          Admission, NoUnadmittedCall, OvershootBounded, Charged, Sum3, Limit, Completion, Bound
  <1>4. withTool \in BOOLEAN
    BY DEF IInv, TypeOK
  <1> QED
    BY <1>1, <1>2, <1>3, <1>4 DEF UseTool, budget, ends

LEMMA PanicStep == ASSUME IInv, Panic PROVE IInv'
  <1>1. TypeOK'
    BY DEF IInv, Panic, TypeOK, Stages, request, budget, stores, ends, history
  <1> QED
    BY <1>1
    DEF IInv, Panic, request, budget, stores, ends, history, Closing, Marks, NothingLost, Asking,
        Failing, Accounts, Admission, NoUnadmittedCall, OvershootBounded, Charged, Sum3, Limit,
        Completion, Bound

LEMMA RefuseStep == ASSUME IInv, Refuse PROVE IInv'
  <1>1. 0 \in 0..(MaxAttempts - 1) /\ faults' \in 0..MaxFaults /\ faults' = faults
    BY RetryAssumption DEF IInv, TypeOK, Refuse
  <1>2. hasBudget \in BOOLEAN /\ allowed \in Int /\ withTool \in BOOLEAN
    BY DEF IInv, TypeOK
  <1> QED
    BY <1>1, <1>2, FailStep DEF Refuse, Asking, budget, history

\* What another request changes, whoever makes it.
LEMMA Requested ==
    ASSUME IInv, MayCall, Request \/ UNCHANGED calls
    PROVE  /\ calls' \in [Roles -> Nat]
           /\ \A r \in Roles : calls[r] > 0 => calls'[r] > 0
           /\ \A r \in Roles : calls'[r] > 0 => calls[r] > 0 \/ r = role
           /\ Request => calls'[role] > 0
           /\ fit[role] # Nil /\ fit[role] <= Bound(role)
  <1>1. fit[role] # Nil /\ fit[role] <= Bound(role)
    BY DEF IInv, MayCall, NoBudgetOutput, Admission
  <1> QED
    BY <1>1 DEF IInv, TypeOK, Request, Roles

LEMMA CallLostStep == ASSUME IInv, CallLost PROVE IInv'
  <1>1. stage = "call" /\ role \in Roles
    BY DEF CallLost, MayCall, IInv, TypeOK
  <1>2. CASE GivesUp /\ Fail("failed")
    <2>1. tries' \in 0..(MaxAttempts - 1) /\ faults' \in 0..MaxFaults /\ faults' # 0
      BY <1>2, Attempts DEF IInv
    <2>2. hasBudget \in BOOLEAN /\ allowed \in Int /\ withTool \in BOOLEAN
      BY DEF IInv, TypeOK
    <2> QED
      BY <1>1, <1>2, <2>1, <2>2, FailStep DEF CallLost, Asking, budget
  <1>3. CASE Retries /\ UNCHANGED <<stage, verdict>>
    <2>1. /\ calls' \in [Roles -> Nat]
          /\ \A r \in Roles : calls[r] > 0 => calls'[r] > 0
          /\ \A r \in Roles : calls'[r] > 0 => calls[r] > 0 \/ r = role
          /\ fit[role] # Nil /\ fit[role] <= Bound(role)
      BY Requested DEF CallLost
    <2>2. UNCHANGED <<request, role, budget, acc, output, stores, ends, fit, used, merged, vital>>
      BY <1>3 DEF CallLost, ends
    <2>3. TypeOK'
      BY <1>3, <2>1, <2>2, Attempts DEF IInv, TypeOK, request, budget, stores, ends
    <2>4. Closing' /\ Marks' /\ NothingLost' /\ OvershootBounded' /\ Admission'
      BY <1>1, <1>3, <2>2, Attempts
      DEF IInv, request, budget, stores, ends, Closing, Marks, NothingLost, Asking, Failing, Admission,
          OvershootBounded, Limit, Completion, Bound
    <2>5. Accounts'
      BY <1>1, <1>3, <2>1, <2>2 DEF IInv, Accounts, Asking, Charged, Sum3, stores
    <2>6. NoUnadmittedCall'
      BY <2>1, <2>2 DEF IInv, NoUnadmittedCall, Bound, Limit, request
    <2> QED
      BY <2>3, <2>4, <2>5, <2>6 DEF IInv
  <1> QED
    BY <1>2, <1>3 DEF CallLost

LEMMA AnswerStep == ASSUME IInv, Answer PROVE IInv'
  <1> DEFINE prompt(extra) == (IF est = Nil THEN 0 ELSE est) + extra + Repeated
             text(completion) == completion + (IF withTool THEN ToolText ELSE 0)
  <1>1. PICK extra \in Overheads, completion \in 0..allowed :
          /\ MayCall /\ Succeeds /\ Request
          /\ used' = [used EXCEPT ![role] = prompt(extra) + completion]
          /\ output' = [output EXCEPT ![role] = text(completion)]
          /\ stage' = "usage"
          /\ UNCHANGED <<request, role, budget, acc, stores, ends, fit, merged, vital>>
    BY DEF Answer
  <1> DEFINE answer == prompt(extra) + completion
  <1>2. /\ calls' \in [Roles -> Nat] /\ calls'[role] > 0
        /\ \A r \in Roles : calls[r] > 0 => calls'[r] > 0
        /\ \A r \in Roles : calls'[r] > 0 => calls[r] > 0 \/ r = role
        /\ fit[role] # Nil /\ fit[role] <= Bound(role)
    BY <1>1, Requested
  <1>3. stage = "call" /\ hasBudget /\ role \in Roles /\ allowed \in Int /\ acc \in Nat
    BY <1>1 DEF IInv, TypeOK, MayCall, NoBudgetOutput
  <1>4. /\ est \in Nat /\ allowed <= Completion /\ acc + est + allowed <= Limit + Completion
        /\ output[1] <= Completion + ToolText
    BY <1>3 DEF IInv, Admission
  <1>5. /\ extra \in 0..MaxOverhead /\ MaxOverhead \in Nat /\ est # Nil
        /\ completion \in Nat /\ completion <= allowed
    BY <1>3, <1>4, BudgetAssumption DEF Nil
  <1>6. Limit \in Int /\ Completion \in Nat /\ ToolText \in Nat
    BY Limits DEF IInv
  <1>7. /\ answer \in Nat /\ text(completion) \in Nat /\ text(completion) <= Completion + ToolText
        /\ acc + answer <= Limit + 2 * Completion + ToolText + MaxOverhead
    <2>1. Repeated \in Nat /\ Repeated <= Completion + ToolText
      BY <1>4, <1>6 DEF Repeated, IInv, TypeOK, Roles
    <2>2. text(completion) \in Nat /\ text(completion) <= Completion + ToolText
      BY <1>3, <1>4, <1>5, <1>6
    <2>3. answer = est + extra + Repeated + completion
      BY <1>5
    <2>4. answer \in Nat
      BY <1>4, <1>5, <2>1, <2>3
    <2>5. acc + answer <= Limit + 2 * Completion + ToolText + MaxOverhead
      BY <1>3, <1>4, <1>5, <1>6, <2>1, <2>3
    <2> QED
      BY <2>2, <2>4, <2>5
  <1> HIDE DEF prompt, text
  <1>8. /\ used' \in [Roles -> Nat] /\ used'[role] = answer
        /\ \A r \in Roles : r # role => used'[r] = used[r]
        /\ output' \in [Roles -> Nat] /\ output'[1] <= Completion + ToolText
    BY <1>1, <1>3, <1>4, <1>7 DEF IInv, TypeOK, Roles
  <1>9. tries' \in 0..(MaxAttempts - 1) /\ faults' = faults
    BY <1>1, Attempts DEF IInv
  <1>10. TypeOK'
    BY <1>1, <1>2, <1>8, <1>9 DEF IInv, TypeOK, Stages, request, budget, stores, ends
  <1>11. Closing' /\ Marks' /\ NothingLost' /\ OvershootBounded'
    BY <1>1, <1>3, <1>9
    DEF IInv, request, stores, ends, Closing, Marks, NothingLost, Asking, Failing, OvershootBounded,
        Limit, Completion
  <1>12. Admission'
    BY <1>1, <1>2, <1>3, <1>4, <1>7, <1>8
    DEF Admission, request, budget, Limit, Completion, Bound
  <1>13. NoUnadmittedCall'
    BY <1>1, <1>2 DEF IInv, NoUnadmittedCall, Bound, Limit, request
  <1>14. Accounts'
    <2>1. used[role] = 0 /\ (\A r \in Roles : r > role => used[r] = 0 /\ ledger[r] = Nil)
          /\ ledger[role] = Nil /\ acc = Charged /\ merged <= role - 1
      BY <1>3 DEF IInv, Accounts, Asking
    <2>2. Charged' = Charged + answer
      <3>1. Sum3(used') = Sum3(used) + answer
        BY <1>3, <1>7, <1>8, <2>1 DEF Sum3, Roles, IInv, TypeOK
      <3>2. Sum3(used) \in Nat /\ ToolTokens * merged \in Nat /\ merged' = merged
        BY <1>1, BudgetAssumption DEF IInv, TypeOK, Sum3, Roles
      <3> QED
        BY <1>7, <3>1, <3>2 DEF Charged
    <2>3. row # "completed" /\ UNCHANGED <<row, ledger, acc, merged, role>>
      BY <1>1, <1>3 DEF IInv, Closing, Marks, Asking, stores
    <2>4. \A r \in Roles : r > role => used'[r] = 0 /\ ledger'[r] = Nil
      BY <1>3, <1>8, <2>1, <2>3 DEF Roles
    <2>5. \A r \in Roles : ledger'[r] \in {Nil, used'[r]}
      BY <1>8, <2>1, <2>3 DEF IInv, Accounts
    <2>6. \A r \in Roles : r < role => calls'[r] > 0
      BY <1>2 DEF IInv, Accounts
    <2>7. acc' + used'[role'] = Charged'
      BY <1>8, <2>1, <2>2, <2>3
    <2> QED
      BY <1>1, <1>2, <2>1, <2>3, <2>4, <2>5, <2>6, <2>7 DEF Accounts, Asking
  <1> QED
    BY <1>10, <1>11, <1>12, <1>13, <1>14 DEF IInv

\* The charge of a role and its row: retried, or done with the next role's turn.
LEMMA UsageStep == ASSUME IInv, RecordUsage PROVE IInv'
  <1>1. /\ stage = "usage" /\ role \in Roles /\ acc \in Nat /\ used[role] \in Nat
        /\ merged \in 0..3 /\ used \in [Roles -> Nat] /\ ToolTokens \in Nat /\ tries' = tries'
    BY BudgetAssumption DEF RecordUsage, IInv, TypeOK
  <1>2. /\ UNCHANGED <<request, budget, output, row, rowTotal, exec, announced, gateway, closed,
                       ends, fit, calls, used, vital>>
        /\ ledger' \in [Roles -> Nat \union {Nil}]
        /\ \A r \in Roles : ledger'[r] = ledger[r] \/ (r = role /\ ledger'[r] = used[r])
    BY <1>1 DEF RecordUsage, WriteUsage, IInv, TypeOK
  <1>3. tries' \in 0..(MaxAttempts - 1) /\ faults' \in 0..MaxFaults /\ (faults' = 0 => faults = 0)
    BY Attempts DEF RecordUsage, IInv, TypeOK
  <1>4. row # "completed" /\ merged <= role - 1 /\ acc + used[role] = Charged /\ calls[role] > 0
    BY <1>1 DEF IInv, Closing, Marks, Accounts
  <1>5. \A r \in Roles : ledger'[r] \in {Nil, used[r]}
    BY <1>2 DEF IInv, Accounts
  <1>6. CASE UNCHANGED <<acc, merged, role, stage>>
    <2>1. TypeOK'
      BY <1>2, <1>3, <1>6 DEF IInv, TypeOK, request, budget, ends
    <2>2. Closing' /\ Marks' /\ NothingLost' /\ OvershootBounded' /\ Admission' /\ NoUnadmittedCall'
      BY <1>2, <1>3, <1>6
      DEF IInv, request, budget, ends, Closing, Marks, NothingLost, Asking, Failing, Admission,
          OvershootBounded, NoUnadmittedCall, Limit, Completion, Bound
    <2>3. Accounts'
      <3>1. Charged' = Charged /\ UNCHANGED <<used, acc, output, role, stage, merged, calls, row>>
        BY <1>2, <1>6 DEF Charged, Sum3
      <3>2. \A r \in Roles : r > role => used[r] = 0 /\ ledger'[r] = Nil
        BY <1>1, <1>2 DEF IInv, Accounts, Roles
      <3> QED
        BY <1>1, <1>4, <1>5, <3>1, <3>2 DEF IInv, Accounts, Asking
    <2> QED
      BY <2>1, <2>2, <2>3 DEF IInv
  <1>7. CASE /\ acc' = acc + Charge
             /\ merged' = merged + (IF withTool THEN 1 ELSE 0)
             /\ IF role < 3 THEN role' = role + 1 /\ stage' = "estimate"
                ELSE stage' = "save" /\ UNCHANGED role
    <2>1. Charge \in Nat /\ Charge <= used[role] + ToolTokens
      BY <1>1 DEF Charge
    <2>2. acc' \in Nat /\ merged' \in 0..3 /\ role' \in Roles /\ merged' <= role
      BY <1>1, <1>4, <1>7, <2>1 DEF Roles
    <2>3. stage' \in {"estimate", "save"}
      BY <1>7
    <2>4. TypeOK'
      BY <1>2, <1>3, <2>2, <2>3 DEF IInv, TypeOK, Stages, request, budget, ends
    <2>5. acc' = Charged'
      <3>1. Sum3(used)' = Sum3(used) /\ Sum3(used) \in Nat
        BY <1>1, <1>2 DEF Sum3, Roles
      <3>2. CASE withTool
        <4>1. ToolTokens * (merged + 1) = ToolTokens * merged + ToolTokens
          BY <1>1
        <4>2. ToolTokens * merged \in Nat
          BY <1>1
        <4>3. acc' = acc + used[role] + ToolTokens /\ merged' = merged + 1
          BY <1>1, <1>7, <3>2 DEF Charge
        <4> QED
          BY <1>1, <1>4, <3>1, <4>1, <4>2, <4>3 DEF Charged
      <3>3. CASE ~withTool
        <4>1. acc' = acc + used[role] /\ merged' = merged
          BY <1>1, <1>7, <3>3 DEF Charge
        <4> QED
          BY <1>4, <3>1, <4>1 DEF Charged
      <3> QED
        BY <3>2, <3>3
    <2>6. OvershootBounded'
      <3>1. acc + used[role] <= Limit + 2 * Completion + ToolText + MaxOverhead
        BY <1>1 DEF IInv, Admission
      <3>2. Limit \in Int /\ Completion \in Nat /\ MaxOverhead \in Nat /\ ToolText \in Nat
        BY Limits, BudgetAssumption DEF IInv
      <3>3. Limit' = Limit /\ Completion' = Completion
        BY <1>2 DEF request, Limit, Completion
      <3>4. acc' <= Limit + 2 * Completion + ToolText + MaxOverhead + ToolTokens
        BY <1>1, <1>7, <2>1, <3>1, <3>2
      <3> QED
        BY <3>3, <3>4 DEF OvershootBounded
    <2>7. Closing' /\ Marks' /\ NothingLost'
      BY <1>1, <1>2, <1>3, <1>4, <2>3
      DEF IInv, ends, Closing, Marks, NothingLost, Asking, Failing
    <2>9. Admission' /\ NoUnadmittedCall'
      BY <1>2, <2>3
      DEF IInv, request, Admission, NoUnadmittedCall, Limit, Completion, Bound
    <2>8. Accounts'
      <3>1. \A r \in Roles : r > role => used'[r] = 0 /\ ledger'[r] = Nil
        BY <1>1, <1>2 DEF IInv, Accounts, Roles
      <3>2. \A r \in Roles : r <= role => calls'[r] > 0
        BY <1>1, <1>2, <1>4 DEF IInv, Accounts, Roles
      <3>3. stage' = "estimate" => role' = role + 1
        BY <1>7
      <3>4. stage' = "save" => role' = role /\ role = 3
        BY <1>1, <1>7 DEF Roles
      <3>5. row' # "completed"
        BY <1>2, <1>4
      <3>6. \A r \in Roles : ledger'[r] \in {Nil, used'[r]}
        BY <1>2, <1>5
      <3>7. \A r \in Roles :
               r > role' \/ (r = role' /\ stage' \in Asking) => used'[r] = 0 /\ ledger'[r] = Nil
        BY <1>1, <2>3, <3>1, <3>3, <3>4 DEF Roles, Asking
      <3>8. \A r \in Roles : r < role' => calls'[r] > 0
        BY <1>1, <2>3, <3>2, <3>3, <3>4 DEF Roles
      <3>9. stage' = "save" => \A r \in Roles : calls'[r] > 0
        BY <3>2, <3>4 DEF Roles
      <3>10. stage' \in Asking \cup {"usage"} => merged' <= role' - 1
        <4>1. stage' = "estimate" => merged' <= role' - 1
          BY <1>1, <2>2, <3>3 DEF Roles
        <4> QED
          BY <2>3, <4>1 DEF Asking
      <3> QED
        BY <2>3, <2>5, <3>5, <3>6, <3>7, <3>8, <3>9, <3>10 DEF Accounts
    <2> QED
      BY <2>4, <2>6, <2>7, <2>8, <2>9 DEF IInv
  <1> QED
    BY <1>6, <1>7 DEF RecordUsage

-----------------------------------------------------------------------------
(* The end of the run                                                      *)

\* A step of the closing leaves the accounts and the admissions alone, and a
\* result it saves is the account.
LEMMA ClosingStep ==
    ASSUME IInv, stage \in Failing \cup {"save", "record", "announce"},
           stage' \in Failing \cup {"save", "record", "announce", "done"},
           stage' = "save" => stage = "save",
           UNCHANGED <<request, role, budget, acc, output, ledger, history>>,
           row' = "completed" => \/ row = "completed" /\ rowTotal' = rowTotal
                                 \/ stage = "save" /\ rowTotal' = acc
    PROVE  Accounts' /\ Admission' /\ NoUnadmittedCall' /\ OvershootBounded'
  <1>1. Charged' = Charged /\ UNCHANGED <<used, merged, calls, fit, acc, output, role, ledger>>
    BY DEF history, Charged, Sum3
  <1>2. stage \notin Asking \cup {"usage"} /\ stage' \notin Asking \cup {"usage", "tool", "call"}
        /\ stage' # "admit"
    BY DEF Asking, Failing
  <1>3. Accounts'
    <2>1. stage = "save" => acc = Charged /\ \A r \in Roles : calls[r] > 0
      BY DEF IInv, Accounts
    <2> QED
      BY <1>1, <1>2, <2>1 DEF IInv, Accounts
  <1>4. Admission' /\ NoUnadmittedCall' /\ OvershootBounded'
    BY <1>1, <1>2
    DEF IInv, Admission, NoUnadmittedCall, OvershootBounded, request, Limit, Completion, Bound
  <1> QED
    BY <1>3, <1>4

LEMMA SaveStep == ASSUME IInv, SaveResult PROVE IInv'
  <1>1. /\ stage = "save" /\ acc \in Nat /\ rowTotal \in Nat /\ exec # "completed"
        /\ verdict = "none" /\ announced = "none" /\ status = "none"
        /\ (gateway = "marked" => row \in {"running", "completed"})
        /\ (row = "running" => gateway = "marked") /\ gateway \in GatewayStates
    BY DEF SaveResult, IInv, Closing, Marks, TypeOK, Asking
  <1>2. /\ row' \in {row, "completed"} /\ rowTotal' \in Nat
        /\ (row' = "completed" => \/ row = "completed" /\ rowTotal' = rowTotal
                                  \/ row = "running" /\ rowTotal' = acc)
    BY <1>1 DEF SaveResult, WriteResult
  <1>3. /\ tries' \in 0..(MaxAttempts - 1) /\ faults' \in 0..MaxFaults /\ closed' = gateway
        /\ UNCHANGED <<request, role, budget, acc, output, exec, ledger, announced, gateway, status,
                       history>>
    BY Attempts DEF SaveResult, IInv, TypeOK
  <1>4. \/ stage' = "save" /\ verdict' = "none" /\ faults' # 0
        \/ /\ stage' = "record" /\ verdict' = "completed"
           /\ gateway = "marked" => row' = "completed"
        \/ stage' = "fail_row" /\ verdict' = "failed" /\ faults' # 0
    <2>1. CASE Succeeds /\ WriteResult /\ stage' = "record" /\ verdict' = "completed"
      BY <1>1, <2>1 DEF WriteResult
    <2>2. CASE Retries /\ UNCHANGED <<stage, verdict>>
      BY <1>1, <2>2, Attempts DEF IInv
    <2>3. CASE GivesUp /\ Fail("failed")
      BY <2>3, Attempts DEF IInv, Fail
    <2> QED
      BY <2>1, <2>2, <2>3 DEF SaveResult
  <1>5. TypeOK'
    BY <1>1, <1>2, <1>3, <1>4
    DEF IInv, TypeOK, Stages, Terminal, GatewayStates, request, budget, history
  <1>6. Closing' /\ NothingLost'
    BY <1>1, <1>2, <1>3, <1>4 DEF Closing, NothingLost, Asking, Failing, Terminal
  <1>7. Marks'
    <2>1. row = "completed" => gateway = "marked"
      BY DEF IInv, Marks
    <2> QED
      BY <1>1, <1>2, <1>3, <1>4, <2>1 DEF Marks, GatewayStates
  <1>8. Accounts' /\ Admission' /\ NoUnadmittedCall' /\ OvershootBounded'
    BY <1>1, <1>2, <1>3, <1>4, ClosingStep DEF Failing
  <1> QED
    BY <1>5, <1>6, <1>7, <1>8 DEF IInv

LEMMA RecordStep == ASSUME IInv, RecordCompleted \/ RecordFailed PROVE IInv'
  <1>1. /\ stage \in {"record", "fail_exec"} /\ stage' \in {stage, "announce"}
        /\ UNCHANGED <<request, role, budget, acc, output, row, rowTotal, ledger, announced, gateway,
                       closed, ends, history>>
        /\ exec' \in {exec, "completed"} /\ (exec' # exec => stage = "record")
    BY DEF RecordCompleted, RecordFailed, WriteExec, stores
  <1>2. /\ announced = "none" /\ status = "none" /\ verdict \in Terminal
        /\ (stage = "record" => verdict = "completed")
        /\ (stage = "fail_exec" => verdict # "completed")
    BY <1>1 DEF IInv, Closing, Failing, Terminal
  <1>3. /\ tries' \in 0..(MaxAttempts - 1) /\ faults' \in 0..MaxFaults
        /\ (faults' = 0 => faults = 0)
    BY Attempts DEF RecordCompleted, RecordFailed, IInv, TypeOK
  <1>4. TypeOK'
    BY <1>1, <1>3 DEF IInv, TypeOK, Stages, request, budget, ends, history
  <1>5. Closing' /\ Marks'
    BY <1>1, <1>2 DEF IInv, Closing, Marks, Asking, Failing, Terminal, ends
  <1>6. NothingLost'
    BY <1>1, <1>2, <1>3 DEF IInv, NothingLost, ends
  <1>7. Accounts' /\ Admission' /\ NoUnadmittedCall' /\ OvershootBounded'
    BY <1>1, ClosingStep DEF Failing
  <1> QED
    BY <1>4, <1>5, <1>6, <1>7 DEF IInv

LEMMA FailureStep == ASSUME IInv, SaveFailure PROVE IInv'
  <1>1. /\ stage = "fail_row" /\ stage' \in {"fail_row", "fail_exec"} /\ closed' = gateway
        /\ verdict \in {"failed", "budget_exceeded"} /\ announced = "none" /\ status = "none"
        /\ UNCHANGED <<request, role, budget, acc, output, rowTotal, exec, ledger, announced,
                       gateway, ends, history>>
        /\ gateway \in GatewayStates
    BY DEF SaveFailure, IInv, Closing, TypeOK, Failing
  <1>2. row' = row \/ (row \in {"pending", "running"} /\ row' = verdict)
    BY DEF SaveFailure, WriteFailure, RowIsOpen, FailureStatus
  <1>3. /\ tries' \in 0..(MaxAttempts - 1) /\ faults' \in 0..MaxFaults
        /\ (faults' = 0 => faults = 0 /\ WriteFailure /\ stage' = "fail_exec")
    BY Attempts DEF SaveFailure, IInv, TypeOK
  <1>4. faults' = 0 /\ gateway # "failed" => row' = verdict
    <2>1. faults = 0 /\ gateway # "failed" => row \in {"pending", "running"}
      BY <1>1 DEF IInv, NothingLost, Marks
    <2> QED
      BY <1>3, <2>1 DEF WriteFailure, RowIsOpen, FailureStatus
  <1>5. TypeOK'
    BY <1>1, <1>2, <1>3
    DEF IInv, TypeOK, Stages, Terminal, GatewayStates, request, budget, ends, history
  <1>6. Closing'
    BY <1>1 DEF IInv, Closing, Asking, Failing, Terminal, ends
  <1>7. Marks'
    BY <1>1, <1>2 DEF IInv, Marks, GatewayStates, ends
  <1>8. NothingLost'
    BY <1>1, <1>3, <1>4 DEF NothingLost, ends
  <1>9. Accounts' /\ Admission' /\ NoUnadmittedCall' /\ OvershootBounded'
    BY <1>1, <1>2, ClosingStep DEF Failing
  <1> QED
    BY <1>5, <1>6, <1>7, <1>8, <1>9 DEF IInv

\* The gateway's mark and its executions row, at any time.
LEMMA GatewayStep == ASSUME IInv, MarkRow \/ CreateExecution PROVE IInv'
  <1> USE DEF Untouched, request, budget, ends, history
  <1>1. /\ \/ /\ gateway = "starting" /\ exec' = exec
              /\ \/ gateway' = "marked" /\ row' = "running"
                 \/ gateway' = "failed" /\ row' = "failed"
                 \/ gateway' = "unmarked" /\ row' = row
           \/ gateway' = gateway /\ row' = row /\ exec' = "running"
        /\ Untouched
    BY DEF MarkRow, CreateExecution
  <1>2. TypeOK'
    BY <1>1 DEF IInv, TypeOK, Terminal, GatewayStates
  <1>3. Closing'
    BY <1>1 DEF IInv, Closing
  <1>4. Marks'
    BY <1>1 DEF IInv, Marks
  <1>5. NothingLost'
    BY <1>1 DEF IInv, NothingLost, Marks
  <1>6. Accounts'
    BY <1>1 DEF IInv, Accounts, Charged, Sum3
  <1>7. Admission' /\ NoUnadmittedCall' /\ OvershootBounded'
    BY <1>1
    DEF IInv, Admission, NoUnadmittedCall, OvershootBounded, Limit, Completion, Bound
  <1> QED
    BY <1>2, <1>3, <1>4, <1>5, <1>6, <1>7 DEF IInv

LEMMA AnnounceStep == ASSUME IInv, Announce \/ RetryAnnounce PROVE IInv'
  <1>1. /\ stage = "announce" /\ verdict \in Terminal /\ announced \in {"none", verdict}
        /\ UNCHANGED <<request, role, budget, acc, output, row, rowTotal, exec, ledger, gateway,
                       closed, verdict, history>>
        /\ \/ stage' = "announce" /\ status' = status /\ faults' # 0
           \/ stage' = "done" /\ status' = verdict /\ (faults' = 0 => announced' = verdict)
        /\ announced' \in {"none", verdict}
    BY Attempts DEF Announce, RetryAnnounce, IInv, Closing, ends
  <1>2. /\ tries' \in 0..(MaxAttempts - 1) /\ faults' \in 0..MaxFaults
        /\ (faults' = 0 => faults = 0)
    BY Attempts DEF Announce, RetryAnnounce, IInv, TypeOK
  <1>3. TypeOK'
    BY <1>1, <1>2 DEF IInv, TypeOK, Stages, Terminal, request, budget, history
  <1>4. Closing' /\ Marks' /\ NothingLost'
    BY <1>1, <1>2 DEF IInv, Closing, Marks, NothingLost, Asking, Failing, Terminal
  <1>5. Accounts' /\ Admission' /\ NoUnadmittedCall' /\ OvershootBounded'
    BY <1>1, ClosingStep DEF Failing
  <1> QED
    BY <1>3, <1>4, <1>5 DEF IInv

-----------------------------------------------------------------------------
(* The theorems                                                            *)

\* The conjunction of what the parts of a run know of one another is inductive:
\* every handler of MultiAgentWorkflow keeps it, for any limits and any losses.
THEOREM Inductive == Spec => []IInv
  <1>1. IInv /\ [Next]_vars => IInv'
    <2> SUFFICES ASSUME IInv, [Next]_vars PROVE IInv'
      OBVIOUS
    <2>1. CASE LoadSession \/ RunPlanner
      BY <2>1, SessionStep, PlannerStep
    <2>2. CASE Ask
      BY <2>2, EstimateStep, AdmitStep DEF Ask
    <2>3. CASE UseTool
      BY <2>3, ToolStep
    <2>4. CASE CallLLM
      BY <2>4, PanicStep, RefuseStep, AnswerStep, CallLostStep, UsageStep DEF CallLLM
    <2>5. CASE Close
      BY <2>5, SaveStep, RecordStep, FailureStep, AnnounceStep DEF Close
    <2>6. CASE UNCHANGED vars
      BY <2>6, Stutter
    <2>7. CASE MarkRow \/ CreateExecution
      BY <2>7, GatewayStep
    <2> QED
      BY <2>1, <2>2, <2>3, <2>4, <2>5, <2>6, <2>7
      DEF Next, Team, ResearcherAsks, ResearcherTool, ResearcherCall, CriticAsks, CriticTool,
          CriticCall, SynthesizerAsks, SynthesizerTool, SynthesizerCall
  <1> QED
    BY InitInv, <1>1, PTL DEF Spec

\* The variables hold what the code can put into them, for every request.
THEOREM TypeCorrect == Spec => []TypeOK
  <1>1. IInv => TypeOK
    BY DEF IInv
  <1> QED
    BY <1>1, Inductive, PTL

\* No agent calls the LLM with a prompt that was not admitted, whichever
\* activities were lost before.
THEOREM CallsAdmitted == Spec => []NoUnadmittedCall
  <1>1. IInv => NoUnadmittedCall
    BY DEF IInv
  <1> QED
    BY <1>1, Inductive, PTL

\* By how much the accumulated tokens may exceed the limit of the request: the
\* critic's prompt, with the researcher's output in it twice, is the worst of them.
THEOREM Overshoot == Spec => []OvershootBounded
  <1>1. IInv => OvershootBounded
    BY DEF IInv
  <1> QED
    BY <1>1, Inductive, PTL

\* The task row, the usage rows, the execution row and the terminal event of a run
\* agree as far as the gateway had marked the row in time, whatever was retried.
THEOREM AccountsMatch == Spec => []AccountsAgree
  <1>1. ASSUME IInv PROVE AccountsAgree
    <2>1. /\ row = "completed" => rowTotal = Sum3(used) + ToolTokens * merged
          /\ row = "completed" => \A r \in Roles : calls[r] > 0
          /\ \A r \in Roles : ledger[r] \in {Nil, used[r]}
      BY <1>1 DEF IInv, Accounts, Charged
    <2>2. "completed" \in {announced, status} => (row = "completed" <=> closed = "marked")
      BY <1>1 DEF IInv, Closing, Marks
    <2>3. /\ exec = "completed" => verdict = "completed"
          /\ status # "none" => stage = "done" /\ status = verdict
      BY <1>1 DEF IInv, Closing
    <2>4. stage = "done" /\ faults = 0 =>
             /\ announced = verdict
             /\ verdict # "completed" /\ gateway = closed /\ gateway # "failed" => row = verdict
      BY <1>1 DEF IInv, NothingLost
    <2> QED
      BY <2>1, <2>2, <2>3, <2>4 DEF AccountsAgree
  <1> QED
    BY <1>1, Inductive, PTL

\* No step of the workflow replaces a verdict on the row: SaveResult asks for a
\* running row, SaveFailure for one that is pending or running.
THEOREM RowStays == Spec => RowIsFinal
  <1>1. ASSUME [Next]_vars, row \in Terminal, gateway' = gateway
        PROVE  UNCHANGED <<row, rowTotal>>
    <2>1. CASE LoadSession \/ RunPlanner
      BY <2>1 DEF LoadSession, RunPlanner, TryAgain, stores
    <2>2. CASE Ask
      BY <2>2 DEF Ask, Estimate, Admit, TryAgain, stores
    <2>3. CASE UseTool
      BY <2>3 DEF UseTool, TryAgain, stores
    <2>4. CASE CallLLM
      BY <2>4 DEF CallLLM, Panic, Refuse, Answer, CallLost, RecordUsage, stores
    <2>5. CASE Close
      BY <1>1, <2>5
      DEF Close, SaveResult, WriteResult, RecordCompleted, RecordFailed, SaveFailure,
          WriteFailure, RowIsOpen, Announce, RetryAnnounce, Terminal, stores
    <2>6. CASE UNCHANGED vars
      BY <2>6 DEF vars, stores
    <2>7. CASE MarkRow \/ CreateExecution
      BY <1>1, <2>7 DEF MarkRow, CreateExecution, Untouched
    <2> QED
      BY <1>1, <2>1, <2>2, <2>3, <2>4, <2>5, <2>6, <2>7
      DEF Next, Team, ResearcherAsks, ResearcherTool, ResearcherCall, CriticAsks, CriticTool,
          CriticCall, SynthesizerAsks, SynthesizerTool, SynthesizerCall
  <1>2. [Next]_vars =>
          [gateway' = gateway /\ row \in Terminal => UNCHANGED <<row, rowTotal>>]_vars
    BY <1>1
  <1> QED
    BY <1>2, PTL DEF Spec, RowIsFinal
=============================================================================

SPECIFICATION Spec
CONSTANTS
    Keywords <- AllKeywords
    Wishes <- SomeWishes
    Enablings <- SomeEnablings
    Budgets = {1, 100, 500}
    Limits = {0, 10, 100}
    MaxAttempts = 2
    MaxFaults = 2
INVARIANTS BlockedNeverExecutes PlanIsAdmitted

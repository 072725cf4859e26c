SPECIFICATION FairSpec
CONSTANTS
    BaseInterval = 1
    MaxInterval = 2
    MaxAttempts = 2
    StabilityThreshold = 2
    Container = {c1}
    Goroutine = {g1, g2}
    Request = {r1}
    Watcher = w
    None = none
    Enabled = TRUE
    OptOut = {}
    MaxBacklog = 1
    MaxLeftover = 0
INVARIANTS BudgetInv PendingInv
PROPERTIES IntentFreezesBudget KeepsAccounts ExhaustedQuiesces CrashIsAnswered

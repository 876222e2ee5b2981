CONSTANTS
    Names = {a}
    Workers = {w1, w2}
    Verdicts = {Succeeded, Failed}
    None = None
    MaxUid = 2
    MaxSchedule = 1
    Horizon = 1
    MaxLag = 2
    Budgets <- LiveBudgets
SPECIFICATION FairSpec
PROPERTY Converges

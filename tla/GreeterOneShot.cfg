CONSTANTS
    Names = {a}
    Workers = {w1}
    Verdicts = {Succeeded, Failed}
    None = None
    MaxUid = 1
    MaxSchedule = 0
    Horizon = 0
    MaxLag = 2
    Budgets <- EvictBudgets
SPECIFICATION Spec
PROPERTY OneShot

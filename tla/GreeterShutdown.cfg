CONSTANTS
    Names = {a}
    Workers = {w1, w2}
    Verdicts = {Succeeded, Failed}
    None = None
    MaxUid = 1
    MaxSchedule = 0
    Horizon = 0
    MaxLag = 2
    Budgets <- SignalBudgets
SPECIFICATION Spec
PROPERTY WaitsForWorkers

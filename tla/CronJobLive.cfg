CONSTANTS
    None = None
    Specs <- LiveSpecs
    Slots <- OneSlot
    MaxMissed = 1
    MaxUid = 2
    MaxPods = 1
    MaxLag = 1
    Horizon = 2
    Stride = 1
    Budgets <- LiveBudgets
SPECIFICATION FairSpec
INVARIANT RunsAreDue
PROPERTY CatchesUp
PROPERTY KeepsSchedule

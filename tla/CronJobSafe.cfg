CONSTANTS
    None = None
    Specs <- SafeSpecs
    Slots <- TwoSlots
    MaxMissed = 2
    MaxUid = 1
    MaxPods = 2
    MaxLag = 1
    Horizon = 5
    Stride = 2
    Budgets <- FaultBudgets
SPECIFICATION Spec
INVARIANTS TypeOK RunsAreDue
PROPERTIES NeverRepeatsListed MissesNothing ReplaceCancels CleansOldest
PROPERTY KeepsSchedule

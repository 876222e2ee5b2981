CONSTANTS
    None = None
    Specs <- ForbidSpecs
    Slots <- OneSlot
    MaxMissed = 1
    MaxUid = 1
    MaxPods = 2
    MaxLag = 2
    Horizon = 2
    Stride = 1
    Budgets <- NoFaults
SPECIFICATION Spec
INVARIANT Requeued

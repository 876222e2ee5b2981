CONSTANTS
    None = None
    Specs <- ZeroSpecs
    Slots <- OneSlot
    MaxMissed = 1
    MaxUid = 1
    MaxPods = 2
    MaxLag = 2
    Horizon = 2
    Stride = 1
    Budgets <- NoFaults
SPECIFICATION Spec
PROPERTY Retains

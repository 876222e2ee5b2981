CONSTANTS
    c1 = c1
    c2 = c2
    Callers = {c1, c2}
    Names = {n1, n2}
    Applied = {team, tier}
    Edited = edited
    None = None
    Setups <- MCSetups
SPECIFICATION Spec
INVARIANT ApplyAnswers

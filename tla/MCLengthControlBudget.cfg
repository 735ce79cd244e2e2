SPECIFICATION Spec
CONSTANTS
    MaxLen = 4
    Cap = 3
    MaxCands = 2
    Targets = {0, 1, 2, 3}
    MaxNew = 5
PROPERTIES BudgetCountsEos
CHECK_DEADLOCK FALSE

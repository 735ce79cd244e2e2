SPECIFICATION Spec
CONSTANTS
    Rows = {1, 2}
    Tokens = {0, 1, 2}
CHECK_DEADLOCK FALSE
INVARIANTS
    EveryRowFiltered

CONSTANTS
    Times <- MCTimes
SPECIFICATION Spec
INVARIANTS
    DeadlinesCarryOver

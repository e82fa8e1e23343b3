\* Three calls in two processes; one edit; processes may die.
SPECIFICATION Spec
CONSTANTS
    Calls = {"c1", "c2", "c3"}
    Processes = {"p", "q"}
    ProcessOf <- Where
    Sequence <- Generations
    Refreshing = {"c1", "c3"}
    Attempts = 1
    Nobody = Nobody
    MaxEdits = 1
INVARIANTS TypeOK LockIsExclusive
PROPERTIES FreshWhenLocked ImplementsContract EveryCallReturns
CHECK_DEADLOCK FALSE

\* Three tasks on two workers, several panics, under fairness.
SPECIFICATION FairSpec
CONSTANTS
    MaxTasks = 3
    MaxWorkers = 2
    MaxEntries = 1
    BodyResults <- Panics
    Discards <- Always
INVARIANTS
    WorkConserving
    ReportByOrdinal
PROPERTIES
    CallsReturn
    TasksStart

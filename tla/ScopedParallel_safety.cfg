\* Two tasks; the scope object is entered twice.
SPECIFICATION Spec
CONSTANTS
    MaxTasks = 2
    MaxWorkers = 2
    MaxEntries = 2
    BodyResults <- OneOfEach
    Discards <- EitherWay
INVARIANTS
    TypeOK
    Barrier
    RunsOnce
    JoinTellsOutcome
    CancelJustified
PROPERTY
    ImplementsContract

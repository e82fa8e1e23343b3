\* At most five records in a stream; any number of streams and of crashes.
SPECIFICATION Spec
CONSTANTS
    NodeRecords <- Nodes
    IdentityRecords <- Identities
    ReferenceRecords <- References
    FactRecords <- Facts
    DiagnosticRecords <- Diagnostics
    ExitClasses = {0, 1}
    KOFUN_SEMANTIC_MAX_EVENTS = 7
    Absent = Absent
    Prior = Prior
    Other = Other
INVARIANTS TypeOK ReadyStreamIsClosed ReplayReproduces
PROPERTIES AcceptedRecordsStay DestinationIsReplacedWhole

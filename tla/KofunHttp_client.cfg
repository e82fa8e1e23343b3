\* One client, every script; the loop runs.
SPECIFICATION LoopSpec
CONSTANTS
    c1 = c1
    NoClient = NoClient
    Clients = {c1}
    Scripts <- OneClient
    maximum_connections = 1
    maximum_header = 2
    maximum_body = 1
    idle_timeout = 1
    drain_timeout = 1
    KH_MAX_HEADER = 2
    KH_MAX_BODY = 1
    KH_MAX_EVENTS = 3
    KH_MAX_ROUTES = 1
    ResponseUnits = 2
    SendRoom = 3
INVARIANTS TypeOK ResponsesInOrder NothingAfterClose StatusIsDeserved
PROPERTIES DrainCloses EverythingIsAnswered EverySlotIsFreed DrainEnds
CHECK_DEADLOCK FALSE

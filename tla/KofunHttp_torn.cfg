\* A pipelining client fills the input while a response is half sent.
SPECIFICATION Spec
CONSTANTS
    c1 = c1
    NoClient = NoClient
    Clients = {c1}
    Scripts <- OneClient
    maximum_connections = 1
    maximum_header = 2
    maximum_body = 1
    idle_timeout = 1
    drain_timeout = 1
    KH_MAX_HEADER = 2
    KH_MAX_BODY = 1
    KH_MAX_EVENTS = 3
    KH_MAX_ROUTES = 1
    ResponseUnits = 2
    SendRoom = 3
PROPERTY PartialWriteRetainsResponse
CHECK_DEADLOCK FALSE

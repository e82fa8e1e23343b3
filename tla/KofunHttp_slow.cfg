\* A client writes a header of four units, which the limits allow, unit by unit,
\* to a server that is never late.
SPECIFICATION TrickleSpec
CONSTANTS
    c1 = c1
    NoClient = NoClient
    Clients = {c1}
    Scripts <- Slow
    maximum_connections = 1
    maximum_header = 4
    maximum_body = 1
    idle_timeout = 2
    drain_timeout = 1
    KH_MAX_HEADER = 4
    KH_MAX_BODY = 1
    KH_MAX_EVENTS = 3
    KH_MAX_ROUTES = 1
    ResponseUnits = 2
    SendRoom = 3
PROPERTY SlowRequestsExpire
CHECK_DEADLOCK FALSE

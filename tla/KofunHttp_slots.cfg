\* Three clients and one slot: descriptors, the table and the batch.
SPECIFICATION Spec
CONSTANTS
    c1 = c1
    c2 = c2
    c3 = c3
    NoClient = NoClient
    Clients = {c1, c2, c3}
    Scripts <- ShortScript
    maximum_connections = 1
    maximum_header = 1
    maximum_body = 0
    idle_timeout = 1
    drain_timeout = 1
    KH_MAX_HEADER = 1
    KH_MAX_BODY = 0
    KH_MAX_EVENTS = 2
    KH_MAX_ROUTES = 1
    ResponseUnits = 1
    SendRoom = 1
SYMMETRY ClientSymmetry
INVARIANTS TableMatchesSockets EventsReachTheirConnection
CHECK_DEADLOCK FALSE

\* Two documents; the worker may crash once.
SPECIFICATION Spec
CONSTANTS
    Uris = {"a", "b"}
    Texts = {"s", "t"}
    Versions = {1, 2}
    Openings <- FirstIsA
    Nothing = Nothing
    MaxSessions = 2
    MaxChanges = 1
    MaxCrashes = 1
INVARIANTS TypeOK AnswersAreCurrent PendingIsInFlight DiscardIsDeserved
PROPERTIES DiagnosticsAreCurrent EveryDocumentSettles
CHECK_DEADLOCK FALSE

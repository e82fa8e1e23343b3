\* Edits, damage and interrupted runs, one run at a time.
SPECIFICATION Spec
CONSTANTS
    Modules = {1, 2, 3}
    Runs = {"r"}
    Profiles = {"p", "q"}
    Versions <- Edited
    Imports <- ImportsOf
    EdgeDigest <- EdgesOf
    Interface <- InterfaceOf
    SamePackage <- Same
    StopPhases = {"load", "decide"}
    MaxEdits = 2
    MaxDamages = 1
    Absent = Absent
    Nothing = Nothing
    Damaged = Damaged
INVARIANTS ManifestIsClean CacheIsClean NoNeedlessExecution
PROPERTY TargetsAreFresh

\* Two runs at once in one cache directory.
SPECIFICATION Spec
CONSTANTS
    Modules = {1, 2, 3}
    Runs = {"r", "q"}
    Profiles = {"p"}
    Versions <- Few
    Imports <- ImportsOf
    EdgeDigest <- EdgesOf
    Interface <- InterfaceOf
    SamePackage <- Same
    StopPhases = {}
    MaxEdits = 1
    MaxDamages = 0
    Absent = Absent
    Nothing = Nothing
    Damaged = Damaged
INVARIANT ManifestIsClean

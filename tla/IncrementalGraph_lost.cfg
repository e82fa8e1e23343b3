\* The library is edited; a run that has committed its manifest may fail to report.
SPECIFICATION Spec
CONSTANTS
    Modules = {1, 2, 3}
    Runs = {"r"}
    Profiles = {"p"}
    Versions <- Few
    Imports <- ImportsOf
    EdgeDigest <- EdgesOf
    Interface <- InterfaceOf
    SamePackage <- Same
    StopPhases = {"load", "decide", "report"}
    MaxEdits = 1
    MaxDamages = 0
    Absent = Absent
    Nothing = Nothing
    Damaged = Damaged
PROPERTY ReusedTargetsAreCurrent

SPECIFICATION FairSpec
CONSTANTS
    Targets = {a1, a2}
    Keys = {k1, k2}
    NoKey = NoKey
    Tasks = {t1, t2}
    NoTask = NoTask
    Faults = {"press", "release"}
INVARIANTS OneRepeater HeldIsRepeated
PROPERTIES CallsReturn RepeatsStop

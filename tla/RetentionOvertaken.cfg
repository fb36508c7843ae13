\* A sweep is overtaken after its lease expired.
CONSTANTS
    Workers = {w1, w2}
    Evidence = {1}
    Disposable = {1}
    LegacyRows = {}
    Shadows = {}
    MaxStalls = 1
    MaxCrashes = 0
    MaxFaults = 0
    MaxOutages = 0
    Flapping = FALSE
SPECIFICATION Spec
INVARIANTS DeletedMeansGone

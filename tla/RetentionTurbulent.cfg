\* Everything at once: an overtaken sweep, a crash, an error, an outage; row 2 shadows row 1.
CONSTANTS
    Workers = {w1, w2}
    Evidence = {1, 2}
    Disposable = {1, 2}
    LegacyRows = {}
    Shadows <- TwoShadowed
    MaxStalls = 1
    MaxCrashes = 1
    MaxFaults = 1
    MaxOutages = 1
    Flapping = TRUE
SPECIFICATION Spec
SYMMETRY Symmetry
INVARIANTS RetainedMeansPresent FenceInv
PROPERTIES SettledIsFinal

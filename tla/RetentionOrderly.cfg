\* Leases outlast the work and the volume stays attached; crashes and storage errors.
CONSTANTS
    Workers = {w1, w2}
    Evidence = {1, 2}
    Disposable = {1, 2}
    LegacyRows = {2}
    Shadows = {}
    MaxStalls = 0
    MaxCrashes = 2
    MaxFaults = 1
    MaxOutages = 0
    Flapping = FALSE
SPECIFICATION FairSpec
INVARIANTS TypeOK LeasesProtect CrashKeepsCertainty
PROPERTIES KeepsPromise DisposableIsSettled

\* An import commits while a review is being frozen.
CONSTANT Packaging = {p1, p2}
SPECIFICATION Spec
INVARIANTS SnapshotCoversPackaging

SPECIFICATION Spec
CONSTANTS
    Uploads = {u1, u2}
    Bodies = {"evidence", "malformed", "active", "tooLarge", "noFile", "notMultipart", "evidenceForAnother"}
    MaxMishaps = 2
INVARIANT VersionsAreNew
CHECK_DEADLOCK FALSE

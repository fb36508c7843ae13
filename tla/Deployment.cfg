\* Two uploads and two mishaps; three cells; two bootstraps and three scripts; two runs of the provisioning;
\* two damages; a tab with two requests under way; three stages.
SPECIFICATION Spec
CONSTANTS
    Uploads = {u1, u2}
    Bodies = {"evidence", "malformed", "active", "tooLarge", "noFile", "notMultipart", "evidenceForAnother"}
    MaxLosses = 2
    MaxCells = 3
    Callers = {"c1", "c2"}
    Fictional = {"c1"}
    MaxMishaps = 1
    MaxScripts = 3
    Runs = {"r1", "r2"}
    Last = 2
    MaxTampering = 1
    MaxDamages = 2
    PageSize = 1
    Bearers = {"manager"}
    Accounts = {"supplier"}
    MaxRows = 3
    MaxSessions = 1
    MaxFlight = 2
    Count = 3
CONSTRAINT Followed
INVARIANTS UploadsAreWhole CellsAreSeen DeploymentIsOwned PassIsEarned WaysLead ScreenIsTrue
\* A process that has exited, a script that has ended, a file that is written take no step.
CHECK_DEADLOCK FALSE

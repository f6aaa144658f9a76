\* Two operators, an old and a new server, four versions, three failures.
CONSTANTS
    Migrator = {"m1", "m2"}
    Server = {"old", "new"}
    Build <- TwoBuilds
    Script <- FourVersions
    FollowUp = "follow_up_at"
    Record = {"r1", "r2"}
    Dialects = {"sqlite", "postgres"}
    MaxFails = 3
SPECIFICATION Spec
INVARIANTS
    TypeOK
    AppliedAsRecorded
    FollowUpsKept
PROPERTY
    AllApplied

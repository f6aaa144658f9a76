\* Two overlapping requests of one process, one workspace, two entries.
CONSTANTS
    Slot = {s1, s2}
    Process = {p1}
    Ws = {w1}
    Entry = {e1, e2}
    Catalogue <- ThreePlans
    DefaultDays = 2
    Removed = "removed"
    Interval = 1
    MaxLag = 1
    MaxCrashes = 1
    Horizon = 4
SPECIFICATION AuditSpec
INVARIANT
    AuditTypeOK
PROPERTIES
    RetentionKept
    OneSweepPerInterval
    OldEntriesGo

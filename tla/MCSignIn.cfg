\* The person and one other caller; codes of two attempts, valid for a tick, a burst of one.
CONSTANTS
    Kinds = {"login", "connect", "stepup"}
    User = user
    Others = {other}
    MaxAttempts = 2
    Ttl = 1
    TicketTtl = 1
    Cost = 1
    Cap = 1
    MaxTrouble = 4
SPECIFICATION Spec
INVARIANTS
    TypeOK
    FewMisses
    UsedOnce
PROPERTIES
    NotLostUntried
    SignsIn

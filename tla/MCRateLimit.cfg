\* Two keys, a burst of two events, each refilled in two ticks; memory callers and
\* replicas late by a tick at most.
CONSTANTS
    Key = {k1, k2}
    Cost = 2
    Cap = 4
    Minute = 2
    Second = 1
    Backends = {"memory", "redis"}
    MaxLag = 1
    MaxSkew = 1
    Horizon = 8
SYMMETRY Interchangeable
SPECIFICATION Spec
INVARIANT
    TypeOK
PROPERTIES
    ImplementsTokenBucket
    TimeAloneRefills

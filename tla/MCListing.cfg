\* Three rows, two writes during the walk.
CONSTANTS
    Ids = {1, 2, 3}
    Titles = {1}
    Dues = {1, 2}
    Null = Null
    Dialects = {"sqlite"}
    SortParams <- FewSorts
    Filters <- FewFilters
    LimitParams = {0, 2}
    MaxLimit = 200
    MaxWrites = 2
    MaxTime = 1
SPECIFICATION Spec
INVARIANTS
    TypeOK
    NothingMissed
    InOrder
PROPERTY
    WalkEnds

\* A contact and a deal, two activities, one writer and one reader.
CONSTANTS
    c1 = c1
    d1 = d1
    Writer = {w1}
    Reader = {r1}
    Record = {c1, d1}
    KindOf <- OneOfEach
    Contactable = {"contact"}
    Principal = {"Alice@x"}
    Person <- SamePerson
    Sorts <- CallsAndNotes
    Blank = blank
    MaxActs = 2
    MaxRefs = 2
SPECIFICATION TimelineSpec
INVARIANTS
    TimelineTypeOK
    PageAgrees
PROPERTY
    TimelineExact

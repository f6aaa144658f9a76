\* Two overlapping requests, three contacts, a cap of two; one address, in three
\* spellings until there has been a campaign and then in one.
CONSTANTS
    Slot = {s1, s2}
    Ids = {i1, i2, i3}
    Addrs = {"jane"}
    Spellings = {"lower", "upper", "padded"}
    Padded = {"padded"}
    Campaigns = {c1}
    None = None
    Plan = "pro"
    Catalogue = {"basic"}
    Caps <- NoCaps
    DefaultPlan = "basic"
    DefaultCap = 2
SYMMETRY Interchangeable
CONSTRAINT Focus
SPECIFICATION Spec
INVARIANTS
    TypeOK
    LimitOverrun
    OnlyRacesDuplicate
    PromisesKept

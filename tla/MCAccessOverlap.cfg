\* Two overlapping requests of the handlers that never take a role away.
CONSTANTS
    User = {u1, u2}
    Ws = {w1, w2}
    Slot = {s1, s2}
    Op = {"login", "create", "mint", "invite", "delete", "ticket"}
    Offer = {""}
    Overlap = TRUE
    Null = null
SYMMETRY AccessSymmetry
SPECIFICATION Spec
INVARIANT
    AccessEndsWithWorkspace
PROPERTY
    LoginTokenUsable

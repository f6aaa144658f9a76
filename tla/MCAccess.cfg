\* Two users, two workspace ids, one request at a time.
CONSTANTS
    User = {u1, u2}
    Ws = {w1, w2}
    Slot = {s1}
    Op = {"login", "create", "mint", "revoke", "invite", "setrole", "remove", "delete"}
    Offer = {"admin", ""}
    Overlap = FALSE
    Null = null
SYMMETRY AccessSymmetry
SPECIFICATION Spec
INVARIANTS
    TypeOK
    EveryWorkspaceHasAdmin
PROPERTY
    InvitesConsumed

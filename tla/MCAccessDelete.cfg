\* Deleting a workspace that holds a ticket, a task or a campaign.
CONSTANTS
    User = {u1, u2}
    Ws = {w1, w2}
    Slot = {s1}
    Op = {"login", "delete", "ticket"}
    Offer = {""}
    Overlap = FALSE
    Null = null
SYMMETRY AccessSymmetry
SPECIFICATION Spec
PROPERTY ConfirmedDeleteDeletes

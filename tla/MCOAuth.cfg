\* Two overlapping requests on one connection, two rotations.
CONSTANTS
    Conn = {c1}
    Slot = {s1, s2}
    MaxGen = 3
SYMMETRY SlotSymmetry
SPECIFICATION Spec
INVARIANTS
    IInv
    OnlyNewestAccess
PROPERTY
    ImplementsChain

\* Two agents race on one record of two columns.
CONSTANTS
    Agent = {a1, a2}
    Id = {c1}
    Field = {name, stage}
    Value = {null, x}
    Null = null
    MaxVersion = 4
    MaxOwed = 1
SYMMETRY Symmetry
SPECIFICATION Spec
INVARIANTS
    TypeOK
    AnswersStayTrue
    UpdatesAudited
PROPERTIES
    NoClobberAfterRead
    ImplementsStore

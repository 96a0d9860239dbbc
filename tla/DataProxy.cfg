SPECIFICATION Spec
CONSTANTS
    a = a
    b = b
    v1 = v1
    rm1 = rm1
    rm2 = rm2
    Null = Null
    NONE = NONE
    Default = Default
    Cols <- Columns
    Domain <- Domains
    Models <- TheModel
    Altered = {a}
    Modifs = {rm1, rm2}
    MaxRows = 3
SYMMETRY Symmetry
CHECK_DEADLOCK FALSE
INVARIANTS
    ModifsSound
    AppliedIsShown
PROPERTIES
    ModifsKeep
    ToldUnless

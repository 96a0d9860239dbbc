SPECIFICATION Spec
CONSTANTS
    Tables = {t1, t2}
    Names = {a, b}
    MaxEvents = 3
    MaxLevels = 2
    MaxOdd = 1
    NULL = NULL
SYMMETRY Symmetry
CHECK_DEADLOCK FALSE
INVARIANTS
    
    ContextsAreRight
    MetaStoreCurrent

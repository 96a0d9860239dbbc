SPECIFICATION Spec
CONSTANTS
    Clients = {c1, c2}
    Worker = worker
    Specs = {s1, s2}
    NULL = NULL
    MaxJobs = 1
    MaxEmits = 2
SYMMETRY Symmetry
CHECK_DEADLOCK FALSE
INVARIANTS
    SpecOutlivesItsJobs
    DeliveredWhereListed
    NothingUnasked

SPECIFICATION Spec
CONSTANTS
    Worker = worker
    Others = {other}
    Pipes = {p1, p2}
    Specs = {s1}
    NULL = NULL
    Failure = Failure
    Capacity = 1
    MaxJobs = 1
    MaxEmits = 2
CHECK_DEADLOCK FALSE
INVARIANTS
    PipesSound
    OwnerIsTold
PROPERTIES
    WritersGoOn

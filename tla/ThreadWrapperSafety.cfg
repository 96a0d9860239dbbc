SPECIFICATION Spec
CONSTANTS
    Clients = {c1, c2}
    Worker = worker
    MaxJobs = 3
SYMMETRY ClientSymmetry
INVARIANTS
    SingleCustody
    JobsAccounted
    ArgDestroyedOnce
    CancelledNeverRuns
    DisposedInOrder
    ZeroMeansNothingWaits
PROPERTIES
    StartedInOrder

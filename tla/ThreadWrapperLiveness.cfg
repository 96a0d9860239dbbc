SPECIFICATION FairSpec
CONSTANTS
    Clients = {c1, c2}
    Worker = worker
    MaxJobs = 2
PROPERTIES
    EverythingReturns
    ImplementsService

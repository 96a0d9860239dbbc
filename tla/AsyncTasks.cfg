SPECIFICATION FairSpec
CONSTANTS
    Callers = {t1}
    NOTHING = NOTHING
    MaxTasks = 3
CHECK_DEADLOCK FALSE
INVARIANTS
    TasksSound
PROPERTIES
    ExecutedInOrder
    EveryTaskIsFetched

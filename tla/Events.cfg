SPECIFICATION Spec
CONSTANTS
    Users = {u1, u2}
    Objects = {o1, o2, o3, o4, o5, o6}
    EVENTS_ARRAY_SIZE = 3
    Sizes = {3}
    Lengths = {0, 1, 2}
    MaxSize = 5
    MaxHands = 1
    MaxRunning = 2
    NULL = NULL
SYMMETRY Symmetry
CHECK_DEADLOCK FALSE
INVARIANTS
    EventsSound
    AssertHolds
    BatchKeepsEvents
PROPERTIES
    ImplementsLog

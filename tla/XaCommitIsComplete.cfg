SPECIFICATION Spec
CONSTANTS
    c1 = c1
    c2 = c2
    c3 = c3
    n1 = n1
    n2 = n2
    x1 = x1
    NULL = NULL
    Cncs <- Five
    NonXa <- TwoNonXa
    Xas <- OneXa
INVARIANT CommitIsComplete

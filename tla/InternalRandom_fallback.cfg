\* A build with getrandom() on a kernel without it.
CONSTANTS
    t1 = t1  t2 = t2
    Thread = {t1, t2}
    MainThread = t1
    Sources = {"fallback"}
    Sizes = {1}
    PoolWords = 2
    Careful = {"parent", "child"}
    MaxOps <- MCMaxOps
SPECIFICATION Spec
INVARIANT
    InitializedMeansSeeded
CHECK_DEADLOCK FALSE

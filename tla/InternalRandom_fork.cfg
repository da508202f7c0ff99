\* A child that draws without stirring first.
CONSTANTS
    t1 = t1  t2 = t2
    Thread = {t1, t2}
    MainThread = t1
    Sources = {"getrandom"}
    Sizes = {1}
    PoolWords = 2
    Careful = {"parent"}
    MaxOps <- MCMaxOps
SPECIFICATION Spec
INVARIANT
    SeedsStayInTheirProcess
CHECK_DEADLOCK FALSE

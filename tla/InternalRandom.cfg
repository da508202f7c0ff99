\* Two processes of two threads that stir first, with and without getrandom().
CONSTANTS
    t1 = t1  t2 = t2
    Thread = {t1, t2}
    MainThread = t1
    Sources = {"getrandom", "device"}
    Sizes = {1}
    PoolWords = 2
    Careful = {"child"}
    MaxOps <- MCMaxOps
SPECIFICATION Spec
INVARIANTS
    OutputsNeverRepeat
    InitializedMeansSeeded
    PastOutputsAreForgotten
    AbortsOnlyAfterClose
CHECK_DEADLOCK FALSE

\* One thread calls sodium_misuse() while others are in the critical section.
CONSTANTS
    Thread = {t1, t2, t3}
    Nobody = Nobody
    Handlers = {0, 1}
    Outsiders = {t1}
    ForeignUnlock = {"release", "eperm"}
    FailingParts = {2, 3}
    MaxCalls = 1
SPECIFICATION Spec
INVARIANTS
    ToldMeansReady
PROPERTIES
    MisuseEndsTheProcess
CHECK_DEADLOCK FALSE

\* Concurrent initialisation and handler changes; entropy may be missing.
CONSTANTS
    Thread = {t1, t2, t3}
    Nobody = Nobody
    Handlers = {0, 1}
    Outsiders = {}
    ForeignUnlock = {"release", "eperm"}
    FailingParts = {2, 3}
    MaxCalls = 1
SPECIFICATION Spec
INVARIANTS
    TypeOK
    SectionIsExclusive
    HandlerRunsUnlocked
PROPERTIES
    CallsReturn
    ImplementsInitOnce
CHECK_DEADLOCK FALSE

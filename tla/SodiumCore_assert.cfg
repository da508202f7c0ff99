\* The same, against the assertion in sodium_crit_enter().
CONSTANTS
    Thread = {t1, t2, t3}
    Nobody = Nobody
    Handlers = {0, 1}
    Outsiders = {t1}
    ForeignUnlock = {"release"}
    FailingParts = {}
    MaxCalls = 1
SPECIFICATION Spec
INVARIANT
    LockedIsClearOnEntry
CHECK_DEADLOCK FALSE

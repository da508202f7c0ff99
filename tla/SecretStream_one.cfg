\* One stream, long enough for the counter to wrap twice.
CONSTANTS
    r1 = r1  r2 = r2
    short = short  long = long  huge = huge
    ad1 = ad1  ad2 = ad2
    Rand = {r1}
    Msgs = {short}
    Ads = {ad1}
    Tags = {0, 3}
    Size <- MCSize
    CounterMod = 3
    BlockBytes = 2
    BlockMod = 4
    MaxOps = 4
    MaxRekeys = 1
SPECIFICATION Spec
INVARIANTS
    TypeOK
    AcceptsOnlyThePrefix
    InStepAccepts
    EndsAgree
    RekeyDiscardsPastKeys
CHECK_DEADLOCK FALSE

\* Two streams under one key, with old, spliced and forged headers and packets.
CONSTANTS
    r1 = r1  r2 = r2
    short = short  long = long  huge = huge
    ad1 = ad1  ad2 = ad2
    Rand = {r1, r2}
    Msgs = {long, huge}
    Ads = {ad1, ad2}
    Tags = {0}
    Size <- MCSize
    CounterMod = 3
    BlockBytes = 2
    BlockMod = 4
    MaxOps = 3
    MaxRekeys = 0
SPECIFICATION Spec
INVARIANTS
    KeystreamNeverReused
PROPERTY
    ImplementsAuthStream
CHECK_DEADLOCK FALSE

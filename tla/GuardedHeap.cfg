\* 7-bit addresses, pages of 4 bytes that the library may take for 16 before
\* sodium_init(), with and without mprotect().
CONSTANTS
    WordMod = 128
    PageSize = 4
    DefaultSizes = {4, 16}
    CanarySize = 3
    Protection = {TRUE, FALSE}
    Bases = {4, 16, 32}
    Sizes = {0, 11, 109, 110, 127}
    MaxBlocks = 2
    MaxRefused = 1
SPECIFICATION Spec
INVARIANTS
    BlocksAreGuarded
    NothingLeaks
    CanariesCatch
    NoFalseAlarm
    FreedIsWiped
CHECK_DEADLOCK FALSE

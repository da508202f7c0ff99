\* Blocks of 2 to 4 bytes, so that a handful of updates cuts a message at every
\* place of three blocks; counters that wrap within the message.
CONSTANTS
    Blake2bBlock = 2
    Blake2bWordMod = 4
    Sha2Block = 4
    Sha2WordMod = 64
    LengthBytes = 1
    Poly1305Block = 3
    Rate = 3
    OutLen = 2
    MaxOut = 7
    MaxBlocks = 5
    Chunks = {0, 1, 2, 3, 5, 9}
    MaxIn = 10
    Argon2Lanes = {1, 2, 3}
    MemoryCosts = {16, 24, 29, 36}
    Passes = {1, 2, 3}
    Argon2WordMod = 16
SPECIFICATION Spec
INVARIANTS
    Blake2bHashes
    Sha2Hashes
    Poly1305Authenticates
    SpongeSqueezes
    Argon2FillsInOrder
    LatticesAreExact
    VariantsAgree
CHECK_DEADLOCK FALSE

------------------------------- MODULE Hashes -------------------------------
(***************************************************************************)
(* The hashes together, one at a time: alg says which one a behaviour is   *)
(* about.  The streaming hashes keep their state in the first group of     *)
(* variables, Argon2, which is one call, in the second.  Each has blocks   *)
(* and words of its own size.                                              *)
(***************************************************************************)
EXTENDS Integers, Sequences

CONSTANTS
    Blake2bBlock, Blake2bWordMod,
    Sha2Block, Sha2WordMod, LengthBytes,
    Poly1305Block,
    Rate, OutLen, MaxOut, MaxBlocks,
    Chunks, MaxIn,                            \* the updates of all of them
    Argon2Lanes, MemoryCosts, Passes, Argon2WordMod

VARIABLES alg, s, todo, before, fed, out, base,   \* a stream
          input, at, mem                          \* a call

stream == <<s, todo, before, fed, out, base>>
call   == <<input, at, mem>>
vars   == <<alg, stream, call>>

Blake  == INSTANCE Blake2b WITH Block <- Blake2bBlock, WordMod <- Blake2bWordMod
Sha    == INSTANCE Sha2 WITH Block <- Sha2Block, WordMod <- Sha2WordMod
Poly   == INSTANCE Poly1305 WITH Block <- Poly1305Block
Keccak == INSTANCE Sponge
Argon  == INSTANCE Argon2 WITH Lanes <- Argon2Lanes, WordMod <- Argon2WordMod

-----------------------------------------------------------------------------
(* The 128-bit counter of bytes holds every length.                        *)
BlakeParameters ==
    /\ Blake2bBlock \in Nat \ {0} /\ Blake2bWordMod \in Nat /\ Blake2bBlock <= Blake2bWordMod
    /\ Chunks \subseteq Nat /\ MaxIn \in Nat /\ MaxIn + Blake2bBlock < Blake2bWordMod * Blake2bWordMod

(* A word of the counter holds the bits of a whole number of blocks.       *)
ShaParameters ==
    /\ Sha2Block \in Nat \ {0} /\ LengthBytes \in 0 .. Sha2Block
    /\ Sha2WordMod \in Nat /\ \E w \in 1 .. Sha2WordMod : Sha2WordMod = 8 * (w * Sha2Block)
    /\ Chunks \subseteq Nat /\ MaxIn \in Nat

PolyParameters == Poly1305Block \in Nat \ {0} /\ Chunks \subseteq Nat /\ MaxIn \in Nat

(* A digest of SHA-3 is taken from one state.                              *)
SpongeParameters == Rate \in Nat \ {0} /\ OutLen \in 1 .. Rate /\ Chunks \subseteq Nat /\ MaxIn \in Nat

(* There is a lane and a pass at least: argon2_validate_inputs() says so.  *)
ArgonParameters ==
    /\ Argon2WordMod \in Nat \ {0}
    /\ Argon2Lanes \subseteq Nat \ {0} /\ MemoryCosts \subseteq Nat /\ Passes \subseteq Nat \ {0}

ASSUME HashAssumption == BlakeParameters /\ ShaParameters /\ PolyParameters /\ SpongeParameters /\ ArgonParameters

-----------------------------------------------------------------------------
NoStream == s = 0 /\ todo = 0 /\ before = 0 /\ fed = 0 /\ out = 0 /\ base = 0
NoCall   == input = 0 /\ at = "called" /\ mem = 0

HashInit ==
    \/ alg = "blake2b" /\ Blake!Init /\ base = <<>> /\ NoCall
    \/ alg = "sha2" /\ Sha!Init /\ base = <<>> /\ NoCall
    \/ alg = "poly1305" /\ Poly!Init /\ base = <<>> /\ NoCall
    \/ alg = "sponge" /\ Keccak!Init /\ NoCall
    \/ alg = "argon2" /\ Argon!Init /\ NoStream

HashNext ==
    \/ alg = "blake2b" /\ Blake!Next /\ UNCHANGED <<alg, base, call>>
    \/ alg = "sha2" /\ Sha!Next /\ UNCHANGED <<alg, base, call>>
    \/ alg = "poly1305" /\ Poly!Next /\ UNCHANGED <<alg, base, call>>
    \/ alg = "sponge" /\ Keccak!Next /\ UNCHANGED <<alg, call>>
    \/ alg = "argon2" /\ Argon!Next /\ UNCHANGED <<alg, stream>>

HashSpec == HashInit /\ [][HashNext]_vars

-----------------------------------------------------------------------------
(* Properties.                                                             *)

(* Buffers are never overrun, counters stay in their words (TypeOK), and:  *)
(* BLAKE2b hashes the concatenation of its updates, and finishes once.     *)
Blake2bHashes == alg = "blake2b" => Blake!Blake2bHashes

(* SHA-256 and SHA-512 hash the concatenation of their updates.            *)
Sha2Hashes == alg = "sha2" => Sha!Sha2Hashes

(* Poly1305 authenticates the concatenation of its updates.                *)
Poly1305Authenticates == alg = "poly1305" => Poly!Poly1305Authenticates

(* SHA-3, SHAKE and TurboSHAKE give the output of the sponge.              *)
SpongeSqueezes == alg = "sponge" => Keccak!SpongeSqueezes

(* Argon2 reads finished blocks only, and fills its memory in every pass.  *)
Argon2FillsInOrder == alg = "argon2" => Argon!Argon2FillsInOrder
=============================================================================

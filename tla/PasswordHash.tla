---------------------------- MODULE PasswordHash ----------------------------
(***************************************************************************)
(* What a password hashing call allocates, releases and leaves behind when *)
(* any allocation or check fails: argon2_hash(), argon2_verify(),          *)
(* argon2_ctx() and argon2_initialize() under the crypto_pwhash_argon2*    *)
(* functions, and escrypt_kdf() and escrypt_r() under those of scrypt.     *)
(***************************************************************************)
EXTENDS Integers, FiniteSets

VARIABLES
    input,        \* [api |-> which function was called]
    at,           \* where it is, what it returns, what its outputs hold
    mem           \* mem[p]: what the pointer p stands for

vars == <<input, at, mem>>

Argon2Apis == {"argon2", "argon2_str", "argon2_verify"}
ScryptApis == {"scrypt", "scrypt_str", "scrypt_verify"}

(* ad, salt, stored, mine: argon2_verify(); out: argon2_hash(); rands,     *)
(* region, base: argon2_initialize(); local: escrypt_local_t.              *)
Pointers == {"ad", "salt", "stored", "mine", "out", "rands", "region", "base", "local"}

(* Outputs: the caller's buffer, the text of a _str() function, and the    *)
(* copy that verification compares.                                        *)
Outputs == {"user", "text", "mine"}

Init ==
    /\ \E api \in Argon2Apis \cup ScryptApis : input = [api |-> api]
    /\ at = [pc |-> "checks", ret |-> "none", holds |-> [o \in Outputs |-> "zero"],
             dirty |-> FALSE, unmapFailed |-> FALSE]
    /\ mem = [p \in Pointers |-> "unset"]

-----------------------------------------------------------------------------
Target == CASE input.api \in {"argon2", "scrypt"} -> "user"
            [] input.api \in {"argon2_str", "scrypt_str"} -> "text"
            [] OTHER -> "mine"

Verifying == input.api \in {"argon2_verify", "scrypt_verify"}

(* free(): of NULL, nothing.                                               *)
Freed(p) ==
    CASE mem[p] = "live"  -> "freed"
      [] mem[p] = "null"  -> "null"
      [] mem[p] = "freed" -> "freed twice"
      [] OTHER            -> "wild"

Freeing(S) == [p \in Pointers |-> IF p \in S THEN Freed(p) ELSE mem[p]]

Goto(pc)     == at' = [at EXCEPT !.pc = pc]
GoWith(pc, ret) == at' = [at EXCEPT !.pc = pc, !.ret = ret]
Allocated(p, ok) == mem' = [mem EXCEPT ![p] = IF ok THEN "live" ELSE "null"]

(* The argument checks of crypto_pwhash_argon2id() and the others: what    *)
(* they refuse has a zeroed output.                                        *)
Checks(ok) ==
    /\ at.pc = "checks"
    /\ IF ~ok THEN GoWith("done", "error")
       ELSE Goto(CASE input.api = "argon2_verify" -> "verify"
                   [] input.api \in ScryptApis -> "scrypt"
                   [] OTHER -> "hash")
    /\ UNCHANGED <<input, mem>>

(* argon2_verify(): three allocations tested together, and a fourth.       *)
VerifyAlloc(given) ==
    /\ at.pc = "verify"
    /\ IF given = {"ad", "salt", "stored"}
       THEN /\ mem' = [p \in Pointers |-> IF p \in given THEN "live" ELSE mem[p]]
            /\ Goto("verify_out")
       ELSE /\ mem' = [p \in Pointers |-> IF p \in given THEN "freed"
                                          ELSE IF p \in {"ad", "salt", "stored"} THEN "null" ELSE mem[p]]
            /\ GoWith("done", "error")
    /\ UNCHANGED input

VerifyAllocOut(ok) ==
    /\ at.pc = "verify_out"
    /\ IF ok THEN Allocated("mine", TRUE) /\ Goto("decode")
       ELSE /\ mem' = [Freeing({"ad", "salt", "stored"}) EXCEPT !["mine"] = "null"]
            /\ GoWith("done", "error")
    /\ UNCHANGED input

Decode(ok) ==
    /\ at.pc = "decode"
    /\ IF ok THEN Goto("hash") /\ UNCHANGED mem
       ELSE mem' = Freeing({"ad", "salt", "stored", "mine"}) /\ GoWith("done", "error")
    /\ UNCHANGED input

-----------------------------------------------------------------------------
HashReturns == IF Verifying THEN "compare" ELSE "done"

(* argon2_hash(): a raw output is random until there is a hash.            *)
Hash(ok) ==
    LET random == IF Target = "text" THEN at.holds ELSE [at.holds EXCEPT ![Target] = "random"]
    IN  /\ at.pc = "hash"
        /\ Allocated("out", ok)
        /\ at' = IF ok THEN [at EXCEPT !.pc = "validate", !.holds = random]
                 ELSE [at EXCEPT !.pc = HashReturns, !.ret = "error", !.holds = random]
        /\ UNCHANGED input

(* argon2_ctx() failed: `out' is wiped and freed.                          *)
CtxFails ==
    /\ mem' = Freeing({"out"})
    /\ at' = [at EXCEPT !.pc = HashReturns, !.ret = "error", !.dirty = FALSE]

(* Mutant: the region is left as it was.                                   *)
ValidateLeavingRegion(ok) ==
    /\ at.pc = "validate"
    /\ IF ok THEN Goto("rands") /\ UNCHANGED mem ELSE CtxFails
    /\ UNCHANGED input

(* argon2_ctx(): the region is NULL before anything is allocated.          *)
Validate(ok) ==
    /\ at.pc = "validate"
    /\ IF ok THEN mem' = [mem EXCEPT !["region"] = "null", !["base"] = "null"] /\ Goto("rands")
       ELSE CtxFails
    /\ UNCHANGED input

Rands(ok) ==
    /\ at.pc = "rands"
    /\ IF ok THEN Allocated("rands", TRUE) /\ Goto("region")
       ELSE /\ mem' = [Freeing({"out"}) EXCEPT !["rands"] = "null"]
            /\ at' = [at EXCEPT !.pc = HashReturns, !.ret = "error"]
    /\ UNCHANGED input

(* allocate_memory(): an impossible size, no region, no mapping; then the  *)
(* instance is freed, with whatever region it has.                         *)
Region(why) ==
    /\ at.pc = "region"
    /\ CASE why = "ok" ->
              mem' = [mem EXCEPT !["region"] = "live", !["base"] = "live"] /\ Goto("fill")
         [] why = "size" ->
              mem' = Freeing({"rands", "region", "out"})
                /\ GoWith(HashReturns, "error")
         [] why = "region" ->
              mem' = Freeing({"rands", "out"}) /\ GoWith(HashReturns, "error")
         [] why = "mapping" ->
              mem' = [Freeing({"rands", "out"}) EXCEPT !["region"] = "freed"]
                /\ GoWith(HashReturns, "error")
    /\ UNCHANGED input

(* argon2_finalize(): the hash is in `out', and the instance is freed; if  *)
(* the mapping cannot be, its descriptor is not either.                    *)
Finalize(unmapped) ==
    /\ at.pc = "fill"
    /\ mem' = Freeing(IF unmapped THEN {"rands", "base", "region"} ELSE {"rands"})
    /\ at' = [at EXCEPT !.pc = "encode", !.dirty = TRUE, !.unmapFailed = ~unmapped]
    /\ UNCHANGED input

(* The end of argon2_hash(): encoding and copying.                         *)
Encode(ok) ==
    /\ at.pc = "encode"
    /\ ok \/ Target = "text"
    /\ mem' = Freeing({"out"})
    /\ at' = [at EXCEPT !.pc = HashReturns, !.dirty = FALSE, !.ret = IF ok THEN "ok" ELSE "error",
                        !.holds[Target] = IF ok THEN "hash" ELSE "zero"]
    /\ UNCHANGED input

(* The end of argon2_verify(): the hashes are compared if there are two.   *)
Compare(same) ==
    /\ at.pc = "compare" /\ input.api = "argon2_verify"
    /\ mem' = Freeing({"ad", "salt", "mine", "stored"})
    /\ GoWith("done", IF at.ret = "ok" /\ ~same THEN "mismatch" ELSE at.ret)
    /\ UNCHANGED input

-----------------------------------------------------------------------------
(* escrypt_init_local(), then what escrypt_r() refuses, its output random. *)
Setting(ok) ==
    LET random == IF input.api = "scrypt" THEN at.holds ELSE [at.holds EXCEPT ![Target] = "random"]
    IN  /\ at.pc = "scrypt"
        /\ ok \/ input.api # "scrypt"
        /\ mem' = [mem EXCEPT !["local"] = "null"]
        /\ at' = [at EXCEPT !.pc = IF ok THEN "kdf" ELSE "free_local", !.holds = random,
                            !.ret = IF ok THEN "none" ELSE "error"]
        /\ UNCHANGED input

(* escrypt_kdf(): limits, then the region, which is freed by the caller.   *)
Kdf(limits, given) ==
    /\ at.pc = "kdf"
    /\ mem' = [mem EXCEPT !["local"] = IF limits /\ given THEN "live" ELSE "null"]
    /\ at' = [at EXCEPT !.pc = "free_local",
                        !.ret = IF limits /\ given THEN "ok" ELSE "error",
                        !.holds[Target] = IF limits /\ given THEN "hash" ELSE @]
    /\ UNCHANGED input

(* escrypt_free_local(): only the raw function looks at what it returns.   *)
FreeLocal(unmapped) ==
    /\ at.pc = "free_local"
    /\ unmapped \/ mem["local"] = "live"
    /\ mem' = IF unmapped THEN Freeing({"local"}) ELSE mem
    /\ at' = [at EXCEPT !.unmapFailed = ~unmapped,
                        !.ret = IF ~unmapped /\ input.api = "scrypt" THEN "error" ELSE @,
                        !.pc = IF Verifying /\ at.ret = "ok" THEN "scrypt_compare" ELSE "done"]
    /\ UNCHANGED input

(* The end of _str_verify(): the copy is wiped.                            *)
ScryptCompare(same) ==
    /\ at.pc = "scrypt_compare"
    /\ at' = [at EXCEPT !.pc = "done", !.ret = IF same THEN "ok" ELSE "mismatch",
                        !.holds["mine"] = "zero"]
    /\ UNCHANGED <<input, mem>>

Next ==
    \/ \E given \in SUBSET {"ad", "salt", "stored"} : VerifyAlloc(given)
    \/ \E why \in {"ok", "size", "region", "mapping"} : Region(why)
    \/ \E limits, given \in BOOLEAN : Kdf(limits, given)
    \/ \E b \in BOOLEAN :
          \/ Checks(b)
          \/ VerifyAllocOut(b)
          \/ Decode(b)
          \/ Hash(b)
          \/ Validate(b)
          \/ Rands(b)
          \/ Finalize(b)
          \/ Encode(b)
          \/ Compare(b)
          \/ Setting(b)
          \/ FreeLocal(b)
          \/ ScryptCompare(b)

Spec == Init /\ [][Next]_vars

-----------------------------------------------------------------------------
(* Properties.                                                             *)

(* Whatever failed, what a call allocated is released once when it         *)
(* returns, and nothing else is: only a mapping that the kernel refuses to *)
(* remove stays, with its descriptor.  The buffer of argon2_hash() is      *)
(* wiped before it is released.  A call that fails leaves no hash in its   *)
(* output, but for that of scrypt's raw function when it is the unmapping  *)
(* that failed; and verification succeeds only when two hashes were        *)
(* compared.                                                               *)
PasswordMemoryIsReleased ==
    /\ \A p \in Pointers : mem[p] \notin {"freed twice", "wild"}
    /\ mem["out"] = "freed" => ~at.dirty
    /\ at.pc = "done" =>
          /\ \A p \in Pointers :
                mem[p] = "live" => at.unmapFailed /\ p \in {"region", "base", "local"}
          /\ at.ret = "error" /\ ~(input.api = "scrypt" /\ at.unmapFailed) =>
                \A o \in {"user", "text"} : at.holds[o] # "hash"
          /\ at.ret \in {"ok", "mismatch"} /\ input.api = "argon2_verify" =>
                at.holds["mine"] = "hash"
          /\ at.ret = "ok" /\ ~Verifying => at.holds[Target] = "hash"
=============================================================================

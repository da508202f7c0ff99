-------------------------------- MODULE Calls --------------------------------
(***************************************************************************)
(* Calls that keep no state between them, one at a time: alg says which    *)
(* module a behaviour is about.  Here are those that are proved about;     *)
(* MCCalls adds the others, and inputs.                                    *)
(***************************************************************************)
EXTENDS Integers, Sequences

CONSTANTS
    ByteMod, SizeMax        \* of Numbers

VARIABLES alg, input, at, mem

vars == <<alg, input, at, mem>>

Number == INSTANCE Numbers
Hash   == INSTANCE PasswordHash

(* Bytes have two bits at least; the highest marks the end of a message.   *)
ASSUME ByteAssumption == ByteMod \in Nat /\ ByteMod >= 2

-----------------------------------------------------------------------------
CallInit ==
    \/ alg = "numbers" /\ Number!Init
    \/ alg = "password" /\ Hash!Init

CallNext ==
    \/ alg = "numbers" /\ Number!Next /\ UNCHANGED alg
    \/ alg = "password" /\ Hash!Next /\ UNCHANGED alg

CallSpec == CallInit /\ [][CallNext]_vars

-----------------------------------------------------------------------------
(* Properties.                                                             *)

(* sodium_pad() keeps the message and fits the buffer, and what it made is *)
(* unpadded to the message; sodium_unpad() accepts nothing else.           *)
PaddingRoundTrips == alg = "numbers" => Number!PaddingRoundTrips

(* randombytes_uniform() draws each value from as many words as any other. *)
UniformIsUniform == alg = "numbers" => Number!UniformIsUniform

PaddingAndSamplingAreExact == PaddingRoundTrips /\ UniformIsUniform

(* Password hashing releases what it allocated, once, whatever failed.     *)
PasswordMemoryIsReleased == alg = "password" => Hash!PasswordMemoryIsReleased
=============================================================================

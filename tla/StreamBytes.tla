----------------------------- MODULE StreamBytes -----------------------------
(***************************************************************************)
(* What the models of the streaming hashes share.  The n-th byte the       *)
(* application ever feeds is In(n), so that a byte lost, repeated, moved   *)
(* or left over from an earlier message shows in the result.  Buffers are  *)
(* functions from 0, and the primitives keep the blocks they were given.   *)
(***************************************************************************)
EXTENDS Integers, Sequences

In(n)     == <<"in", n>>
Key       == <<"key", 0>>
Zero      == <<"zero", 0>>
Mark      == <<"mark", 0>>       \* 0x80 or 1: where the message ends
EndBit    == <<"end", 0>>        \* 0x80 at the end of the last block of a sponge
Length(n) == <<"length", n>>

Zeros(size) == [i \in 0 .. (size - 1) |-> Zero]

(* memcpy(buf + at, in, n), where in[0] is In(from)                        *)
Copy(buf, at, from, n) ==
    [i \in DOMAIN buf |-> IF i \in at .. (at + n - 1) THEN In(from + i - at) ELSE buf[i]]

(* memset(buf + at, 0, ...) to the end of the buffer                       *)
ZeroFrom(buf, at) == [i \in DOMAIN buf |-> IF i >= at THEN Zero ELSE buf[i]]

(* A block read from the input itself.                                     *)
InBlock(from, size) == [i \in 0 .. (size - 1) |-> In(from + i)]

(* The first n blocks of the stream whose p-th byte is byte(p).            *)
Cut(byte(_), n, size) ==
    [k \in 1 .. n |-> [i \in 0 .. (size - 1) |-> byte((k - 1) * size + i)]]

Least(a, b) == IF a <= b THEN a ELSE b
=============================================================================

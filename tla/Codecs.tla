------------------------------- MODULE Codecs -------------------------------
(***************************************************************************)
(* Hexadecimal and Base64, sodium/codecs.c.  A character is its code, a    *)
(* text a sequence of codes, `ignore' the set of the characters of that    *)
(* string: strchr() finds its terminator too, so that 0 is one of them     *)
(* unless `ignore' is NULL, which is {}.                                   *)
(***************************************************************************)
EXTENDS Integers, Sequences, FiniteSets, FiniteSetsExt, SequencesExt

VARIABLES
    input,        \* the call: a record with its name and its arguments
    at,           \* "called" or "returned"
    mem           \* what it returned

Misuse == [ret |-> -2]

(* The decoders return a status, what they wrote, its length as they tell  *)
(* it and where they stopped; without a pointer for that, stopping early   *)
(* is an error, but the length has been told.                              *)
Result(ret, bin, end, text, wantsEnd) ==
    [ret |-> IF ~wantsEnd /\ end # Len(text) THEN -1 ELSE ret,
     bin |-> bin, end |-> end, len |-> IF ret = 0 THEN Len(bin) ELSE 0]

-----------------------------------------------------------------------------
(* sodium_bin2hex(): 'a' is 87 above 10, '0' is 48 above 0.                *)
HexDigit(d) == IF d < 10 THEN 48 + d ELSE 87 + d

sodium_bin2hex(bin, maxlen) ==
    IF maxlen <= 2 * Len(bin) THEN Misuse
    ELSE [ret |-> 0, text |-> FoldLeft(LAMBDA hex, byte :
              hex \o <<HexDigit(byte \div 16), HexDigit(byte % 16)>>, <<>>, bin)]

(* sodium_hex2bin(): a digit, or -1.                                       *)
HexValue(c) ==
    CASE c \in 48 .. 57  -> c - 48
      [] c \in 65 .. 70  -> c - 55
      [] c \in 97 .. 102 -> c - 87
      [] OTHER           -> -1

HexStart == [pos |-> 0, bin |-> <<>>, acc |-> 0, half |-> FALSE, ret |-> 0, stop |-> FALSE]

HexStep(st, c, maxlen, ignore) ==
    LET v == HexValue(c)
    IN  IF st.stop THEN st
        ELSE IF v = -1 THEN IF c \in ignore /\ ~st.half THEN [st EXCEPT !.pos = @ + 1]
                                                        ELSE [st EXCEPT !.stop = TRUE]
        ELSE IF Len(st.bin) >= maxlen THEN [st EXCEPT !.ret = -1, !.stop = TRUE]
        ELSE IF ~st.half THEN [st EXCEPT !.acc = v * 16, !.half = TRUE, !.pos = @ + 1]
        ELSE [st EXCEPT !.bin = Append(@, st.acc + v), !.half = FALSE, !.pos = @ + 1]

(* Half a byte is given back.                                              *)
sodium_hex2bin(hex, maxlen, ignore, wantsEnd) ==
    LET st == FoldLeft(LAMBDA acc, c : HexStep(acc, c, maxlen, ignore), HexStart, hex)
    IN  IF st.half THEN Result(-1, st.bin, st.pos - 1, hex, wantsEnd)
                   ELSE Result(st.ret, st.bin, st.pos, hex, wantsEnd)

-----------------------------------------------------------------------------
Padded(variant)  == variant \in {"original", "urlsafe"}
Urlsafe(variant) == variant \in {"urlsafe", "urlsafe_no_padding"}
Equals == 61      \* '='

(* b64_byte_to_char() and b64_urlsafe_char_to_byte(), and their inverses   *)
(* that tell other characters from 'A' by what is zero.                    *)
ByteToChar(x, variant) ==
    CASE x < 26       -> x + 65
      [] x \in 26 .. 51 -> x + 71
      [] x \in 52 .. 61 -> x - 4
      [] x = 62       -> IF Urlsafe(variant) THEN 45 ELSE 43
      [] x = 63       -> IF Urlsafe(variant) THEN 95 ELSE 47

CharToByte(c, variant) ==
    LET x == CASE c \in 65 .. 90  -> c - 65
               [] c \in 97 .. 122 -> c - 71
               [] c \in 48 .. 57  -> c + 4
               [] c = (IF Urlsafe(variant) THEN 45 ELSE 43) -> 62
               [] c = (IF Urlsafe(variant) THEN 95 ELSE 47) -> 63
               [] OTHER -> 0
    IN  IF x = 0 /\ c # 65 THEN 255 ELSE x

(* The length without its terminator, in sodium_bin2base64(); the same sum *)
(* is in sodium_base64_ENCODED_LEN() with it.                              *)
EncodedLen(n, variant) ==
    LET rest == n % 3
    IN  4 * (n \div 3) + (IF rest = 0 THEN 0 ELSE IF Padded(variant) THEN 4 ELSE 2 + rest \div 2)

(* The accumulator has the bits that wait: acc_len of them, six at a time  *)
(* being taken from the top.  Those above are never looked at again.       *)
AccMod == 2 ^ 14

EncodeByte(st, byte, variant) ==
    LET acc    == (st.acc * 256 + byte) % AccMod
        len    == st.len + 8
        sextet(left) == ByteToChar((acc \div 2 ^ left) % 64, variant)
        text   == Append(st.text, sextet(len - 6))
    IN  IF len - 6 >= 6 THEN [acc |-> acc, len |-> len - 12, text |-> Append(text, sextet(len - 12))]
                        ELSE [acc |-> acc, len |-> len - 6, text |-> text]

sodium_bin2base64(bin, maxlen, variant) ==
    LET b64_len == EncodedLen(Len(bin), variant)
        st   == FoldLeft(LAMBDA acc, byte : EncodeByte(acc, byte, variant),
                         [acc |-> 0, len |-> 0, text |-> <<>>], bin)
        text == IF st.len = 0 THEN st.text
                ELSE Append(st.text, ByteToChar((st.acc * 2 ^ (6 - st.len)) % 64, variant))
    IN  IF maxlen <= b64_len THEN Misuse
        ELSE [ret |-> 0, text |-> text \o [i \in 1 .. (b64_len - Len(text)) |-> Equals]]

B64Start == [pos |-> 0, bin |-> <<>>, acc |-> 0, len |-> 0, ret |-> 0, stop |-> FALSE]

B64Step(st, c, maxlen, ignore, variant) ==
    LET d    == CharToByte(c, variant)
        acc  == (st.acc * 64 + d) % AccMod
        read == [st EXCEPT !.acc = acc, !.len = (@ + 6) % 8]
    IN  IF st.stop THEN st
        ELSE IF d = 255 THEN IF c \in ignore THEN [st EXCEPT !.pos = @ + 1]
                                             ELSE [st EXCEPT !.stop = TRUE]
        ELSE IF st.len + 6 < 8 THEN [read EXCEPT !.pos = @ + 1]
        ELSE IF Len(st.bin) >= maxlen THEN [read EXCEPT !.ret = -1, !.stop = TRUE]
        ELSE [read EXCEPT !.bin = Append(@, (acc \div 2 ^ read.len) % 256), !.pos = @ + 1]

(* _sodium_base642bin_skip_padding(): where it stopped, and whether every  *)
(* '=' was there.                                                          *)
SkipPadding(text, pos, ignore, count) ==
    LET step(st, c) == IF st.left = 0 \/ st.stop THEN st
                       ELSE IF c = Equals THEN [st EXCEPT !.left = @ - 1, !.pos = @ + 1]
                       ELSE IF c \in ignore THEN [st EXCEPT !.pos = @ + 1]
                       ELSE [st EXCEPT !.stop = TRUE]
    IN  FoldLeft(step, [left |-> count, pos |-> pos, stop |-> FALSE],
                 SubSeq(text, pos + 1, Len(text)))

SkipIgnored(text, pos, ignore) ==
    CHOOSE p \in pos .. Len(text) :
        /\ \A i \in (pos + 1) .. p : text[i] \in ignore
        /\ p = Len(text) \/ text[p + 1] \notin ignore

(* Mutant: the last character may have bits that belong to no byte.        *)
LeftoverIsLength(st) == st.len > 4

Leftover(st) == st.len > 4 \/ st.acc % 2 ^ st.len # 0

sodium_base642bin(text, maxlen, ignore, wantsEnd, variant) ==
    LET st  == FoldLeft(LAMBDA acc, c : B64Step(acc, c, maxlen, ignore, variant), B64Start, text)
        pad == SkipPadding(text, st.pos, ignore, st.len \div 2)
    IN  IF Leftover(st) \/ st.ret # 0 THEN Result(-1, st.bin, st.pos, text, wantsEnd)
        ELSE IF ~Padded(variant)
             THEN Result(0, st.bin, SkipIgnored(text, st.pos, ignore), text, wantsEnd)
        ELSE IF pad.left > 0 THEN Result(-1, st.bin, pad.pos, text, wantsEnd)
        ELSE Result(0, st.bin, SkipIgnored(text, pad.pos, ignore), text, wantsEnd)

-----------------------------------------------------------------------------
Return(call, result) ==
    /\ at = "called" /\ input.call = call
    /\ at' = "returned" /\ mem' = result
    /\ UNCHANGED input

Next ==
    \/ Return("bin2hex", sodium_bin2hex(input.bin, input.maxlen))
    \/ Return("hex2bin", sodium_hex2bin(input.text, input.maxlen, input.ignore, input.wantsEnd))
    \/ Return("bin2base64", sodium_bin2base64(input.bin, input.maxlen, input.variant))
    \/ Return("base642bin", sodium_base642bin(input.text, input.maxlen, input.ignore,
                                              input.wantsEnd, input.variant))

-----------------------------------------------------------------------------
(* Properties.                                                             *)

Returned(call) == at = "returned" /\ input.call = call

Lower(text) == [i \in DOMAIN text |-> IF text[i] \in 65 .. 90 THEN text[i] + 32 ELSE text[i]]
Without(text, ignore) == SelectSeq(text, LAMBDA c : c \notin ignore)
HexText(bin)          == sodium_bin2hex(bin, 2 * Len(bin) + 1).text
B64Text(bin, variant) == sodium_bin2base64(bin, 4 * Len(bin) + 5, variant).text

(* What is decoded is the longest prefix of the text that is the encoding  *)
(* of something, separators between bytes aside: the bytes fit, re-encoding *)
(* them gives the text that was read, and nothing could be read further.   *)
HexIsCanonical ==
    LET read == SubSeq(input.text, 1, mem.end)
        next == input.text[mem.end + 1]
    IN  /\ Returned("bin2hex") /\ mem.ret = 0 =>
              /\ Len(mem.text) < input.maxlen
              /\ sodium_hex2bin(mem.text, Len(input.bin), {}, FALSE).bin = input.bin
        /\ Returned("hex2bin") /\ mem.ret = 0 =>
              /\ mem.len = Len(mem.bin) /\ mem.len <= input.maxlen
              /\ HexText(mem.bin) = Lower(Without(read, input.ignore))
              /\ \A i \in DOMAIN read : read[i] \in input.ignore =>
                    Len(Without(SubSeq(read, 1, i), input.ignore)) % 2 = 0
              /\ mem.end = Len(input.text) \/ (next \notin input.ignore /\ HexValue(next) = -1)
        /\ Returned("hex2bin") /\ ~input.wantsEnd /\ mem.ret # 0 =>
              \/ Len(mem.bin) = input.maxlen
              \/ HexText(mem.bin) # Lower(Without(input.text, input.ignore))

(* Base64 likewise, without a second spelling of any byte string: in       *)
(* particular the bits that the last character does not need are zero, and *)
(* the padding is there exactly if the variant has any.  A text that is an *)
(* encoding is never refused for another reason than its length.           *)
Base64IsCanonical ==
    LET read == SubSeq(input.text, 1, mem.end)
    IN  /\ Returned("bin2base64") /\ mem.ret = 0 =>
              /\ Len(mem.text) = EncodedLen(Len(input.bin), input.variant)
              /\ Len(mem.text) < input.maxlen
              /\ LET back == sodium_base642bin(mem.text, Len(input.bin), {}, FALSE, input.variant)
                 IN  back.ret = 0 /\ back.bin = input.bin
        /\ Returned("base642bin") /\ mem.ret = 0 =>
              /\ mem.len = Len(mem.bin) /\ mem.len <= input.maxlen
              /\ B64Text(mem.bin, input.variant) = Without(read, input.ignore)
        /\ Returned("base642bin") /\ ~input.wantsEnd /\ mem.ret # 0 =>
              \/ Len(mem.bin) = input.maxlen
              \/ B64Text(mem.bin, input.variant) # Without(input.text, input.ignore)

CodecsAreCanonical == HexIsCanonical /\ Base64IsCanonical
=============================================================================

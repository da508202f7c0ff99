------------------------------- MODULE IpText -------------------------------
(***************************************************************************)
(* Texts of IP addresses, sodium_ip2bin() and sodium_bin2ip() of           *)
(* sodium/codecs.c.  A character is its code; an address is a sequence of  *)
(* 16-bit groups: eight in C, input.groups here, so that short texts can   *)
(* be whole addresses.                                                     *)
(***************************************************************************)
EXTENDS Integers, Sequences, FiniteSets, FiniteSetsExt, SequencesExt

VARIABLES
    input,        \* the call: a record with its name and its arguments
    at,           \* "called" or "returned"
    mem           \* what it returned

Groups  == input.groups
Dot     == 46
Colon   == 58
Percent == 37

DigitValue(c) ==
    CASE c \in 48 .. 57  -> c - 48
      [] c \in 65 .. 70  -> c - 55
      [] c \in 97 .. 102 -> c - 87
      [] OTHER           -> -1

None == <<>>      \* a refusal; no address is empty

-----------------------------------------------------------------------------
(* parse_ipv4(): a byte at a time; the two groups, or None.                *)
V4Start == [done |-> <<>>, val |-> 0, digits |-> 0, ok |-> TRUE]

V4Step(st, c) ==
    CASE ~st.ok -> st
      [] c \in 48 .. 57 ->
           LET val == st.val * 10 + c - 48
           IN  [st EXCEPT !.val = val, !.digits = @ + 1, !.ok = st.digits < 3 /\ val <= 255]
      [] c = Dot /\ st.digits > 0 /\ Len(st.done) < 3 ->
           [st EXCEPT !.done = Append(@, st.val), !.val = 0, !.digits = 0]
      [] OTHER -> [st EXCEPT !.ok = FALSE]

parse_ipv4(text) ==
    LET st == FoldLeft(V4Step, V4Start, text)
    IN  IF st.ok /\ st.digits > 0 /\ Len(st.done) = 3
        THEN <<st.done[1] * 256 + st.done[2], st.done[3] * 256 + st.val>>
        ELSE None

(* parse_ipv6(): tmp is what was written, gap the place of "::" in it, tok *)
(* where the number being read begins.                                     *)
NoGap == -1

V6Start(pos, gap) ==
    [pos |-> pos, tmp |-> <<>>, gap |-> gap, tok |-> pos, val |-> 0, digits |-> 0, ok |-> TRUE]

V6Colon(st, text) ==
    IF st.digits = 0
    THEN IF st.gap # NoGap THEN [st EXCEPT !.ok = FALSE]
         ELSE [st EXCEPT !.gap = Len(st.tmp), !.pos = @ + 1, !.tok = st.pos + 1]
    ELSE [st EXCEPT !.ok = Len(st.tmp) < Groups /\ st.pos < Len(text), !.pos = @ + 1,
                    !.tok = st.pos + 1, !.tmp = Append(@, st.val), !.val = 0, !.digits = 0]

V6Dot(st, text) ==
    LET v4 == parse_ipv4(SubSeq(text, st.tok, Len(text)))
    IN  [st EXCEPT !.ok = Len(st.tmp) + 2 <= Groups /\ v4 # None, !.tmp = @ \o v4,
                   !.digits = 0, !.pos = Len(text) + 1]

V6Digit(st, c) ==
    [st EXCEPT !.ok = DigitValue(c) >= 0 /\ st.digits < 4, !.val = @ * 16 + DigitValue(c),
               !.digits = @ + 1, !.pos = @ + 1]

V6Step(st, text) ==
    LET c == text[st.pos]
    IN  CASE c = Colon -> V6Colon(st, text)
          [] c = Dot   -> V6Dot(st, text)
          [] OTHER     -> V6Digit(st, c)

Zeros(n) == [i \in 1 .. n |-> 0]

(* The groups after the gap are moved to the end, unless nothing is left.  *)
V6End(st) ==
    LET tmp == IF st.digits > 0 THEN Append(st.tmp, st.val) ELSE st.tmp
        missing == Groups - Len(tmp)
    IN  IF ~st.ok \/ missing < 0 \/ (st.gap = NoGap) # (missing = 0) THEN None
        ELSE IF st.gap = NoGap THEN tmp
        ELSE SubSeq(tmp, 1, st.gap) \o Zeros(missing) \o SubSeq(tmp, st.gap + 1, Len(tmp))

parse_ipv6(text) ==
    LET next(st) == IF st.ok /\ st.pos <= Len(text) THEN V6Step(st, text) ELSE st
        run[n \in 0 .. Len(text)] ==
            IF n = 0
            THEN IF text[1] # Colon THEN V6Start(1, NoGap)
                 ELSE [V6Start(3, 0) EXCEPT !.ok = Len(text) >= 2 /\ text[2] = Colon]
            ELSE next(run[n - 1])
    IN  IF text = <<>> THEN None ELSE V6End(run[Len(text)])

-----------------------------------------------------------------------------
(* sodium_ip2bin(): up to a terminator or a zone, which only IPv6 has.     *)
UpTo(text, c) == LET i == SelectInSeq(text, LAMBDA x : x = c)
                 IN  IF i = 0 THEN text ELSE SubSeq(text, 1, i - 1)

ZoneChar(c) == c \in (48 .. 57) \cup (65 .. 90) \cup (97 .. 122) \cup {45, 95, 46}

MappedPrefix == [i \in 1 .. (Groups - 2) |-> IF i = Groups - 2 THEN 65535 ELSE 0]

ZoneOrNot(text, address) ==
    LET zone    == SubSeq(text, Len(address) + 2, Len(text))
        hasZone == Len(address) < Len(text)
        isIpv6  == Contains(address, Colon)
        mapped(v4) == IF v4 = None THEN None ELSE MappedPrefix \o v4
    IN  IF hasZone /\ (zone = <<>> \/ ~isIpv6 \/ \E i \in DOMAIN zone : ~ZoneChar(zone[i])) THEN None
        ELSE IF isIpv6 THEN parse_ipv6(address) ELSE mapped(parse_ipv4(address))

Parsed(text) == ZoneOrNot(text, UpTo(text, Percent))
sodium_ip2bin(ip) == Parsed(UpTo(ip, 0))

(* ip_write_num()                                                          *)
WriteNum(val, base) ==
    LET digits[n \in 1 .. 4] == (val \div base ^ (n - 1)) % base
        count == CHOOSE n \in 1 .. 4 : val < base ^ n /\ (n = 1 \/ val >= base ^ (n - 1))
    IN  [i \in 1 .. count |-> LET d == digits[count + 1 - i] IN IF d < 10 THEN 48 + d ELSE 87 + d]

(* The longest run of zero groups, the first one if there are several, and *)
(* none if it is a single group.                                           *)
RunStep(st, i, bin) ==
    LET longer == st.len > st.bestLen
    IN  IF bin[i] = 0
        THEN [st EXCEPT !.start = IF st.len = 0 THEN i ELSE @, !.len = @ + 1]
        ELSE [start |-> 0, len |-> 0, best |-> IF longer THEN st.start ELSE st.best,
              bestLen |-> IF longer THEN st.len ELSE st.bestLen]

BestRun(bin) ==
    LET scanned == FoldLeftDomain(LAMBDA st, i : RunStep(st, i, bin),
                                  [start |-> 0, len |-> 0, best |-> 0, bestLen |-> 0], bin)
        st == IF scanned.len > scanned.bestLen
              THEN [scanned EXCEPT !.best = scanned.start, !.bestLen = scanned.len] ELSE scanned
    IN  IF st.bestLen < 2 THEN [start |-> 0, len |-> 0] ELSE [start |-> st.best, len |-> st.bestLen]

V6Text(bin) ==
    LET run  == BestRun(bin)
        last == run.start + run.len      \* the group after the run
    IN  FoldLeftDomain(LAMBDA text, i :
            CASE run.len > 0 /\ i = run.start -> text \o <<Colon, Colon>>
              [] run.len > 0 /\ i \in (run.start + 1) .. (last - 1) -> text
              [] i # 1 /\ (run.len = 0 \/ i # last) -> text \o <<Colon>> \o WriteNum(bin[i], 16)
              [] OTHER -> text \o WriteNum(bin[i], 16), <<>>, bin)

V4Text(bin) ==
    LET hi == bin[Groups - 1]  lo == bin[Groups]
    IN  WriteNum(hi \div 256, 10) \o <<Dot>> \o WriteNum(hi % 256, 10) \o <<Dot>>
          \o WriteNum(lo \div 256, 10) \o <<Dot>> \o WriteNum(lo % 256, 10)

sodium_bin2ip(bin, maxlen) ==
    LET text == IF SubSeq(bin, 1, Groups - 2) = MappedPrefix THEN V4Text(bin) ELSE V6Text(bin)
    IN  IF maxlen <= 2 \/ Len(text) >= maxlen THEN None ELSE text

-----------------------------------------------------------------------------
Return(call, result) ==
    /\ at = "called" /\ input.call = call
    /\ at' = "returned" /\ mem' = result
    /\ UNCHANGED input

Next ==
    \/ Return("ip2bin", sodium_ip2bin(input.text))
    \/ Return("bin2ip", sodium_bin2ip(input.bin, input.maxlen))

-----------------------------------------------------------------------------
(* Properties.                                                             *)

Returned(call) == at = "returned" /\ input.call = call

(* The texts of an address by RFC 4291, without the machine above: fields  *)
(* between colons, each a group but for a dotted quad that may be last.    *)
Split(text, c) ==
    LET cuts == {0, Len(text) + 1} \cup {i \in DOMAIN text : text[i] = c}
        cut(k) == CHOOSE i \in cuts : Cardinality({j \in cuts : j < i}) = k - 1
    IN  [k \in 1 .. (Cardinality(cuts) - 1) |-> SubSeq(text, cut(k) + 1, cut(k + 1) - 1)]

Fields(text) == IF text = <<>> THEN <<>> ELSE Split(text, Colon)

HexField(f) == Len(f) \in 1 .. 4 /\ \A i \in DOMAIN f : DigitValue(f[i]) >= 0

Quad(f) ==
    LET Number(n) == Len(n) \in 1 .. 3 /\ \A i \in DOMAIN n : n[i] \in 48 .. 57
        Byte(n)   == FoldLeft(LAMBDA acc, c : 10 * acc + c - 48, 0, n)
        parts     == Split(f, Dot)
    IN  IF Len(parts) = 4 /\ \A k \in 1 .. 4 : Number(parts[k]) /\ Byte(parts[k]) <= 255
        THEN <<256 * Byte(parts[1]) + Byte(parts[2]), 256 * Byte(parts[3]) + Byte(parts[4])>>
        ELSE None

(* The groups of a list of fields, which ends with a quad or not.          *)
MeaningOf(heads, quad) ==
    LET Value(f) == FoldLeft(LAMBDA acc, c : 16 * acc + DigitValue(c), 0, f)
    IN  [ok |-> \A i \in DOMAIN heads : HexField(heads[i]),
         groups |-> [i \in DOMAIN heads |-> IF HexField(heads[i]) THEN Value(heads[i]) ELSE -1] \o quad]

Meaning(fields, quadAllowed) ==
    LET n == Len(fields)
        with(quad) == MeaningOf(IF quad = None THEN fields ELSE SubSeq(fields, 1, n - 1), quad)
    IN  with(IF n > 0 /\ quadAllowed THEN Quad(fields[n]) ELSE None)

Filled(left, right) ==
    LET n == Groups - Len(left.groups) - Len(right.groups)
    IN  IF left.ok /\ right.ok /\ n >= 1 THEN {left.groups \o Zeros(n) \o right.groups} ELSE {}

Addresses(text) ==
    LET gaps    == {i \in 1 .. (Len(text) - 1) : text[i] = Colon /\ text[i + 1] = Colon}
        all(m)  == IF m.ok /\ Len(m.groups) = Groups /\ Contains(text, Colon) THEN {m.groups} ELSE {}
        dots(q) == IF q # None THEN {MappedPrefix \o q} ELSE {}
    IN  all(Meaning(Fields(text), TRUE)) \cup dots(Quad(text))
          \cup UNION {Filled(Meaning(Fields(SubSeq(text, 1, i - 1)), FALSE),
                              Meaning(Fields(SubSeq(text, i + 2, Len(text))), TRUE)) : i \in gaps}

(* An address is read from a text exactly if that is one of its texts, and *)
(* no text has two; what is written is read back, fits its buffer, and no  *)
(* shorter run of zeros than the longest is left out.                      *)
TextsMeanOneAddress ==
    /\ Returned("ip2bin") =>
          LET text    == UpTo(input.text, 0)
              address == UpTo(text, Percent)
          IN  /\ text = address => Addresses(text) = (IF mem = None THEN {} ELSE {mem})
              /\ text # address /\ mem # None =>
                    Addresses(address) = {mem} /\ Contains(address, Colon)
    /\ Returned("bin2ip") /\ mem # None =>
          /\ Len(mem) < input.maxlen /\ Len(mem) <= 45
          /\ sodium_ip2bin(mem) = input.bin
          /\ \A i, j \in DOMAIN input.bin :
                (i <= j /\ \A k \in i .. j : input.bin[k] = 0)
                    => (j - i + 1 <= BestRun(input.bin).len \/ i = j)
=============================================================================

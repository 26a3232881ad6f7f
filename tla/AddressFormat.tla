---------------------------- MODULE AddressFormat ----------------------------
(***************************************************************************)
(* Text that stands for bytes: base58 and base58check (core/base58.cpp),   *)
(* bech32 and segwit addresses (core/bech32.cpp), WIF and decimal private  *)
(* keys (core/privkey.cpp), and the scripts of mainnet addresses           *)
(* (chain/script.cpp), all under src/src.  A text is a sequence of         *)
(* character codes.                                                        *)
(*                                                                         *)
(* Hash functions are parameters: any function of the same length will do. *)
(***************************************************************************)
EXTENDS WireFormat

CONSTANTS Checksum(_),   \* the first four bytes of hash256
          Hash160(_),    \* 20 bytes
          Order          \* of the group: bytes

NoText == <<>>     \* an error, or std::nullopt, where a text is expected
Codes(a, b) == [i \in 1 .. b - a + 1 |-> a + i - 1]
IndexIn(c, chars) == IF Contains(chars, c) THEN SelectInSeq(chars, LAMBDA x : x = c) - 1 ELSE -1
-----------------------------------------------------------------------------
\* Base conversion in place, digit by digit with a carry; digits beyond the
\* size of the buffer would be lost.  The digits are the last first here.
RECURSIVE MulAdd(_, _, _, _, _, _)
MulAdd(digits, j, carry, mul, base, size) ==
    IF j > size \/ (carry = 0 /\ j > Len(digits)) THEN digits
    ELSE LET v == carry + mul * (IF j <= Len(digits) THEN digits[j] ELSE 0)
             put == IF j <= Len(digits) THEN [digits EXCEPT ![j] = v % base] ELSE Append(digits, v % base)
         IN MulAdd(put, j + 1, v \div base, mul, base, size)
Convert(values, mul, base, size) ==
    LET read[n \in 0 .. Len(values)] ==
            IF n = 0 THEN <<>>
            ELSE LET digits == read[n - 1] IN
                 IF digits = <<>> /\ values[n] = 0 THEN <<>>
                 ELSE MulAdd(digits, 1, values[n], mul, base, size) IN
    Reverse(read[Len(values)])
SkipZeros(s) == IF \E i \in DOMAIN s : s[i] # 0
                THEN SubSeq(s, SelectInSeq(s, LAMBDA x : x # 0), Len(s)) ELSE <<>>
Zeros(s) == [i \in 1 .. Len(s) - Len(SkipZeros(s)) |-> 0]

Alphabet58 == Codes(49, 57) \o Codes(65, 72) \o Codes(74, 78) \o Codes(80, 90) \o Codes(97, 107) \o Codes(109, 122)
\* Zero bytes in front become zero digits in front, one each.
Size58(n) == (n * 138) \div 100 + 2
Spelled(digits) == [i \in DOMAIN digits |-> Alphabet58[digits[i] + 1]]
Digits58(rest) == SkipZeros(Convert(rest, 256, 58, Size58(Len(rest))))
Base58Encode_ZerosLost(bytes) == Spelled(Digits58(bytes))   \* mutant: a number has no leading zeros
Base58Encode(bytes) == Spelled(Zeros(bytes) \o Digits58(SkipZeros(bytes)))
Base58Decode(text) ==
    LET digits == [i \in DOMAIN text |-> IndexIn(text[i], Alphabet58)]
        rest == SkipZeros(digits) IN
    IF \E i \in DOMAIN digits : digits[i] = -1 THEN Fail
    ELSE Got(Zeros(digits) \o SkipZeros(Convert(rest, 58, 256, (Len(rest) * 733) \div 1000 + 2)), Len(text))
Base58CheckEncode(payload) == Base58Encode(payload \o Checksum(payload))
Base58CheckDecode(text) ==
    Then(Base58Decode(text), LAMBDA raw :
        LET n == Len(raw.value) - 4 IN
        IF n < 0 \/ Checksum(SubSeq(raw.value, 1, n)) # SubSeq(raw.value, n + 1, n + 4) THEN Fail
        ELSE Got(SubSeq(raw.value, 1, n), Len(text)))
-----------------------------------------------------------------------------
\* Private keys are smaller than the order of the group.  They have KeyLen
\* bytes, 32 in the code.
KeyLen == Len(Order)
Below(a, b) == \E i \in DOMAIN a : a[i] < b[i] /\ \A j \in 1 .. i - 1 : a[j] = b[j]
ValidSecret(secret) == SkipZeros(secret) # <<>> /\ Below(secret, Order)

Versions == [mainnet |-> 128, testnet |-> 239]
WifKey(network, secret, compressed) ==
    [network |-> network, secret |-> secret, compressed |-> compressed]
EncodeWif(k) ==
    Base58CheckEncode(<<Versions[k.network]>> \o k.secret \o (IF k.compressed THEN <<1>> ELSE <<>>))
DecodeWif(text) ==
    Then(Base58CheckDecode(text), LAMBDA r :
        LET p == r.value
            secret == SubSeq(p, 2, KeyLen + 1) IN
        IF Len(p) \notin {KeyLen + 1, KeyLen + 2} \/ p[1] \notin {128, 239} THEN Fail
        ELSE IF (Len(p) = KeyLen + 2 /\ p[KeyLen + 2] # 1) \/ ~ValidSecret(secret) THEN Fail
        ELSE Got(WifKey(IF p[1] = 239 THEN "testnet" ELSE "mainnet", secret, Len(p) = KeyLen + 2), r.off))

\* Decimals: digits only; a carry out of the bytes of a key is an error.
Decimal(digits) == [i \in DOMAIN digits |-> 48 + digits[i]]
EncodeDec(secret) == Decimal(SkipZeros(Convert(secret, 256, 10, 3 * KeyLen)))
DecodeDec(text) ==
    LET bytes == SkipZeros(Convert([i \in DOMAIN text |-> text[i] - 48], 10, 256, Len(text)))
        secret == [i \in 1 .. KeyLen - Len(bytes) |-> 0] \o bytes IN
    IF text = <<>> \/ \E i \in DOMAIN text : text[i] \notin 48 .. 57 THEN Fail
    ELSE IF Len(bytes) > KeyLen THEN Fail
    ELSE IF ValidSecret(secret) THEN Got(secret, Len(text)) ELSE Fail
-----------------------------------------------------------------------------
\* Bech32.  Values are 0 .. 31.
Charset == <<113, 112, 122, 114, 121, 57, 120, 56, 103, 102, 50, 116, 118, 100, 119, 48,
             115, 51, 106, 110, 53, 52, 107, 104, 99, 101, 54, 109, 117, 97, 55, 108>>
Gen == <<996825010, 642813549, 513874426, 1027748829, 705979059>>
Variants == [bech32 |-> 1, bech32m |-> 734539939]
IsLower(c) == c \in 97 .. 122
IsUpper(c) == c \in 65 .. 90
Lower(c)   == IF IsUpper(c) THEN c + 32 ELSE c

\* Thirty bits are six values; the checksum is computed value by value.
Digits(n) == [i \in 1 .. 6 |-> (n \div 32^(6 - i)) % 32]
Xor == [a \in 0 .. 31 |-> [b \in 0 .. 31 |->
    LET bit(n) == IF (a \div n) % 2 # (b \div n) % 2 THEN n ELSE 0 IN
    bit(1) + bit(2) + bit(4) + bit(8) + bit(16)]]
XorAll(s, t) == <<Xor[s[1]][t[1]], Xor[s[2]][t[2]], Xor[s[3]][t[3]],
                  Xor[s[4]][t[4]], Xor[s[5]][t[5]], Xor[s[6]][t[6]]>>
GenOf == [b \in 0 .. 31 |->
    FoldLeft(LAMBDA x, i : IF (b \div 2^(i - 1)) % 2 = 1 THEN XorAll(x, Digits(Gen[i])) ELSE x,
             Digits(0), [i \in 1 .. 5 |-> i])]
Polymod(values) ==
    LET chk[n \in 0 .. Len(values)] ==
            IF n = 0 THEN Digits(1)
            ELSE LET c == chk[n - 1]
                     shifted == <<c[2], c[3], c[4], c[5], c[6], values[n]>> IN
                 IF c[1] = 0 THEN shifted ELSE XorAll(shifted, GenOf[c[1]]) IN
    chk[Len(values)]
HrpExpand(hrp) == [i \in DOMAIN hrp |-> hrp[i] \div 32] \o <<0>> \o [i \in DOMAIN hrp |-> hrp[i] % 32]

\* The length is checked on what was written; a prefix is never out of range here.
Bech32Encode(hrp, values, variant) ==
    LET all  == values \o XorAll(Polymod(HrpExpand(hrp) \o values \o Digits(0)), Digits(Variants[variant]))
        text == hrp \o <<49>> \o [i \in DOMAIN all |-> Charset[all[i] + 1]] IN
    IF Len(text) > 90 THEN NoText ELSE text
Bech32Decode(text) ==
    LET sep  == IF Contains(text, 49) THEN SelectLastInSeq(text, LAMBDA c : c = 49) ELSE 0
        hrp  == [i \in 1 .. sep - 1 |-> Lower(text[i])]
        data == [i \in 1 .. Len(text) - sep |-> IndexIn(Lower(text[sep + i]), Charset)]
        mod  == Polymod(HrpExpand(hrp) \o data) IN
    IF \/ Len(text) < 8 \/ Len(text) > 90
       \/ \E i \in DOMAIN text : text[i] \notin 33 .. 126
       \/ \E i, j \in DOMAIN text : IsLower(text[i]) /\ IsUpper(text[j])
       \/ sep <= 1 \/ sep + 6 > Len(text)
       \/ \E i \in DOMAIN data : data[i] = -1
       \/ \A v \in DOMAIN Variants : mod # Digits(Variants[v])
    THEN Fail
    ELSE Got([hrp |-> hrp, values |-> SubSeq(data, 1, Len(data) - 6),
              variant |-> CHOOSE v \in DOMAIN Variants : mod = Digits(Variants[v])], Len(text))

\* convertbits: the same bits, the highest first, in values of another
\* width.  What is left at the end is padded, or must be padding.
ConvertBits(values, from, to, pad) ==
    LET n == Len(values) * from
        bit(k) == IF k >= n THEN 0 ELSE (values[k \div from + 1] \div 2^(from - 1 - (k % from))) % 2
        value(i) == LET v[b \in 0 .. to] == IF b = 0 THEN 0 ELSE 2 * v[b - 1] + bit(i * to + b - 1) IN v[to]
        out == [i \in 1 .. n \div to |-> value(i - 1)]
        rest == value(n \div to) IN
    IF pad THEN Got(IF n % to = 0 THEN out ELSE Append(out, rest), 0)
    ELSE IF n % to >= from \/ rest # 0 THEN Fail ELSE Got(out, 0)

ProgramFits_AnyLength(witver, n) == TRUE    \* mutant: the length of a program is not checked
ProgramFits(witver, n) == n \in 2 .. 40 /\ (witver = 0 => n \in {20, 32})
VariantOf(witver) == IF witver = 0 THEN "bech32" ELSE "bech32m"
SegwitEncode(hrp, witver, program) ==
    IF witver \notin 0 .. 16 \/ ~ProgramFits(witver, Len(program)) THEN NoText
    ELSE Bech32Encode(hrp, <<witver>> \o ConvertBits(program, 8, 5, TRUE).value, VariantOf(witver))
SegwitDecode(text) ==
    Then(Bech32Decode(text), LAMBDA r :
        LET v == r.value.values IN
        IF v = <<>> \/ v[1] > 16 THEN Fail
        ELSE Then(ConvertBits(Tail(v), 5, 8, FALSE), LAMBDA p :
                 IF ~ProgramFits(v[1], Len(p.value)) \/ r.value.variant # VariantOf(v[1]) THEN Fail
                 ELSE Got([hrp |-> r.value.hrp, witver |-> v[1], program |-> p.value], r.off)))
-----------------------------------------------------------------------------
\* Scripts.  Bitcoin's prefix is "bc".
Bc == <<98, 99>>
P2pkh(h)  == <<118, 169, 20>> \o h \o <<136, 172>>
P2sh(h)   == <<169, 20>> \o h \o <<135>>
Witness(witver, p) == <<IF witver = 0 THEN 0 ELSE 80 + witver, Len(p)>> \o p
P2pk(key) == <<Len(key)>> \o key \o <<172>>
IsP2pk(s) == \/ Len(s) = 35 /\ s[1] = 33 /\ s[2] \in {2, 3} /\ s[35] = 172
             \/ Len(s) = 67 /\ s[1] = 65 /\ s[2] = 4 /\ s[67] = 172

AddressFromScript(s) ==
    LET n == Len(s)
        part(a, b) == SubSeq(s, a, b) IN
    CASE n = 25 /\ s = P2pkh(part(4, 23)) -> Base58CheckEncode(<<0>> \o part(4, 23))
      [] n = 23 /\ s = P2sh(part(3, 22)) -> Base58CheckEncode(<<5>> \o part(3, 22))
      [] n \in {22, 34} /\ s = Witness(0, part(3, n)) -> SegwitEncode(Bc, 0, part(3, n))
      [] n = 34 /\ s = Witness(1, part(3, n)) -> SegwitEncode(Bc, 1, part(3, n))
      [] IsP2pk(s) -> Base58CheckEncode(<<0>> \o Hash160(part(2, n - 1)))
      [] OTHER -> NoText
\* The classes of addresses that sweep and the indexes know.
Class(text) ==
    LET w == SegwitDecode(text)
        p == Base58CheckDecode(text) IN
    IF w.ok THEN
        CASE w.value.hrp # Bc -> "none"
          [] w.value.witver = 0 /\ Len(w.value.program) = 20 -> "p2wpkh"
          [] w.value.witver = 0 /\ Len(w.value.program) = 32 -> "p2wsh"
          [] w.value.witver = 1 /\ Len(w.value.program) = 32 -> "p2tr"
          [] OTHER -> "none"
    ELSE IF p.ok /\ Len(p.value) = 21
    THEN CASE p.value[1] = 0 -> "p2pkh" [] p.value[1] = 5 -> "p2sh" [] OTHER -> "none"
    ELSE "none"
IsMainnet(text) ==
    IF SegwitDecode(text).ok THEN SegwitDecode(text).value.hrp = Bc
    ELSE Class(text) \in {"p2pkh", "p2sh"}
ScriptFromAddress(text) ==
    LET class == Class(text)
        hash  == Tail(Base58CheckDecode(text).value) IN
    CASE class = "none" -> Fail
      [] class = "p2pkh" -> Got(P2pkh(hash), Len(text))
      [] class = "p2sh" -> Got(P2sh(hash), Len(text))
      [] OTHER -> Got(Witness(SegwitDecode(text).value.witver, SegwitDecode(text).value.program), Len(text))
=============================================================================
